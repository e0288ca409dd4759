------------------------------ MODULE DeskProofs ------------------------------
(***************************************************************************)
(* Theorems about the desk of the administration, for any number of        *)
(* requests, servers, tabs and rows; each part is about one scene of        *)
(* MCContent, on its own:                                                  *)
(*   - no secret becomes unreadable, and none but one sent behind the      *)
(*     script's back is lost (SecretSurvives);                             *)
(*   - no environment is switched to Clerk without a key, but by a form    *)
(*     with an empty key or by a page loaded from another environment      *)
(*     (SwitchedWithKeys);                                                 *)
(*   - a page made the homepage with no setter between is the only one     *)
(*     (HomeIsAlone);                                                      *)
(*   - items have their types and terms their taxonomies (OwnersAreThere); *)
(*   - objects have the rows that name them (ObjectsHaveRows);             *)
(*   - the link of a product is kept (LinkIsKept);                         *)
(*   - a seed that nothing interfered with leaves one subscription and the *)
(*     labels it met, however the runs before it ended (SeedRepeats).      *)
(***************************************************************************)
EXTENDS Secrets, SettingsForm, Pages, Content, Files, Catalogue, Seed, FiniteSetTheorems, SequenceTheorems, TLAPS

-----------------------------------------------------------------------------
(* Secrets *)

\* The settings on their own, as in their scene of MCContent.
SecretsSpec == SecretsInit /\ [][SecretsStep]_<<desk, keyring>>

\* Key versions are numbers, and the tables are about the settings there are.
Variables == [current : Nat, legacy : SUBSET Nat]
KeyringTyped ==
    /\ DOMAIN stored = SettingKeys /\ DOMAIN saved = SettingKeys /\ DOMAIN raced = SettingKeys
    /\ vars \in Variables
    /\ conf \in [Servers -> Variables]

\* What a server encrypts with is never a version that was retired under it.
ServersUseKnownKeys == \A p \in Servers : conf[p].current \in {vars.current} \cup vars.legacy

\* Rows are readable, open settings in plaintext, and hold what was last sent.
RowIsSound(k) ==
    /\ Readable(stored[k], vars)
    /\ ~IsSecret(k) => stored[k].version = 0
    /\ raced[k] \/ stored[k].value = saved[k]

\* The script has the variables there are, since nobody rotates under it; what
\* it has still to write is readable, and was last sent unless it is marked.
ScriptIsSound ==
    script # Void =>
        /\ script \in [conf : {vars}, found : {script.found}, todo : SUBSET Secrets]
        /\ \A k \in script.todo :
              script.found[k].version # vars.current =>
                  raced[k] \/ script.found[k].value = saved[k]

SecretsInv ==
    /\ KeyringTyped
    /\ ServersUseKnownKeys
    /\ \A k \in SettingKeys : stored[k] # Void => RowIsSound(k)
    /\ ScriptIsSound

-----------------------------------------------------------------------------

\* The first state has one version, used by every server, and plaintext rows.
LEMMA SecretsInvInit == SecretsInit => SecretsInv
BY DEF SecretsInit, SecretsInv, KeyringTyped, ServersUseKnownKeys, RowIsSound,
       ScriptIsSound, Readable, Variables

\* A request stores what it sent, under a version its server knows; what the
\* script would write over it is marked.
LEMMA SaveKeeps ==
    ASSUME SecretsInv, NEW p \in Servers, NEW k \in SettingKeys, NEW value, Save(p, k, value)
    PROVE  SecretsInv'
<1>. USE DEF SecretsInv, KeyringTyped
<1>1. KeyringTyped' /\ ServersUseKnownKeys'
  BY DEF Save, ServersUseKnownKeys
<1>2. ASSUME NEW j \in SettingKeys, stored'[j] # Void PROVE RowIsSound(j)'
  <2>1. CASE j # k \/ (IsSecret(k) /\ value = Mask)
    BY <1>2, <2>1 DEF Save, RowIsSound, Readable, KeepsExisting
  <2>2. CASE j = k /\ ~(IsSecret(k) /\ value = Mask)
    <3>1. /\ stored'[k] = StoredValue(k, value, conf[p])
          /\ saved'[k] = value
          /\ vars' = vars
      BY <2>2 DEF Save, KeepsExisting
    <3>2. conf[p].current \in {vars.current} \cup vars.legacy
      BY DEF ServersUseKnownKeys
    <3>. QED
      BY <2>2, <3>1, <3>2 DEF StoredValue, Encrypted, RowIsSound, Readable
  <2>. QED
    BY <2>1, <2>2
<1>3. ScriptIsSound'
  <2>. SUFFICES ASSUME script # Void,
                       NEW j \in script.todo, script.found[j].version # vars.current
                PROVE  raced'[j] \/ script.found[j].value = saved'[j]
    BY DEF Save, ScriptIsSound
  <2>1. CASE j # k \/ value = Mask
    BY <2>1 DEF Save, ScriptIsSound, Secrets
  <2>2. CASE j = k /\ value # Mask
    BY <2>2 DEF Save, Pending, ScriptIsSound
  <2>. QED
    BY <2>1, <2>2
<1>. QED
  BY <1>1, <1>2, <1>3

\* A rotation keeps the old version for reading; retiring it waits until no
\* server and no row is on it.
LEMMA RunbookKeeps ==
    ASSUME SecretsInv, Rotate \/ Retire \/ \E p \in Servers : Restart(p)
    PROVE  SecretsInv'
<1>. USE DEF SecretsInv, KeyringTyped
<1>1. CASE Rotate
  BY <1>1 DEF Rotate, ServersUseKnownKeys, RowIsSound, Readable, ScriptIsSound, Variables
<1>2. CASE Retire
  BY <1>2 DEF Retire, ServersUseKnownKeys, RowIsSound, Readable, ScriptIsSound, Variables, Secrets
<1>3. ASSUME NEW p \in Servers, Restart(p) PROVE SecretsInv'
  BY <1>3 DEF Restart, ServersUseKnownKeys, RowIsSound, Readable, ScriptIsSound, Variables
<1>. QED
  BY <1>1, <1>2, <1>3

\* The script writes back what it read, under the current version.
LEMMA ScriptKeeps ==
    ASSUME SecretsInv, StartScript \/ EndScript \/ \E k \in Secrets : ScriptStep(k)
    PROVE  SecretsInv'
<1>. USE DEF SecretsInv, KeyringTyped
<1>1. CASE StartScript
  BY <1>1 DEF StartScript, ServersUseKnownKeys, RowIsSound, Readable, ScriptIsSound, Secrets
<1>2. CASE EndScript
  BY <1>2 DEF EndScript, ServersUseKnownKeys, RowIsSound, Readable, ScriptIsSound
<1>3. ASSUME NEW k \in Secrets, ScriptStep(k) PROVE SecretsInv'
  <2>. DEFINE rest == [script EXCEPT !.todo = @ \ {k}]
  <2>1. /\ script # Void /\ k \in script.todo /\ k \in SettingKeys /\ script.conf = vars
        /\ UNCHANGED <<vars, conf, saved, raced>>
    BY <1>3 DEF ScriptStep, ScriptIsSound, Secrets
  <2>2. \/ UNCHANGED stored
        \/ /\ script.found[k].version # vars.current
           /\ stored' = [stored EXCEPT ![k] = Encrypted(script.found[k].value, vars)]
    BY <1>3, <2>1 DEF ScriptStep
  <2>3. script' \in {rest, Void}
    BY <1>3 DEF ScriptStep
  <2>4. KeyringTyped' /\ ServersUseKnownKeys'
    BY <2>1, <2>2 DEF ServersUseKnownKeys
  <2>5. ASSUME NEW j \in SettingKeys, stored'[j] # Void PROVE RowIsSound(j)'
    BY <2>1, <2>2, <2>5 DEF RowIsSound, Readable, Encrypted, ScriptIsSound, Secrets
  <2>6. /\ rest \in [conf : {vars}, found : {script.found}, todo : SUBSET Secrets]
        /\ rest.found = script.found /\ rest.todo = script.todo \ {k}
    BY <2>1 DEF ScriptIsSound
  <2>. HIDE DEF rest
  <2>7. ScriptIsSound'
    BY <2>1, <2>3, <2>6 DEF ScriptIsSound
  <2>. QED
    BY <2>4, <2>5, <2>7
<1>. QED
  BY <1>1, <1>2, <1>3

\* Through rotations, stopped scripts and servers on older variables, every
\* setting can be read with the variables there are and is the one last sent,
\* but for a secret sent between the script's read and its write (prisma/
\* encrypt-secret-settings.ts:19-31).
THEOREM SecretsAreKept == SecretsSpec => []SecretSurvives
<1>1. SecretsInv /\ [SecretsStep]_<<desk, keyring>> => SecretsInv'
  <2>. SUFFICES ASSUME SecretsInv, [SecretsStep]_<<desk, keyring>> PROVE SecretsInv'
    OBVIOUS
  <2>1. CASE UNCHANGED <<desk, keyring>>
    BY <2>1 DEF keyring, SecretsInv, KeyringTyped, ServersUseKnownKeys, RowIsSound,
                Readable, ScriptIsSound
  <2>2. ASSUME NEW p \in Servers, Submit(p) PROVE SecretsInv'
    BY <2>2, SaveKeeps DEF Submit
  <2>. QED
    BY <2>1, <2>2, RunbookKeeps, ScriptKeeps DEF SecretsStep
<1>2. SecretsInv => SecretSurvives
  BY DEF SecretsInv, RowIsSound, SecretSurvives
<1>. QED
  BY SecretsInvInit, <1>1, <1>2, PTL DEF SecretsSpec

-----------------------------------------------------------------------------
(* The settings page *)

\* The settings page on its own, as in its scene of MCContent.
SettingsFormSpec == SettingsFormInit /\ [][SettingsFormStep]_<<desk, panel>>

Values == {"", "typed", "masked", "credentials", "clerk", "test", "live"}
Page == [from : Datasets, fields : [Keys -> Values], shown : Datasets \cup {Void},
         todo : [Forms -> Seq(Keys \X Values)]]

\* A key is there, or an empty one was stored.
HasKey(e) == e \in blanked \/ kept[e]["clerkSecret"] # ""
Straight(f) == f.from \notin crossed

\* The requests of the authentication form still to be sent: the provider comes
\* last, and Clerk only after a key that is there or was sent.
AuthIsSound(f) ==
    LET todo == f.todo["auth"]
    IN todo # <<>> =>
         /\ Len(todo) \in {1, 2}
         /\ Len(todo) = 1 => /\ todo[1][1] = "provider"
                             /\ todo[1][2] = "clerk" /\ Straight(f) => HasKey(f.from)
         /\ Len(todo) = 2 => /\ todo[1][1] = "clerkSecret" /\ todo[2][1] = "provider"
                             /\ todo[1][2] = "masked" /\ Straight(f) => HasKey(f.from)

\* A mask stands for a key that is there, and the other forms send none of the
\* keys of authentication.
PageIsSound(f) ==
    /\ f \in Page
    /\ f.fields["clerkSecret"] = "masked" /\ Straight(f) => HasKey(f.from)
    /\ AuthIsSound(f)
    /\ \A g \in Forms \ {"auth"} : \A i \in 1..Len(f.todo[g]) : f.todo[g][i][1] \notin FormKeys["auth"]

SettingsInv ==
    /\ active \in Datasets
    /\ kept \in [Datasets -> [Keys -> Values]]
    /\ DOMAIN form = Browsers
    /\ \A b \in Browsers : form[b] # Void => PageIsSound(form[b])
    /\ SwitchedWithKeys

-----------------------------------------------------------------------------

\* The keys of the forms.
LEMMA KeysOfForms ==
    /\ Forms = {"auth", "payment", "look"}
    /\ Keys = {"clerkSecret", "provider", "mode", "liveSecret", "title", "gradient"}
    /\ FormKeys["auth"] = {"clerkSecret", "provider"}
    /\ \A g \in Forms : FormKeys[g] \subseteq Keys
    /\ \A g \in Forms \ {"auth"} : FormKeys[g] \cap FormKeys["auth"] = {}
BY DEF Forms, Keys, FormKeys

\* What can be typed is a value, and so is what is there from the start.
LEMMA InputsAreValues == \A k \in Keys : Inputs(k) \subseteq Values /\ Default(k) \in Values \ {"clerk"}
BY KeysOfForms DEF Inputs, Default, Values

\* The first state has no page, and no environment with Clerk.
LEMMA SettingsInvInit == SettingsFormInit => SettingsInv
<1>. SUFFICES ASSUME SettingsFormInit PROVE SettingsInv
  OBVIOUS
<1>1. kept \in [Datasets -> [Keys -> Values]] /\ \A e \in Datasets : kept[e]["provider"] # "clerk"
  BY KeysOfForms, InputsAreValues DEF SettingsFormInit
<1>. QED
  BY <1>1 DEF SettingsFormInit, SettingsInv, SwitchedWithKeys

\* The requests of a form, as SendForm makes them of its order and fields.
RequestsOf(order, fields) == [i \in DOMAIN order |-> <<order[i], fields[order[i]]>>]

\* A form sends one request per key of its order, with the field of that key.
LEMMA Requests ==
    \A fields \in [Keys -> Values], order \in Seq(Keys) :
        /\ RequestsOf(order, fields) \in Seq(Keys \X Values)
        /\ Len(RequestsOf(order, fields)) = Len(order)
        /\ \A i \in 1..Len(order) : /\ RequestsOf(order, fields)[i][1] = order[i]
                                   /\ RequestsOf(order, fields)[i][2] = fields[order[i]]
<1>. SUFFICES ASSUME NEW fields \in [Keys -> Values], NEW order \in Seq(Keys),
                     NEW sent, sent = [i \in DOMAIN order |-> <<order[i], fields[order[i]]>>]
              PROVE  /\ sent \in Seq(Keys \X Values)
                     /\ Len(sent) = Len(order)
                     /\ \A i \in 1..Len(order) : sent[i][1] = order[i] /\ sent[i][2] = fields[order[i]]
  BY DEF RequestsOf
<1>1. DOMAIN order = 1..Len(order) /\ Len(order) \in Nat /\ \A i \in 1..Len(order) : order[i] \in Keys
  OBVIOUS
<1>2. sent \in [1..Len(order) -> Keys \X Values]
  BY <1>1
<1>3. \A i \in 1..Len(order) : sent[i][1] = order[i] /\ sent[i][2] = fields[order[i]]
  BY <1>1
<1>. QED
  BY <1>1, <1>2, <1>3

\* Sequences of one and two elements.
LEMMA OneOrTwo ==
    ASSUME NEW S, NEW a \in S, NEW b \in S
    PROVE  /\ <<b>> \in Seq(S) /\ Len(<<b>>) = 1 /\ <<b>>[1] = b
           /\ <<a, b>> \in Seq(S) /\ Len(<<a, b>>) = 2
           /\ <<a, b>>[1] = a /\ <<a, b>>[2] = b
OBVIOUS

\* The orders in which forms send their keys.
LEMMA Orders ==
    ASSUME NEW g \in Forms, NEW fields \in [Keys -> Values],
           NEW order, order = SendOrder(g, fields)
    PROVE  /\ order \in Seq(Keys) /\ Len(order) \in {1, 2}
           /\ g = "auth" /\ Len(order) = 1 => order[1] = "provider" /\ fields["provider"] # "clerk"
           /\ g = "auth" /\ Len(order) = 2 =>
                order[1] = "clerkSecret" /\ order[2] = "provider" /\ fields["provider"] = "clerk"
           /\ g # "auth" => \A i \in 1..Len(order) : order[i] \notin FormKeys["auth"]
<1>1. ASSUME NEW b \in Keys, order = <<b>>
      PROVE  order \in Seq(Keys) /\ Len(order) = 1 /\ order[1] = b
  BY <1>1, OneOrTwo, Zenon
<1>2. ASSUME NEW a \in Keys, NEW b \in Keys, order = <<a, b>>
      PROVE  order \in Seq(Keys) /\ Len(order) = 2 /\ order[1] = a /\ order[2] = b
  <2>1. /\ <<a, b>> \in Seq(Keys) /\ Len(<<a, b>>) = 2
        /\ <<a, b>>[1] = a /\ <<a, b>>[2] = b
    BY OneOrTwo
  <2>2. order \in Seq(Keys) /\ Len(order) = 2
    BY <1>2, <2>1, Zenon
  <2>3. order[1] = a /\ order[2] = b
    BY <1>2, <2>1, Zenon
  <2>. QED
    BY <2>2, <2>3
<1>3. CASE g = "auth" /\ fields["provider"] = "clerk"
  <2>1. order = <<"clerkSecret", "provider">>
    BY <1>3 DEF SendOrder, AuthOrder
  <2>. QED
    BY <1>2, <1>3, <2>1, KeysOfForms
<1>4. CASE g = "auth" /\ fields["provider"] # "clerk"
  <2>1. order = <<"provider">>
    BY <1>4 DEF SendOrder, AuthOrder
  <2>2. "provider" \in Keys
    BY KeysOfForms
  <2>3. order \in Seq(Keys) /\ Len(order) = 1 /\ order[1] = "provider"
    BY <1>1, <2>1, <2>2, Zenon
  <2>4. order \in Seq(Keys) /\ Len(order) \in {1, 2} /\ Len(order) # 2
    BY <2>3
  <2>. QED
    BY <1>4, <2>3, <2>4, Zenon
<1>5. CASE g # "auth"
  <2>1. PICK a \in Keys \ FormKeys["auth"], b \in Keys \ FormKeys["auth"] : order = <<a, b>>
    <3>1. order \in {<<"mode", "liveSecret">>, <<"title", "gradient">>}
      BY <1>5, KeysOfForms DEF SendOrder
    <3>. QED
      BY <3>1, KeysOfForms
  <2>2. order \in Seq(Keys) /\ Len(order) = 2 /\ order[1] = a /\ order[2] = b
    BY <1>2, <2>1
  <2>. QED
    BY <1>5, <2>2
<1>. QED
  BY <1>3, <1>4, <1>5

\* What a page relies on stays true while keys stay and crossings are kept.
LEMMA SoundPageStays ==
    ASSUME NEW f, PageIsSound(f), crossed \subseteq crossed',
           \A e \in Datasets : HasKey(e) => HasKey(e)'
    PROVE  PageIsSound(f)'
<1>1. f.from \in Datasets
  BY DEF PageIsSound, Page
<1>. QED
  BY <1>1 DEF PageIsSound, AuthIsSound, Straight, HasKey

\* A step of one page leaves what the others rely on.
LEMMA OnePage ==
    ASSUME SettingsInv, NEW b \in Browsers,
           active' \in Datasets, kept' \in [Datasets -> [Keys -> Values]], DOMAIN form' = Browsers,
           crossed \subseteq crossed', SwitchedWithKeys',
           \A e \in Datasets : HasKey(e) => HasKey(e)',
           \A c \in Browsers \ {b} : form'[c] = form[c],
           form'[b] # Void => PageIsSound(form[b])'
    PROVE  SettingsInv'
<1>1. ASSUME NEW c \in Browsers, form'[c] # Void PROVE PageIsSound(form[c])'
  <2>1. CASE c = b
    BY <1>1, <2>1
  <2>2. CASE c # b
    <3>. DEFINE f == form[c]
    <3>1. form'[c] = form[c] /\ PageIsSound(form[c])
      BY <1>1, <2>2 DEF SettingsInv
    <3>2. PageIsSound(f)
      BY <3>1
    <3>. QED
      BY <3>1, SoundPageStays DEF PageIsSound, AuthIsSound, Straight, HasKey, SettingsInv, Page
  <2>. QED
    BY <2>1, <2>2
<1>. QED
  BY <1>1 DEF SettingsInv

\* A page that is opened has the settings of the environment it is from.
LEMMA OpenKeeps ==
    ASSUME SettingsInv, NEW b \in Browsers, OpenPage(b)
    PROVE  SettingsInv'
<1>. DEFINE f == [from |-> active, fields |-> [k \in Keys |-> Field(k)],
                  shown |-> Void, todo |-> Nothing]
<1>1. form' = [form EXCEPT ![b] = f] /\ UNCHANGED <<active, kept, crossed, blanked>>
  BY DEF OpenPage
<1>2. \A k \in Keys : Field(k) \in Values
  BY DEF Field, Values, SettingsInv
<1>3. Field("clerkSecret") = "masked" => HasKey(active)
  BY KeysOfForms DEF Field, MaskedKeys, HasKey, SettingsInv, Values
<1>4. Nothing \in [Forms -> Seq(Keys \X Values)] /\ \A g \in Forms : Nothing[g] = <<>>
  BY DEF Nothing
<1>5. f \in Page
  BY <1>2, <1>4 DEF Page, SettingsInv
<1>6. PageIsSound(f)
  <2>1. f.fields["clerkSecret"] = "masked" => HasKey(f.from)
    BY <1>3, KeysOfForms
  <2>2. \A g \in Forms : f.todo[g] = <<>>
    BY <1>4
  <2>. HIDE DEF f
  <2>3. AuthIsSound(f)
    BY <2>2, KeysOfForms DEF AuthIsSound
  <2>. QED
    BY <1>5, <2>1, <2>2, <2>3 DEF PageIsSound
<1>. HIDE DEF f
<1>7. form'[b] # Void => PageIsSound(form[b])'
  BY <1>1, <1>6 DEF SettingsInv, PageIsSound, AuthIsSound, Straight, HasKey
<1>. QED
  BY <1>1, <1>7, OnePage DEF SettingsInv, SwitchedWithKeys, HasKey

\* The environment is asked for or switched, a page is closed, a form breaks off.
LEMMA SmallStepsKeep ==
    ASSUME SettingsInv, NEW b \in Browsers,
           \/ LoadEnv(b) \/ ClosePage(b)
           \/ \E g \in Forms : RefuseSetting(b, g)
           \/ \E e \in Datasets : SwitchEnv(b, e)
    PROVE  SettingsInv'
<1>. DEFINE f == form[b]
<1>1. f # Void /\ PageIsSound(f) /\ UNCHANGED <<kept, crossed, blanked>> /\ active' \in Datasets
  BY DEF LoadEnv, ClosePage, RefuseSetting, SwitchEnv, SettingsInv
<1>2. CASE ClosePage(b)
  <2>1. form' = [form EXCEPT ![b] = Void]
    BY <1>2 DEF ClosePage
  <2>. QED
    BY <1>1, <2>1, OnePage DEF SettingsInv, SwitchedWithKeys, HasKey
<1>3. ASSUME NEW v \in Datasets, form' = [form EXCEPT ![b] = [@ EXCEPT !.shown = v]]
      PROVE  SettingsInv'
  <2>. DEFINE n == [f EXCEPT !.shown = v]
  <2>1. n \in Page /\ n.from = f.from /\ n.fields = f.fields /\ n.todo = f.todo
    BY <1>1 DEF PageIsSound, Page
  <2>2. form' = [form EXCEPT ![b] = n]
    BY <1>3
  <2>. HIDE DEF n
  <2>3. PageIsSound(n)
    BY <1>1, <2>1 DEF PageIsSound, AuthIsSound, Straight
  <2>4. form'[b] # Void => PageIsSound(form[b])'
    BY <1>1, <2>2, <2>3 DEF SettingsInv, PageIsSound, AuthIsSound, Straight, HasKey
  <2>. QED
    BY <1>1, <2>2, <2>4, OnePage DEF SettingsInv, SwitchedWithKeys, HasKey
<1>4. ASSUME NEW g \in Forms, RefuseSetting(b, g) PROVE SettingsInv'
  <2>. DEFINE t == [f.todo EXCEPT ![g] = <<>>]
              n == [f EXCEPT !.todo = t]
  <2>1. f.todo \in [Forms -> Seq(Keys \X Values)]
    BY <1>1 DEF PageIsSound, Page
  <2>2. t \in [Forms -> Seq(Keys \X Values)] /\ \A h \in Forms : t[h] \in {<<>>, f.todo[h]}
    BY <2>1
  <2>3. form' = [form EXCEPT ![b] = n]
    BY <1>4 DEF RefuseSetting
  <2>. HIDE DEF t
  <2>4. n \in Page /\ n.from = f.from /\ n.fields = f.fields /\ n.todo = t
    BY <1>1, <2>2 DEF PageIsSound, Page
  <2>. HIDE DEF n
  <2>5. AuthIsSound(n)
    <3>1. n.todo["auth"] = <<>> \/ n.todo["auth"] = f.todo["auth"]
      BY <2>2, <2>4, KeysOfForms
    <3>2. AuthIsSound(f)
      BY <1>1 DEF PageIsSound
    <3>. QED
      BY <2>4, <3>1, <3>2, Zenon DEF AuthIsSound, Straight
  <2>6. \A h \in Forms \ {"auth"} : \A i \in 1..Len(t[h]) : t[h][i][1] \notin FormKeys["auth"]
    <3>. SUFFICES ASSUME NEW h \in Forms \ {"auth"}, NEW i \in 1..Len(t[h])
                  PROVE  t[h][i][1] \notin FormKeys["auth"]
      OBVIOUS
    <3>1. CASE t[h] = <<>>
      <4>1. Len(t[h]) = 0
        BY <3>1, EmptySeq, Zenon
      <4>. QED
        BY <4>1
    <3>2. CASE t[h] = f.todo[h]
      BY <1>1, <3>2, Zenon DEF PageIsSound
    <3>. QED
      BY <2>2, <3>1, <3>2
  <2>7. PageIsSound(n)
    BY <1>1, <2>4, <2>5, <2>6 DEF PageIsSound, Straight
  <2>8. form'[b] # Void => PageIsSound(form[b])'
    BY <1>1, <2>3, <2>7 DEF SettingsInv, PageIsSound, AuthIsSound, Straight, HasKey
  <2>. QED
    BY <1>1, <2>3, <2>8, OnePage DEF SettingsInv, SwitchedWithKeys, HasKey
<1>. QED
  BY <1>2, <1>3, <1>4 DEF LoadEnv, SwitchEnv, SettingsInv

\* The first two places of a form's requests.
LEMMA Places == \A n \in {1, 2} : 1 \in 1..n /\ (n = 2 => 2 \in 1..n)
OBVIOUS

\* A page is sound with a form on its way that sends a key along with Clerk.
LEMMA SentIsSound ==
    ASSUME NEW f, PageIsSound(f), NEW g \in Forms, NEW fields \in [Keys -> Values],
           fields["clerkSecret"] = "masked" /\ Straight(f) => HasKey(f.from),
           NEW sent \in Seq(Keys \X Values), Len(sent) \in {1, 2},
           g = "auth" /\ Len(sent) = 1 => sent[1][1] = "provider" /\ sent[1][2] # "clerk",
           g = "auth" /\ Len(sent) = 2 =>
               /\ sent[1][1] = "clerkSecret" /\ sent[2][1] = "provider"
               /\ sent[1][2] = fields["clerkSecret"],
           g # "auth" => \A i \in 1..Len(sent) : sent[i][1] \notin FormKeys["auth"],
           NEW t, t = [f.todo EXCEPT ![g] = sent],
           NEW n, n = [[f EXCEPT !.fields = fields] EXCEPT !.todo = t]
    PROVE  PageIsSound(n)
<1>4. f \in Page /\ f.todo \in [Forms -> Seq(Keys \X Values)]
  BY DEF PageIsSound, Page
<1>5. /\ t \in [Forms -> Seq(Keys \X Values)] /\ t[g] = sent
      /\ \A h \in Forms \ {g} : t[h] = f.todo[h]
  BY <1>4
<1>6. n \in Page /\ n.from = f.from /\ n.fields = fields /\ n.todo = t
  BY <1>4, <1>5 DEF Page
<1>7. AuthIsSound(n)
  <2>1. CASE g = "auth"
    <3>1. n.todo["auth"] = sent
      BY <1>5, <1>6, <2>1
    <3>. QED
      BY <1>6, <2>1, <3>1 DEF AuthIsSound, Straight
  <2>2. CASE g # "auth"
    <3>1. n.todo["auth"] = f.todo["auth"]
      BY <1>5, <1>6, <2>2, KeysOfForms
    <3>2. AuthIsSound(f)
      BY DEF PageIsSound
    <3>. QED
      BY <1>6, <3>1, <3>2, Zenon DEF AuthIsSound, Straight
  <2>. QED
    BY <2>1, <2>2
<1>8. ASSUME NEW h \in Forms \ {"auth"}, NEW i \in 1..Len(t[h]) PROVE t[h][i][1] \notin FormKeys["auth"]
  <2>1. CASE h = g
    BY <1>5, <1>8, <2>1
  <2>2. CASE h # g
    BY <1>5, <1>8, <2>2 DEF PageIsSound
  <2>. QED
    BY <2>1, <2>2
<1>. QED
  BY <1>6, <1>7, <1>8 DEF PageIsSound, Straight

\* A form is sent with what was typed, Clerk after whatever is in its key's field.
LEMMA SendKeeps ==
    ASSUME SettingsInv, NEW b \in Browsers, NEW g \in Forms, SendForm(b, g)
    PROVE  SettingsInv'
<1>1. PICK typed \in [FormKeys[g] -> {"as it was"} \cup UNION {Inputs(k) : k \in FormKeys[g]}] :
        LET fields == [k \in Keys |-> IF k \notin FormKeys[g] \/ typed[k] = "as it was"
                                      THEN form[b].fields[k] ELSE typed[k]]
            order == SendOrder(g, fields)
        IN /\ \A k \in FormKeys[g] : typed[k] \in Inputs(k) \cup {"as it was"}
           /\ form' = [form EXCEPT ![b].fields = fields,
                                   ![b].todo[g] = [i \in DOMAIN order |-> <<order[i], fields[order[i]]>>]]
  BY DEF SendForm
<1>. DEFINE f == form[b]
            fields == [k \in Keys |-> IF k \notin FormKeys[g] \/ typed[k] = "as it was"
                                      THEN form[b].fields[k] ELSE typed[k]]
            order == SendOrder(g, fields)
            sent == [i \in DOMAIN order |-> <<order[i], fields[order[i]]>>]
            t == [f.todo EXCEPT ![g] = sent]
            n == [[f EXCEPT !.fields = fields] EXCEPT !.todo = t]
<1>2. /\ f # Void /\ PageIsSound(f) /\ UNCHANGED <<active, kept, crossed, blanked>>
      /\ f.fields \in [Keys -> Values] /\ f.todo \in [Forms -> Seq(Keys \X Values)]
  BY DEF SendForm, SettingsInv, PageIsSound, Page
<1>3. form' = [form EXCEPT ![b] = n]
  BY <1>1, <1>2
<1>4. fields \in [Keys -> Values]
  BY <1>1, <1>2, InputsAreValues, KeysOfForms
<1>5. fields["clerkSecret"] = "masked" /\ Straight(f) => HasKey(f.from)
  <2>1. fields["clerkSecret"] = "masked" => f.fields["clerkSecret"] = "masked"
    BY <1>1, KeysOfForms DEF Inputs
  <2>. QED
    BY <1>2, <2>1 DEF PageIsSound
<1>7. PageIsSound(n)
  <2>1. /\ order \in Seq(Keys) /\ Len(order) \in {1, 2}
        /\ g = "auth" /\ Len(order) = 1 => order[1] = "provider" /\ fields["provider"] # "clerk"
        /\ g = "auth" /\ Len(order) = 2 =>
              order[1] = "clerkSecret" /\ order[2] = "provider" /\ fields["provider"] = "clerk"
        /\ g # "auth" => \A i \in 1..Len(order) : order[i] \notin FormKeys["auth"]
    BY <1>4, Orders, Zenon
  <2>2. sent = RequestsOf(order, fields)
    BY DEF RequestsOf
  <2>3. t = [f.todo EXCEPT ![g] = sent] /\ n = [[f EXCEPT !.fields = fields] EXCEPT !.todo = t]
    OBVIOUS
  <2>. HIDE DEF f, fields, order, sent, t, n
  <2>4. /\ sent \in Seq(Keys \X Values) /\ Len(sent) = Len(order)
        /\ \A i \in 1..Len(order) : sent[i][1] = order[i] /\ sent[i][2] = fields[order[i]]
    <3>1. order \in Seq(Keys)
      BY <2>1
    <3>. QED
      BY <1>4, <2>2, <3>1, Requests, Zenon
  <2>5. /\ Len(sent) \in {1, 2}
        /\ g = "auth" /\ Len(sent) = 1 => sent[1][1] = "provider" /\ sent[1][2] # "clerk"
        /\ g = "auth" /\ Len(sent) = 2 =>
              /\ sent[1][1] = "clerkSecret" /\ sent[2][1] = "provider"
              /\ sent[1][2] = fields["clerkSecret"]
        /\ g # "auth" => \A i \in 1..Len(sent) : sent[i][1] \notin FormKeys["auth"]
    <3>1. 1 \in 1..Len(order) /\ (Len(order) = 2 => 2 \in 1..Len(order))
      BY <2>1, Places, Zenon
    <3>2. Len(sent) \in {1, 2}
      BY <2>1, <2>4, Zenon
    <3>3. g = "auth" /\ Len(sent) = 1 => sent[1][1] = "provider" /\ sent[1][2] # "clerk"
      BY <2>1, <2>4, <3>1, Zenon
    <3>4. g = "auth" /\ Len(sent) = 2 =>
                /\ sent[1][1] = "clerkSecret" /\ sent[2][1] = "provider"
                /\ sent[1][2] = fields["clerkSecret"]
      BY <2>1, <2>4, <3>1, Zenon
    <3>5. g # "auth" => \A i \in 1..Len(sent) : sent[i][1] \notin FormKeys["auth"]
      BY <2>1, <2>4, Zenon
    <3>. QED
      BY <3>2, <3>3, <3>4, <3>5, Zenon
  <2>. QED
    BY <1>2, <1>4, <1>5, <2>3, <2>4, <2>5, SentIsSound
<1>. HIDE DEF n
<1>8. form'[b] # Void => PageIsSound(form[b])'
  BY <1>2, <1>3, <1>7 DEF SettingsInv, PageIsSound, AuthIsSound, Straight, HasKey
<1>. QED
  BY <1>2, <1>3, <1>8, OnePage DEF SettingsInv, SwitchedWithKeys, HasKey

\* What is left of a form after its first request.
LEMMA Rest ==
    ASSUME NEW S, NEW s \in Seq(S), s # <<>>
    PROVE  /\ Head(s) = s[1] /\ s[1] \in S
           /\ Tail(s) \in Seq(S)
           /\ Len(s) = 1 => Tail(s) = <<>>
           /\ Len(s) = 2 => Len(Tail(s)) = 1 /\ Tail(s)[1] = s[2]
           /\ \A i \in 1..Len(Tail(s)) : i + 1 \in 1..Len(s) /\ Tail(s)[i] = s[i + 1]
<1>1. Len(s) \in Nat \ {0} /\ Head(s) = s[1] /\ s[1] \in S
  OBVIOUS
<1>2. /\ Tail(s) \in Seq(S) /\ Len(Tail(s)) = Len(s) - 1
      /\ \A i \in 1..Len(Tail(s)) : Tail(s)[i] = s[i + 1]
  BY HeadTailProperties
<1>3. Len(s) = 1 => Tail(s) = <<>>
  <2>1. Tail(s) # <<>> => Len(Tail(s)) \in Nat \ {0}
    BY <1>2, EmptySeq
  <2>. QED
    BY <1>2, <2>1
<1>4. Len(s) = 2 => Len(Tail(s)) = 1 /\ Tail(s)[1] = s[2]
  <2>. SUFFICES ASSUME Len(s) = 2 PROVE Len(Tail(s)) = 1 /\ Tail(s)[1] = s[2]
    OBVIOUS
  <2>1. Len(Tail(s)) = 1
    BY <1>2
  <2>2. 1 \in 1..Len(Tail(s)) /\ 1 + 1 = 2
    BY <2>1
  <2>3. Tail(s)[1] = s[1 + 1]
    BY <1>2, <2>2
  <2>. QED
    BY <2>1, <2>2, <2>3
<1>5. \A i \in 1..Len(Tail(s)) : i + 1 \in 1..Len(s)
  BY <1>1, <1>2
<1>. QED
  BY <1>1, <1>2, <1>3, <1>4, <1>5

\* A request stores its field where the server is; a page that is elsewhere
\* marks both environments.
LEMMA PutKeeps ==
    ASSUME SettingsInv, NEW b \in Browsers, NEW g \in Forms, PutSetting(b, g)
    PROVE  SettingsInv'
<1>. DEFINE f == form[b]
            todo == f.todo[g]
            k == Head(todo)[1]
            v == Head(todo)[2]
            t == [f.todo EXCEPT ![g] = Tail(todo)]
            n == [f EXCEPT !.todo = t]
<1>1. /\ f # Void /\ PageIsSound(f) /\ f \in Page /\ f.from \in Datasets /\ active \in Datasets
      /\ f.todo \in [Forms -> Seq(Keys \X Values)]
  BY DEF PutSetting, SettingsInv, PageIsSound, Page
<1>2. /\ todo # <<>> /\ UNCHANGED active
      /\ kept' = [kept EXCEPT ![active][k] = IF v = "masked" THEN @ ELSE v]
      /\ form' = [form EXCEPT ![b] = n]
      /\ blanked' = IF k = "clerkSecret" /\ v = "" THEN blanked \cup {active} ELSE blanked
      /\ crossed' = IF g # "auth" \/ f.from = active THEN crossed ELSE crossed \cup {active, f.from}
  BY <1>1 DEF PutSetting
<1>3. /\ Head(todo) = todo[1] /\ todo[1] \in Keys \X Values
      /\ Tail(todo) \in Seq(Keys \X Values)
      /\ Len(todo) = 1 => Tail(todo) = <<>>
      /\ Len(todo) = 2 => Len(Tail(todo)) = 1 /\ Tail(todo)[1] = todo[2]
      /\ \A i \in 1..Len(Tail(todo)) : i + 1 \in 1..Len(todo) /\ Tail(todo)[i] = todo[i + 1]
  <2>1. todo \in Seq(Keys \X Values)
    BY <1>1
  <2>. HIDE DEF todo
  <2>. QED
    BY <1>2, <2>1, Rest
<1>4. k \in Keys /\ v \in Values /\ k = todo[1][1] /\ v = todo[1][2]
  BY <1>3
<1>5. g # "auth" => \A i \in 1..Len(todo) : todo[i][1] \notin FormKeys["auth"]
  BY <1>1, Zenon DEF PageIsSound
<1>6. g # "auth" => k \notin {"clerkSecret", "provider"}
  <2>1. todo \in Seq(Keys \X Values)
    BY <1>1
  <2>2. 1 \in 1..Len(todo)
    <3>1. todo # <<>>
      BY <1>2
    <3>. HIDE DEF todo
    <3>. QED
      BY <2>1, <3>1, EmptySeq
  <2>3. g # "auth" => todo[1][1] \notin FormKeys["auth"]
    BY <1>5, <2>2, Zenon
  <2>. HIDE DEF todo, k
  <2>. QED
    BY <1>4, <2>3, KeysOfForms
<1>7. g = "auth" =>
         /\ Len(todo) \in {1, 2}
         /\ Len(todo) = 1 => /\ k = "provider"
                             /\ v = "clerk" /\ Straight(f) => HasKey(f.from)
         /\ Len(todo) = 2 => /\ k = "clerkSecret" /\ todo[2][1] = "provider"
                             /\ v = "masked" /\ Straight(f) => HasKey(f.from)
  <2>1. AuthIsSound(f)
    BY <1>1 DEF PageIsSound
  <2>. HIDE DEF f, k, v
  <2>. QED
    BY <1>2, <1>4, <2>1, Zenon DEF AuthIsSound
<1>8. k = "clerkSecret" /\ v = "" => active \in blanked'
  BY <1>2
<1>9. k = "provider" /\ v = "clerk" /\ Straight(f) => HasKey(f.from)
  BY <1>6, <1>7
<1>. HIDE DEF k, v, todo, t
<1>10. kept' \in [Datasets -> [Keys -> Values]]
  BY <1>1, <1>2, <1>4 DEF SettingsInv
<1>11. ASSUME NEW e \in Datasets, HasKey(e) PROVE HasKey(e)'
  <2>1. kept[e] \in [Keys -> Values] /\ "clerkSecret" \in Keys
    BY KeysOfForms DEF SettingsInv
  <2>. QED
    BY <1>1, <1>2, <1>8, <1>11, <2>1 DEF HasKey, SettingsInv
<1>12. /\ crossed \subseteq crossed'
       /\ f.from \notin crossed' => Straight(f)
       /\ g = "auth" /\ (f.from \notin crossed' \/ active \notin crossed') => f.from = active /\ Straight(f)
       /\ blanked \subseteq blanked'
  BY <1>2 DEF Straight
<1>13. SwitchedWithKeys'
  <2>. SUFFICES ASSUME NEW e \in Datasets \ (crossed' \cup blanked'), kept'[e]["provider"] = "clerk"
                PROVE  HasKey(e)'
    BY DEF SwitchedWithKeys, HasKey
  <2>1. CASE kept[e]["provider"] = "clerk"
    BY <1>11, <1>12, <2>1 DEF SettingsInv, SwitchedWithKeys, HasKey
  <2>2. CASE kept[e]["provider"] # "clerk"
    <3>1. "provider" \in Keys /\ kept[e] \in [Keys -> Values]
      BY KeysOfForms DEF SettingsInv
    <3>2. e = active /\ k = "provider" /\ v = "clerk"
      BY <1>1, <1>2, <2>2, <3>1 DEF SettingsInv
    <3>. QED
      BY <1>6, <1>9, <1>11, <1>12, <3>2
  <2>. QED
    BY <2>1, <2>2
<1>14. /\ t \in [Forms -> Seq(Keys \X Values)] /\ t[g] = Tail(todo)
       /\ \A h \in Forms \ {g} : t[h] = f.todo[h]
  BY <1>1, <1>3 DEF t
<1>15. n \in Page /\ n.from = f.from /\ n.fields = f.fields /\ n.todo = t
  BY <1>1, <1>14 DEF Page
<1>. HIDE DEF n
<1>16. f.from \notin crossed' /\ HasKey(f.from) => (f.from \in blanked' \/ kept'[f.from]["clerkSecret"] # "")
  BY <1>1, <1>11 DEF HasKey
<1>17. form'[b] = n
  BY <1>2 DEF SettingsInv
<1>18. f.fields["clerkSecret"] = "masked" /\ f.from \notin crossed' => (f.from \in blanked' \/ kept'[f.from]["clerkSecret"] # "")
  BY <1>1, <1>12, <1>16 DEF PageIsSound
<1>19. AuthIsSound(form[b])'
  <2>1. CASE g # "auth"
    <3>1. n.todo["auth"] = f.todo["auth"]
      BY <1>14, <1>15, <2>1, KeysOfForms
    <3>2. AuthIsSound(f)
      BY <1>1 DEF PageIsSound
    <3>. QED
      BY <1>12, <1>15, <1>16, <1>17, <3>1, <3>2, Zenon DEF AuthIsSound, Straight, HasKey
  <2>2. CASE g = "auth" /\ Len(todo) = 1
    <3>1. n.todo["auth"] = <<>>
      BY <1>3, <1>14, <1>15, <2>2
    <3>. QED
      BY <1>17, <3>1, Zenon DEF AuthIsSound
  <2>3. CASE g = "auth" /\ Len(todo) = 2
    <3>1. n.todo["auth"] = Tail(todo) /\ Len(Tail(todo)) = 1 /\ Tail(todo)[1] = todo[2]
      BY <1>3, <1>14, <1>15, <2>3
    <3>2. k = "clerkSecret" /\ todo[2][1] = "provider"
      BY <1>7, <2>3
    <3>3. f.from \notin crossed' => (f.from \in blanked' \/ kept'[f.from]["clerkSecret"] # "")
      <4>1. CASE v = "masked"
        BY <1>7, <1>12, <1>16, <2>3, <4>1
      <4>2. CASE v # "masked"
        <5>1. kept[active] \in [Keys -> Values] /\ "clerkSecret" \in Keys
          BY <1>1, KeysOfForms DEF SettingsInv
        <5>2. kept'[active]["clerkSecret"] = v
          BY <1>1, <1>2, <3>2, <4>2, <5>1 DEF SettingsInv
        <5>. QED
          BY <1>8, <1>12, <2>3, <3>2, <5>2 DEF HasKey
      <4>. QED
        BY <4>1, <4>2
    <3>4. n.todo["auth"] # <<>> => /\ Len(n.todo["auth"]) \in {1, 2} /\ Len(n.todo["auth"]) # 2
                                   /\ n.todo["auth"][1][1] = "provider"
      <4>1. n.todo["auth"][1][1] = "provider"
        BY <3>1, <3>2, Zenon
      <4>2. Len(n.todo["auth"]) = 1
        BY <3>1, Zenon
      <4>. QED
        BY <4>1, <4>2
    <3>. QED
      BY <1>15, <1>17, <3>3, <3>4, Zenon DEF AuthIsSound, Straight, HasKey
  <2>. QED
    BY <1>7, <2>1, <2>2, <2>3
<1>20. ASSUME NEW h \in Forms \ {"auth"}, NEW i \in 1..Len(t[h]) PROVE t[h][i][1] \notin FormKeys["auth"]
  <2>1. CASE h = g
    <3>1. t[h] = Tail(todo)
      BY <1>14, <2>1
    <3>2. i + 1 \in 1..Len(todo) /\ Tail(todo)[i] = todo[i + 1]
      BY <1>3, <1>20, <3>1, Zenon
    <3>. QED
      BY <1>5, <2>1, <3>1, <3>2, Zenon
  <2>2. CASE h # g
    BY <1>1, <1>14, <1>20, <2>2 DEF PageIsSound
  <2>. QED
    BY <2>1, <2>2
<1>21. PageIsSound(form[b])'
  BY <1>15, <1>17, <1>18, <1>19, <1>20 DEF PageIsSound, Straight, HasKey, Page
<1>. QED
  BY <1>1, <1>2, <1>10, <1>11, <1>12, <1>13, <1>21, OnePage DEF SettingsInv

\* However forms are sent at once, rejected or left half way, Clerk is never
\* switched on in an environment without a key, unless an empty key was stored
\* there or a page saved its authentication into another environment than its
\* own (settings/page.tsx:222-247).
THEOREM ClerkComesAfterItsKey == SettingsFormSpec => []SwitchedWithKeys
<1>1. SettingsInv /\ [SettingsFormStep]_<<desk, panel>> => SettingsInv'
  <2>. SUFFICES ASSUME SettingsInv, [SettingsFormStep]_<<desk, panel>> PROVE SettingsInv'
    OBVIOUS
  <2>1. CASE UNCHANGED <<desk, panel>>
    BY <2>1 DEF panel, SettingsInv, SwitchedWithKeys, PageIsSound, AuthIsSound, Straight, HasKey
  <2>. QED
    BY <2>1, OpenKeeps, SmallStepsKeep, SendKeeps, PutKeeps DEF SettingsFormStep
<1>2. SettingsInv => SwitchedWithKeys
  BY DEF SettingsInv
<1>. QED
  BY SettingsInvInit, <1>1, <1>2, PTL DEF SettingsFormSpec

-----------------------------------------------------------------------------
(* The homepage *)

\* The pages on their own, as in their scene of MCContent.
PagesNext ==
    \/ \E s \in Slots : ((PageRequests(s) \/ Rejected(s)) /\ UNCHANGED page) \/ PageStep(s)
    \/ \E slug \in PageSlugs : SeedPage(slug)

PagesSpec == DeskInit(0) /\ PageInit /\ [][PagesNext]_<<desk, page>>

Setters == {"page.create", "page.update"}

PageCall(c) ==
    \/ c = Idle
    \/ c = [op |-> "page.delete", id |-> c.id, home |-> Void, pc |-> "write"] /\ c.id \in Pages
    \/ /\ c = [op |-> c.op, id |-> c.id, slug |-> c.slug, published |-> c.published,
               home |-> c.home, alone |-> c.alone, pc |-> c.pc]
       /\ c.op \in Setters /\ (c.op = "page.update" => c.id \in Pages)
       /\ c.slug \in PageSlugs \/ (c.slug = Void /\ c.op = "page.update")
       /\ c.published \in BOOLEAN /\ c.alone \in BOOLEAN
       /\ c.home \in BOOLEAN \/ (c.home = Void /\ c.op = "page.update")

PagesTyped ==
    /\ page \in [Pages -> {Void} \cup PageRow]
    /\ call = [s \in Slots |-> call[s]]
    /\ \A s \in Slots : PageCall(call[s])

\* A request about to make its page the homepage, no other having come between.
Setting(c) == c.op \in Setters /\ c.pc = "write" /\ c.home = TRUE /\ c.alone

\* Its first call left no homepage, and none has come since.
PagesInv == PagesTyped /\ ((\E s \in Slots : Setting(call[s])) => HomePages(page) = {})

LEMMA PagesInvInit == DeskInit(0) /\ PageInit => PagesInv
  BY PagesAssumption DEF DeskInit, PageInit, PagesInv, PagesTyped, PageCall, Setting, Setters, Idle

LEMMA BegunPage ==
    ASSUME PagesInv, NEW s \in Slots, NEW c, Begin(s, c), UNCHANGED page, PageCall(c),
           c.op \in Setters => (c.pc = "write" => c.home # TRUE)
    PROVE  PagesInv'
<1>1. \A t \in Slots : call'[t] = call[t] \/ (t = s /\ call'[t] = c)
  BY DEF Begin, PagesInv, PagesTyped
<1>2. call' = [t \in Slots |-> call'[t]]
  BY DEF Begin, PagesInv, PagesTyped
<1>3. \A t \in Slots : Setting(call'[t]) => Setting(call[t])
  BY <1>1 DEF Setting
<1>. QED
  BY <1>1, <1>2, <1>3 DEF PagesInv, PagesTyped, HomePages

LEMMA PageRequestsKeep ==
    ASSUME PagesInv, NEW s \in Slots, PageRequests(s), UNCHANGED page PROVE PagesInv'
<1>1. ASSUME NEW slug \in PageSlugs \cup {Void}, NEW published \in BOOLEAN, NEW home \in BOOLEAN \cup {Void},
             NEW op \in Setters, NEW id,
             op = "page.create" => slug \in PageSlugs /\ home \in BOOLEAN,
             op = "page.update" => id \in Pages,
             Begin(s, [op |-> op, id |-> id, slug |-> slug, published |-> published,
                       home |-> home, alone |-> TRUE, pc |-> Opening(home)])
      PROVE  PagesInv'
  <2>. PICK c : c = [op |-> op, id |-> id, slug |-> slug, published |-> published,
                     home |-> home, alone |-> TRUE, pc |-> Opening(home)]
    OBVIOUS
  <2>1. PageCall(c)
    BY <1>1 DEF PageCall, Setters
  <2>2. c.pc = "write" => c.home # TRUE
    BY DEF Opening
  <2>. QED
    BY <1>1, <2>1, <2>2, BegunPage
<1>2. ASSUME NEW p \in Pages, Begin(s, [op |-> "page.delete", id |-> p, home |-> Void, pc |-> "write"])
      PROVE  PagesInv'
  <2>. PICK c : c = [op |-> "page.delete", id |-> p, home |-> Void, pc |-> "write"]
    OBVIOUS
  <2>1. PageCall(c) /\ c.op \notin Setters
    BY DEF PageCall, Setters
  <2>. QED
    BY <1>2, <2>1, BegunPage
<1>. QED
  BY <1>1, <1>2 DEF PageRequests, Setters

\* An answer or a rejection.
LEMMA PageAnswered ==
    ASSUME PagesInv, NEW s \in Slots, call' = [call EXCEPT ![s] = Idle],
           page' = page \/ \E p \in Pages : page' = [page EXCEPT ![p] = Void]
    PROVE  PagesInv'
<1>1. /\ call' = [t \in Slots |-> call'[t]]
      /\ \A t \in Slots : call'[t] = call[t] \/ (t = s /\ call'[t] = Idle)
  BY DEF PagesInv, PagesTyped
<1>2. \A t \in Slots : PageCall(call'[t]) /\ (Setting(call'[t]) => Setting(call[t]))
  BY <1>1 DEF PagesInv, PagesTyped, PageCall, Setting, Setters, Idle
<1>3. page' \in [Pages -> {Void} \cup PageRow] /\ HomePages(page') \subseteq HomePages(page)
  BY DEF PagesInv, PagesTyped, HomePages
<1>. QED
  BY <1>1, <1>2, <1>3 DEF PagesInv, PagesTyped

LEMMA UnsetKeeps ==
    ASSUME PagesInv, NEW s \in Slots, Unset(s) PROVE PagesInv'
<1>1. page' \in [Pages -> {Void} \cup PageRow] /\ HomePages(page') = {}
  <2>1. page' = [p \in Pages |-> IF page[p] # Void THEN [page[p] EXCEPT !.home = FALSE] ELSE page[p]]
    BY DEF Unset, UnsetAllHomepages, Exists
  <2>2. \A p \in Pages : page[p] # Void => [page[p] EXCEPT !.home = FALSE] \in PageRow
                                           /\ ~[page[p] EXCEPT !.home = FALSE].home
    BY DEF PagesInv, PagesTyped, PageRow
  <2>. QED
    BY <2>1, <2>2 DEF PagesInv, PagesTyped, HomePages
<1>2. call' = [t \in Slots |-> call'[t]]
  BY DEF Unset, Await, PagesInv, PagesTyped
<1>3. ASSUME NEW t \in Slots PROVE PageCall(call'[t])
  <2>. PICK c : c = call[s]
    OBVIOUS
  <2>1. c # Idle /\ c.pc = "unset" /\ call' = [call EXCEPT ![s] = [c EXCEPT !.pc = "write"]] /\ PageCall(c)
    BY DEF Unset, Await, PagesInv, PagesTyped
  <2>2. PageCall([c EXCEPT !.pc = "write"])
    <3>1. c = [op |-> c.op, id |-> c.id, slug |-> c.slug, published |-> c.published,
               home |-> c.home, alone |-> c.alone, pc |-> c.pc]
      BY <2>1 DEF PageCall
    <3>2. [c EXCEPT !.pc = "write"]
             = [op |-> c.op, id |-> c.id, slug |-> c.slug, published |-> c.published,
                home |-> c.home, alone |-> c.alone, pc |-> "write"]
      BY <3>1
    <3>. QED
      BY <2>1, <3>2 DEF PageCall
  <2>. QED
    BY <2>1, <2>2 DEF PagesInv, PagesTyped
<1>. QED
  BY <1>1, <1>2, <1>3 DEF PagesInv, PagesTyped

\* A page is written: if as a homepage, no other setter is alone any more.
LEMMA PageWritten ==
    ASSUME PagesInv, NEW p \in Pages, NEW row \in PageRow, NEW set \in BOOLEAN,
           page' = [page EXCEPT ![p] = row], row.home => set \/ p \in HomePages(page),
           call' = [t \in Slots |-> call'[t]],
           \A t \in Slots : call'[t] \in {Idle, Crowded(call[t], set)}
    PROVE  PagesInv'
<1>1. page' \in [Pages -> {Void} \cup PageRow]
  BY DEF PagesInv, PagesTyped
<1>2. ASSUME NEW c, PageCall(c)
      PROVE  PageCall(Crowded(c, set)) /\ (Setting(Crowded(c, set)) => Setting(c) /\ ~set)
  <2>1. CASE Crowded(c, set) = c /\ ~(set /\ c # Idle /\ c.home = TRUE /\ c.pc = "write")
    BY <1>2, <2>1 DEF Setting, PageCall, Setters, Idle
  <2>2. CASE /\ set /\ c # Idle /\ c.home = TRUE /\ c.pc = "write"
             /\ Crowded(c, set) = [c EXCEPT !.alone = FALSE]
    <3>0. c.home # Void
      BY <2>2, DeskAssumption, Zenon
    <3>1. c = [op |-> c.op, id |-> c.id, slug |-> c.slug, published |-> c.published,
               home |-> c.home, alone |-> c.alone, pc |-> c.pc]
      BY <1>2, <2>2, <3>0 DEF PageCall
    <3>2. Crowded(c, set)
             = [op |-> c.op, id |-> c.id, slug |-> c.slug, published |-> c.published,
                home |-> c.home, alone |-> FALSE, pc |-> c.pc]
      BY <2>2, <3>1
    <3>. QED
      BY <1>2, <2>2, <3>0, <3>2 DEF PageCall, Setting
  <2>. QED
    BY <2>1, <2>2 DEF Crowded
<1>3. ASSUME NEW t \in Slots
      PROVE  PageCall(call'[t]) /\ (Setting(call'[t]) => Setting(call[t]) /\ ~set)
  <2>1. CASE call'[t] = Idle
    BY <2>1 DEF PageCall, Setting, Setters, Idle
  <2>2. CASE call'[t] = Crowded(call[t], set)
    BY <1>2, <2>2 DEF PagesInv, PagesTyped
  <2>. QED
    BY <2>1, <2>2
<1>4. ~set /\ HomePages(page) = {} => HomePages(page') = {}
  BY DEF HomePages, PagesInv, PagesTyped
<1>. QED
  BY <1>1, <1>3, <1>4 DEF PagesInv, PagesTyped

LEMMA CreateOrUpdateKeeps ==
    ASSUME PagesInv, NEW s \in Slots, CreatePage(s) \/ UpdatePage(s) PROVE PagesInv'
<1>. PICK c : c = call[s]
  OBVIOUS
<1>c. PageCall(c) /\ page \in [Pages -> {Void} \cup PageRow] /\ c # Idle
  BY DEF PagesInv, PagesTyped, CreatePage, UpdatePage, At, Idle
<1>1. CASE Answer(s) /\ UNCHANGED page
  BY <1>1, PageAnswered DEF Answer, Await
<1>2. ASSUME NEW p \in Pages, NEW row \in PageRow, Write(s, p, row),
             row.home => c.home = TRUE \/ p \in HomePages(page)
      PROVE  PagesInv'
  <2>. PICK set \in BOOLEAN : set = (c.home = TRUE)
    OBVIOUS
  <2>1. /\ page' = [page EXCEPT ![p] = row]
        /\ call' = [t \in Slots |-> call'[t]]
        /\ \A t \in Slots : call'[t] \in {Idle, Crowded(call[t], set)}
    BY <1>2 DEF Write
  <2>2. row.home => set \/ p \in HomePages(page)
    BY <1>2
  <2>. QED
    BY <2>1, <2>2, PageWritten
<1>3. CASE CreatePage(s) /\ ~(Answer(s) /\ UNCHANGED page)
  <2>1. PICK p \in Pages : Write(s, p, [slug |-> c.slug, published |-> c.published, home |-> c.home])
    BY <1>3 DEF CreatePage
  <2>2. c.op = "page.create"
    BY <1>3 DEF CreatePage, At
  <2>3. c.slug \in PageSlugs /\ c.published \in BOOLEAN /\ c.home \in BOOLEAN
    BY <1>c, <2>2 DEF PageCall
  <2>. PICK row : row = [slug |-> c.slug, published |-> c.published, home |-> c.home]
    OBVIOUS
  <2>4. row \in PageRow /\ (row.home => c.home = TRUE)
    BY <2>3 DEF PageRow
  <2>. QED
    BY <1>2, <2>1, <2>4
<1>4. CASE UpdatePage(s) /\ ~(Answer(s) /\ UNCHANGED page)
  <2>. PICK p : p = c.id
    OBVIOUS
  <2>. PICK slug : slug = IF c.slug = Void THEN page[p].slug ELSE c.slug
    OBVIOUS
  <2>. PICK home : home = IF c.home = Void THEN page[p].home ELSE c.home
    OBVIOUS
  <2>. PICK row : row = [slug |-> slug, published |-> c.published, home |-> home]
    OBVIOUS
  <2>1. Exists(p) /\ Write(s, p, row) /\ c.op = "page.update"
    BY <1>4 DEF UpdatePage, At
  <2>2. p \in Pages
    BY <1>c, <2>1 DEF PageCall, Setters
  <2>3. page[p] \in PageRow
    BY <1>c, <2>1, <2>2 DEF Exists
  <2>4. /\ c.slug \in PageSlugs \cup {Void} /\ c.published \in BOOLEAN /\ c.home \in BOOLEAN \cup {Void}
    BY <1>c, <2>1 DEF PageCall
  <2>5. slug \in PageSlugs /\ home \in BOOLEAN
    BY <2>3, <2>4 DEF PageRow
  <2>6. row \in PageRow /\ (row.home => c.home = TRUE \/ p \in HomePages(page))
    BY <2>1, <2>2, <2>4, <2>5 DEF PageRow, HomePages, Exists
  <2>. QED
    BY <1>2, <2>1, <2>2, <2>6
<1>. QED
  BY <1>1, <1>3, <1>4

LEMMA SeedPageKeeps ==
    ASSUME PagesInv, NEW slug \in PageSlugs, SeedPage(slug) PROVE PagesInv'
<1>. PICK set \in BOOLEAN : set = SeededHome[slug]
  BY PagesAssumption
<1>. PICK row : row = [slug |-> slug, published |-> TRUE, home |-> set]
  OBVIOUS
<1>1. row \in PageRow /\ row.home = set
  BY DEF PageRow
<1>2. PICK p \in Pages : page' = [page EXCEPT ![p] = row]
  BY DEF SeedPage
<1>3. call' = [t \in Slots |-> Crowded(call[t], set)]
  BY DEF SeedPage
<1>4. /\ call' = [t \in Slots |-> call'[t]]
      /\ \A t \in Slots : call'[t] \in {Idle, Crowded(call[t], set)}
  BY <1>3
<1>. QED
  BY <1>1, <1>2, <1>4, PageWritten

LEMMA PagesInvStep ==
    ASSUME PagesInv, [PagesNext]_<<desk, page>> PROVE PagesInv'
<1>1. ASSUME NEW s \in Slots, Rejected(s), UNCHANGED page PROVE PagesInv'
  BY <1>1, PageAnswered DEF Rejected
<1>2. ASSUME NEW s \in Slots, DeletePage(s) PROVE PagesInv'
  <2>1. call' = [call EXCEPT ![s] = Idle] /\ page' = [page EXCEPT ![call[s].id] = Void]
    BY <1>2 DEF DeletePage, Answer, Await
  <2>2. call[s].id \in Pages
    BY <1>2 DEF DeletePage, At, PagesInv, PagesTyped, PageCall, Setters, Idle
  <2>. QED
    BY <2>1, <2>2, PageAnswered
<1>3. CASE UNCHANGED <<desk, page>>
  BY <1>3 DEF desk, PagesInv, PagesTyped, HomePages
<1>. QED
  BY <1>1, <1>2, <1>3, PageRequestsKeep, UnsetKeeps, CreateOrUpdateKeeps, SeedPageKeeps
     DEF PagesNext, PageStep

\* A page made the homepage by a request no other setter came into is then the
\* only one.
THEOREM HomepageIsAlone == PagesSpec => HomeIsAlone
<1>1. ASSUME PagesInv, [PagesNext]_<<desk, page>>, NEW s \in Slots,
             call[s].op \in {"page.create", "page.update"}, call[s].pc = "write",
             call[s].home = TRUE, call[s].alone, call'[s] = Idle, page' # page
      PROVE  Cardinality(HomePages(page')) = 1
  <2>1. HomePages(page) = {} /\ call[s] # Idle
    BY <1>1 DEF PagesInv, Setting, Setters, Idle
  <2>2. ASSUME NEW set PROVE Crowded(call[s], set) # Idle
    <3>1. Crowded(call[s], set).op = call[s].op
      BY <1>1 DEF Crowded, PagesInv, PagesTyped, PageCall
    <3>. QED
      BY <1>1, <3>1 DEF Idle
  <2>3. ASSUME NEW p \in Pages, NEW row \in PageRow, page' = [page EXCEPT ![p] = row], row.home = TRUE
        PROVE  HomePages(page') = {p}
    <3>1. page \in [Pages -> {Void} \cup PageRow]
      BY <1>1 DEF PagesInv, PagesTyped
    <3>2. page'[p] = row /\ row # Void /\ \A q \in Pages \ {p} : page'[q] = page[q]
      BY <2>3, <3>1, PagesAssumption
    <3>3. \A q \in Pages \ {p} : q \notin HomePages(page')
      BY <2>1, <3>2 DEF HomePages
    <3>4. p \in HomePages(page')
      BY <2>3, <3>2 DEF HomePages
    <3>. QED
      BY <3>3, <3>4 DEF HomePages
  <2>4. \E p \in Pages : HomePages(page') = {p}
    <3>. PICK c : c = call[s]
      OBVIOUS
    <3>c. PageCall(c) /\ c # Idle /\ page \in [Pages -> {Void} \cup PageRow]
      BY <1>1, <2>1 DEF PagesInv, PagesTyped
    <3>h. c.home = TRUE /\ c.home # Void
      BY <1>1, DeskAssumption, Zenon
    <3>b. c.home \in BOOLEAN
      BY <3>h, Zenon
    <3>1. ASSUME CreatePage(s) PROVE \E p \in Pages : HomePages(page') = {p}
      <4>. PICK row : row = [slug |-> c.slug, published |-> c.published, home |-> c.home]
        OBVIOUS
      <4>1. PICK p \in Pages : page' = [page EXCEPT ![p] = row]
        BY <1>1, <3>1 DEF CreatePage, Write
      <4>2. c.op = "page.create"
        BY <3>1 DEF CreatePage, At
      <4>3. c.slug \in PageSlugs /\ c.published \in BOOLEAN
        BY <3>c, <4>2 DEF PageCall
      <4>4. row \in PageRow
        BY <3>b, <4>3 DEF PageRow
      <4>5. row.home = TRUE
        BY <3>h
      <4>. QED
        BY <2>3, <4>1, <4>4, <4>5
    <3>2. ASSUME UpdatePage(s) PROVE \E p \in Pages : HomePages(page') = {p}
      <4>. PICK p : p = c.id
        OBVIOUS
      <4>. PICK slug : slug = IF c.slug = Void THEN page[p].slug ELSE c.slug
        OBVIOUS
      <4>. PICK home : home = IF c.home = Void THEN page[p].home ELSE c.home
        OBVIOUS
      <4>. PICK row : row = [slug |-> slug, published |-> c.published, home |-> home]
        OBVIOUS
      <4>1. c.op = "page.update" /\ Exists(p) /\ page' = [page EXCEPT ![p] = row]
        BY <1>1, <3>2 DEF UpdatePage, At, Write
      <4>2. p \in Pages /\ c.slug \in PageSlugs \cup {Void} /\ c.published \in BOOLEAN
        BY <3>c, <4>1 DEF PageCall, Setters
      <4>3. page[p] \in PageRow
        BY <3>c, <4>1, <4>2 DEF Exists
      <4>4. home = c.home /\ slug \in PageSlugs
        BY <3>h, <4>2, <4>3 DEF PageRow
      <4>5. row \in PageRow
        BY <3>b, <4>2, <4>4 DEF PageRow
      <4>6. row.home = TRUE
        BY <3>h, <4>4, Zenon
      <4>. QED
        BY <2>3, <4>1, <4>2, <4>5, <4>6
    <3>3. ASSUME NEW t \in Slots, t # s, CreatePage(t) \/ UpdatePage(t) PROVE FALSE
      <4>0. Answer(t) \/ \E p, row : Write(t, p, row)
        BY <3>3 DEF CreatePage, UpdatePage
      <4>1. call'[s] = call[s] \/ call'[s] = Crowded(call[s], call[t].home = TRUE)
        BY <1>1, <3>3, <4>0 DEF Write, Answer, Await, PagesInv, PagesTyped
      <4>. QED
        BY <1>1, <2>1, <2>2, <4>1
    <3>4. ASSUME NEW t \in Slots, Unset(t) \/ DeletePage(t) PROVE FALSE
      <4>1. t # s
        BY <1>1, <3>4 DEF Unset, DeletePage, At
      <4>0. \E d : call' = [call EXCEPT ![t] = d]
        BY <3>4 DEF Unset, DeletePage, Answer, Await
      <4>2. call'[s] = call[s]
        BY <1>1, <4>0, <4>1 DEF PagesInv, PagesTyped
      <4>. QED
        BY <1>1, <2>1, <4>2
    <3>5. ASSUME NEW slug \in PageSlugs, SeedPage(slug) PROVE FALSE
      <4>1. call'[s] = Crowded(call[s], SeededHome[slug])
        BY <3>5 DEF SeedPage
      <4>. QED
        BY <1>1, <2>2, <4>1
    <3>. QED
      BY <1>1, <3>1, <3>2, <3>3, <3>4, <3>5 DEF PagesNext, PageStep
  <2>. QED
    BY <2>4, FS_Singleton
<1>2. PagesInv /\ [PagesNext]_<<desk, page>> =>
        \A s \in Slots :
           /\ call[s].op \in {"page.create", "page.update"}
           /\ call[s].pc = "write" /\ call[s].home = TRUE /\ call[s].alone
           /\ call'[s] = Idle /\ page' # page
           => Cardinality(HomePages(page')) = 1
  BY <1>1
<1>3. <<page, call>>' # <<page, call>> => <<desk, page>>' # <<desk, page>>
  BY DEF desk
<1>. QED
  BY <1>2, <1>3, PagesInvInit, PagesInvStep, PTL DEF PagesSpec, HomeIsAlone

-----------------------------------------------------------------------------
(* Content *)

ContentNext == \E s \in Slots : ContentRequests(s) \/ ContentStep(s) \/ (Rejected(s) /\ UNCHANGED rows)

\* Content on its own, as in its scene of MCContent.
ContentSpec == DeskInit(0) /\ ContentInit /\ [][ContentNext]_<<desk, rows>>

\* Of the kind, in a table of rows; or once of the kind, and deleted since.
Is(all, id, kind) == id \in DOMAIN all /\ all[id] # Void /\ all[id].kind = kind
Was(all, id, kind) == id \in DOMAIN all /\ (all[id] = Void \/ all[id].kind = kind)

\* An item is of a type, a term of a taxonomy.
OwnerKind(kind) == IF kind = "item" THEN "type" ELSE "taxonomy"
OwnersKnown(all) ==
    \A id \in DOMAIN all : all[id] # Void /\ all[id].kind \in {"item", "term"}
                           => Is(all, all[id].of, OwnerKind(all[id].kind))

\* What a request knows of the rows it names, however long ago it was made.
Knows(all, c) ==
    /\ c.op \in {"type.create", "taxonomy.create", "template.create"} => c.slug \in Slugs
    /\ c.op = "item.create" => c.slug \in Slugs /\ c.type \in Slugs /\ (c.pc = "write" => Was(all, c.of, "type"))
    /\ c.op = "term.create" => c.slug \in Slugs /\ Was(all, c.id, "taxonomy")
    /\ c.op \in {"type.update", "item.update", "taxonomy.update", "term.update", "template.update"}
          => c.slug \in Slugs \cup {Void}
    /\ c.op = "type.delete" => Was(all, c.id, "type")
    /\ c.op = "item.delete" => Was(all, c.id, "item")
    /\ c.op = "taxonomy.delete" => Was(all, c.id, "taxonomy")
    /\ c.op = "term.delete" => Was(all, c.id, "term")
    /\ c.op = "template.delete" => Was(all, c.id, "template")

ContentCall(c) ==
    \/ c = Idle
    \/ c = [op |-> c.op, id |-> c.id, slug |-> c.slug, type |-> c.type, of |-> c.of, pc |-> c.pc]

Rows == {Void} \cup ContentRow

ContentInv ==
    /\ rows \in Seq(Rows)
    /\ call = [s \in Slots |-> call[s]]
    /\ \A s \in Slots : ContentCall(call[s]) /\ Knows(rows, call[s])
    /\ OwnersKnown(rows)

\* Rows come to the end, and those there are stay what they are, or go.
Age(old, new) ==
    /\ new \in Seq(Rows)
    /\ \A id \in DOMAIN old :
          /\ id \in DOMAIN new
          /\ new[id] # Void => old[id] # Void /\ new[id].kind = old[id].kind

LEMMA KnownStays ==
    ASSUME NEW old, NEW new, Age(old, new), NEW c, Knows(old, c) PROVE Knows(new, c)
<1>1. \A id, kind : Was(old, id, kind) => Was(new, id, kind)
  BY DEF Age, Was
<1>. QED
  BY <1>1 DEF Knows

LEMMA SameRows == ASSUME ContentInv PROVE Age(rows, rows)
BY DEF ContentInv, Age

\* A step of a request: what it goes on to know, and rows that age.
LEMMA ContentMoves ==
    ASSUME ContentInv, Age(rows, rows'), OwnersKnown(rows'), NEW s \in Slots, NEW c,
           call' = [call EXCEPT ![s] = c], ContentCall(c), Knows(rows', c)
    PROVE  ContentInv'
<1>1. /\ call' = [t \in Slots |-> call'[t]]
      /\ \A t \in Slots : call'[t] = call[t] \/ call'[t] = c
  BY DEF ContentInv
<1>2. \A t \in Slots : Knows(rows', call'[t]) /\ ContentCall(call'[t])
  BY <1>1, KnownStays DEF ContentInv
<1>3. rows' \in Seq(Rows)
  BY DEF Age
<1>. QED
  BY <1>1, <1>2, <1>3 DEF ContentInv

LEMMA KnowsNothing == ContentCall(Idle) /\ \A all : Knows(all, Idle)
BY DEF ContentCall, Knows, Idle

\* An answer, with rows that age.
LEMMA ContentAnswers ==
    ASSUME ContentInv, Age(rows, rows'), OwnersKnown(rows'), NEW s \in Slots, Answer(s)
    PROVE  ContentInv'
BY ContentMoves, KnowsNothing DEF Answer, Await

LEMMA ContentKeeps ==
    ASSUME ContentInv, NEW s \in Slots, Answer(s), UNCHANGED rows PROVE ContentInv'
BY ContentAnswers, SameRows DEF ContentInv

\* A row is inserted if its owner, when it has one, is still there.
LEMMA InsertKeeps ==
    ASSUME ContentInv, NEW s \in Slots, NEW row \in ContentRow, Insert(s, row),
           row.kind \in {"item", "term"} => row.of # Void /\ Was(rows, row.of, OwnerKind(row.kind))
    PROVE  ContentInv'
<1>1. CASE UNCHANGED rows
  BY <1>1, ContentKeeps DEF Insert
<1>2. CASE rows' # rows
  <2>1. rows' = Append(rows, row) /\ Answer(s) /\ ~(row.of # Void /\ rows[row.of] = Void)
    BY <1>2 DEF Insert
  <2>2. rows \in Seq(Rows) /\ row \in Rows /\ OwnersKnown(rows)
    BY DEF ContentInv, Rows
  <2>3. rows' \in Seq(Rows) /\ DOMAIN rows \subseteq DOMAIN rows'
    BY <2>1, <2>2
  <2>4. \A id \in DOMAIN rows : rows'[id] = rows[id]
    BY <2>1, <2>2
  <2>5. \A id \in DOMAIN rows' \ DOMAIN rows : rows'[id] = row
    BY <2>1, <2>2
  <2>6. Age(rows, rows')
    BY <2>3, <2>4 DEF Age
  <2>7. OwnersKnown(rows')
    BY <2>1, <2>2, <2>3, <2>4, <2>5 DEF OwnersKnown, Is, Was
  <2>. QED
    BY <2>1, <2>6, <2>7, ContentAnswers
<1>. QED
  BY <1>1, <1>2

\* An update changes no more than the slug.
LEMMA UpdateKeeps ==
    ASSUME ContentInv, NEW s \in Slots, NEW kind, Update(s, kind), call[s].slug \in Slugs \cup {Void}
    PROVE  ContentInv'
<1>. PICK c : c = call[s]
  OBVIOUS
<1>1. CASE UNCHANGED rows
  BY <1>1, ContentKeeps DEF Update
<1>2. CASE rows' # rows
  <2>. PICK row : row = IF c.slug = Void THEN rows[c.id] ELSE [rows[c.id] EXCEPT !.slug = c.slug]
    OBVIOUS
  <2>1. rows' = [rows EXCEPT ![c.id] = row] /\ Answer(s) /\ c.id \in DOMAIN rows /\ rows[c.id] # Void
    BY <1>2 DEF Update, IsA
  <2>2. rows \in Seq(Rows) /\ OwnersKnown(rows)
    BY DEF ContentInv
  <2>3. rows[c.id] \in ContentRow
    BY <2>1, <2>2 DEF Rows
  <2>4. row \in ContentRow /\ row.kind = rows[c.id].kind /\ row.of = rows[c.id].of /\ row # Void
    <3>. PICK r \in ContentRow : r = rows[c.id]
      BY <2>3
    <3>1. r = [kind |-> r.kind, slug |-> r.slug, under |-> r.under, of |-> r.of]
      BY DEF ContentRow
    <3>2. row = r \/ (row = [r EXCEPT !.slug = c.slug] /\ c.slug \in Slugs)
      OBVIOUS
    <3>3. row = r \/ (row = [kind |-> r.kind, slug |-> c.slug, under |-> r.under, of |-> r.of] /\ c.slug \in Slugs)
      BY <3>1, <3>2
    <3>4. row \in ContentRow /\ row.kind = r.kind /\ row.of = r.of
      BY <3>3 DEF ContentRow
    <3>5. Void \notin ContentRow
      BY ContentAssumption
    <3>. QED
      BY <3>4, <3>5
  <2>5. rows' \in Seq(Rows) /\ DOMAIN rows' = DOMAIN rows
    BY <2>1, <2>2, <2>4 DEF Rows
  <2>6. \A id \in DOMAIN rows : rows'[id] = IF id = c.id THEN row ELSE rows[id]
    BY <2>1, <2>2
  <2>7. Age(rows, rows')
    BY <2>1, <2>4, <2>5, <2>6 DEF Age
  <2>8. OwnersKnown(rows')
    BY <2>1, <2>2, <2>4, <2>5, <2>6 DEF OwnersKnown, Is
  <2>. QED
    BY <2>1, <2>7, <2>8, ContentAnswers
<1>. QED
  BY <1>1, <1>2

\* No owner goes without what belongs to it.
LEMMA Removed ==
    ASSUME ContentInv, NEW gone, rows' = [id \in DOMAIN rows |-> IF id \in gone THEN Void ELSE rows[id]],
           \A id \in DOMAIN rows : rows[id] # Void /\ rows[id].kind \in {"item", "term"} /\ rows[id].of \in gone
                                   => id \in gone
    PROVE  Age(rows, rows') /\ OwnersKnown(rows')
<1>1. rows \in Seq(Rows) /\ OwnersKnown(rows) /\ Void \in Rows
  BY DEF ContentInv, Rows
<1>2. rows' \in Seq(Rows)
  <2>1. Len(rows) \in Nat /\ DOMAIN rows = 1..Len(rows) /\ \A id \in DOMAIN rows : rows[id] \in Rows
    BY <1>1
  <2>2. rows' \in [1..Len(rows) -> Rows]
    BY <1>1, <2>1
  <2>. QED
    BY <2>1, <2>2, SeqDef
<1>3. DOMAIN rows' = DOMAIN rows /\ \A id \in DOMAIN rows : rows'[id] = IF id \in gone THEN Void ELSE rows[id]
  OBVIOUS
<1>4. Age(rows, rows')
  BY <1>2, <1>3 DEF Age
<1>5. OwnersKnown(rows')
  BY <1>1, <1>3 DEF OwnersKnown, Is
<1>. QED
  BY <1>4, <1>5

\* An item, a term or a template owns nothing.
LEMMA RemovesUnowned ==
    ASSUME ContentInv, NEW s \in Slots, NEW id, NEW kind \in {"item", "term", "template"},
           Was(rows, id, kind), Remove(s, {id})
    PROVE  ContentInv'
<1>1. \A q \in DOMAIN rows : rows[q] # Void /\ rows[q].kind \in {"item", "term"} => rows[q].of # id
  BY DEF ContentInv, OwnersKnown, Is, OwnerKind, Was
<1>. QED
  BY <1>1, Removed, ContentAnswers DEF Remove

\* What a row owns: only rows that are no owners themselves.
LEMMA OwnedAreNoOwners ==
    ASSUME ContentInv, NEW id
    PROVE  /\ \A q \in OwnedBy(id) : q \in DOMAIN rows /\ rows[q].kind \in {"item", "term"}
           /\ \A q \in DOMAIN rows : rows[q] # Void /\ rows[q].kind \in {"item", "term"}
                 => /\ rows[q].of = id => q \in OwnedBy(id)
                    /\ rows[q].of \notin OwnedBy(id)
<1>1. OwnedBy(id) = {q \in DOMAIN rows : rows[q] # Void /\ rows[q].kind \in {"item", "term"} /\ rows[q].of = id}
  BY DEF OwnedBy, Those, IsA
<1>. QED
  BY <1>1 DEF ContentInv, OwnersKnown, Is, OwnerKind

LEMMA DeletesKeep ==
    ASSUME ContentInv, NEW s \in Slots, DeleteType(s) \/ DeleteTerms(s) \/ DeleteTaxonomy(s)
    PROVE  ContentInv'
<1>. PICK c : c = call[s]
  OBVIOUS
<1>. PICK o : o = OwnedBy(c.id)
  OBVIOUS
<1>c. ContentCall(c) /\ Knows(rows, c)
  BY DEF ContentInv
<1>1. CASE DeleteType(s)
  <2>1. CASE o = {} /\ Remove(s, {c.id})
    <3>1. \A q \in DOMAIN rows : rows[q] # Void /\ rows[q].kind \in {"item", "term"} => rows[q].of # c.id
      BY <2>1, OwnedAreNoOwners
    <3>. QED
      BY <2>1, <3>1, Removed, ContentAnswers DEF Remove
  <2>2. CASE Answer(s) /\ UNCHANGED rows
    BY <2>2, ContentKeeps
  <2>. QED
    BY <1>1, <2>1, <2>2 DEF DeleteType
<1>2. ASSUME NEW gone, gone = o \/ gone = {c.id} \cup o, rows' = [id \in DOMAIN rows |-> IF id \in gone THEN Void ELSE rows[id]]
      PROVE  Age(rows, rows') /\ OwnersKnown(rows')
  <2>1. \A q \in DOMAIN rows : rows[q] # Void /\ rows[q].kind \in {"item", "term"} /\ rows[q].of \in gone
                               => q \in gone
    BY <1>2, OwnedAreNoOwners
  <2>. QED
    BY <1>2, <2>1, Removed
<1>3. CASE DeleteTerms(s)
  <2>. PICK d : d = [c EXCEPT !.pc = "write"]
    OBVIOUS
  <2>1. /\ rows' = [id \in DOMAIN rows |-> IF id \in o THEN Void ELSE rows[id]]
        /\ call' = [call EXCEPT ![s] = d]
        /\ c.op = "taxonomy.delete" /\ c # Idle
    BY <1>3 DEF DeleteTerms, Await, At, Idle
  <2>2. c = [op |-> c.op, id |-> c.id, slug |-> c.slug, type |-> c.type, of |-> c.of, pc |-> c.pc]
    BY <1>c, <2>1 DEF ContentCall
  <2>3. d = [op |-> c.op, id |-> c.id, slug |-> c.slug, type |-> c.type, of |-> c.of, pc |-> "write"]
    BY <2>2
  <2>4. Age(rows, rows') /\ OwnersKnown(rows')
    BY <1>2, <2>1
  <2>5. Knows(rows', c)
    BY <1>c, <2>4, KnownStays
  <2>6. ContentCall(d) /\ Knows(rows', d)
    BY <2>1, <2>3, <2>5 DEF ContentCall, Knows
  <2>. QED
    BY <2>1, <2>4, <2>6, ContentMoves
<1>4. CASE DeleteTaxonomy(s)
  BY <1>2, <1>4, ContentAnswers DEF DeleteTaxonomy, Remove
<1>. QED
  BY <1>1, <1>3, <1>4

\* What a read found is known from then on.
LEMMA FindsKeep ==
    ASSUME ContentInv, NEW s \in Slots, FindType(s) \/ FindTemplate(s) \/ RefuseTemplate(s)
    PROVE  ContentInv'
<1>. PICK c : c = call[s]
  OBVIOUS
<1>1. CASE Answer(s) /\ UNCHANGED rows
  BY <1>1, ContentKeeps
<1>2. ASSUME NEW d, c # Idle, d = [op |-> c.op, id |-> c.id, slug |-> c.slug, type |-> c.type, of |-> d.of, pc |-> "write"],
             c.op = "item.create" => Was(rows, d.of, "type"),
             Await(s, d), UNCHANGED rows
      PROVE  ContentInv'
  <2>1. ContentCall(d) /\ Knows(rows, c) /\ OwnersKnown(rows)
    BY <1>2 DEF ContentInv, ContentCall
  <2>2. Knows(rows, d)
    BY <1>2, <2>1 DEF Knows
  <2>. QED
    BY <1>2, <2>1, <2>2, SameRows, ContentMoves DEF Await
<1>3. CASE FindType(s) /\ ~Answer(s)
  <2>1. PICK q \in With("type", c.type) : Await(s, [c EXCEPT !.pc = "write", !.of = q])
    BY <1>3 DEF FindType
  <2>2. c.op \in {"item.create", "item.update"} /\ UNCHANGED rows
    BY <1>3 DEF FindType, At
  <2>3. Was(rows, q, "type") /\ c # Idle
    BY <2>2 DEF With, Those, IsA, Was, Idle
  <2>4. c = [op |-> c.op, id |-> c.id, slug |-> c.slug, type |-> c.type, of |-> c.of, pc |-> c.pc]
    BY <2>3 DEF ContentCall, ContentInv
  <2>. PICK d : d = [op |-> c.op, id |-> c.id, slug |-> c.slug, type |-> c.type, of |-> q, pc |-> "write"]
    OBVIOUS
  <2>. PICK w : w = [op |-> c.op, id |-> c.id, slug |-> c.slug, type |-> c.type, of |-> c.of, pc |-> "write"]
    OBVIOUS
  <2>w. [w EXCEPT !.of = q] = d
    OBVIOUS
  <2>v. [c EXCEPT !.pc = "write"] = w
    BY <2>4
  <2>5. [c EXCEPT !.pc = "write", !.of = q] = d
    BY <2>w, <2>v
  <2>6. d = [op |-> c.op, id |-> c.id, slug |-> c.slug, type |-> c.type, of |-> d.of, pc |-> "write"] /\ d.of = q
    OBVIOUS
  <2>. QED
    BY <1>2, <2>1, <2>2, <2>3, <2>5, <2>6
<1>4. CASE FindTemplate(s)
  <2>1. c # Idle /\ c.op # "item.create"
    BY <1>4 DEF FindTemplate, At, Idle
  <2>2. c = [op |-> c.op, id |-> c.id, slug |-> c.slug, type |-> c.type, of |-> c.of, pc |-> c.pc]
    BY <2>1 DEF ContentCall, ContentInv
  <2>3. [c EXCEPT !.pc = "write"]
          = [op |-> c.op, id |-> c.id, slug |-> c.slug, type |-> c.type, of |-> c.of, pc |-> "write"]
    BY <2>2
  <2>. QED
    BY <1>2, <1>4, <2>1, <2>3 DEF FindTemplate
<1>. QED
  BY <1>1, <1>3, <1>4 DEF FindType, RefuseTemplate

LEMMA InsertsKeep ==
    ASSUME ContentInv, NEW s \in Slots,
           CreateType(s) \/ CreateItem(s) \/ CreateTaxonomy(s) \/ CreateTerm(s) \/ CreateTemplate(s)
    PROVE  ContentInv'
<1>. PICK c : c = call[s]
  OBVIOUS
<1>c. Knows(rows, c) /\ DOMAIN rows \subseteq Nat
  BY DEF ContentInv
<1>1. ASSUME NEW kind \in {"type", "taxonomy", "template"}, c.slug \in Slugs,
             Insert(s, Row(kind, c.slug, Void, Void))
      PROVE  ContentInv'
  <2>. PICK row : row = Row(kind, c.slug, Void, Void)
    OBVIOUS
  <2>1. row \in ContentRow /\ row.kind \notin {"item", "term"}
    BY <1>1 DEF Row, ContentRow
  <2>. QED
    BY <1>1, <2>1, InsertKeeps
<1>2. CASE CreateItem(s)
  <2>. PICK row : row = Row("item", c.slug, c.type, c.of)
    OBVIOUS
  <2>1. c.slug \in Slugs /\ c.type \in Slugs /\ Was(rows, c.of, "type") /\ Insert(s, row)
    BY <1>c, <1>2 DEF CreateItem, At, Knows
  <2>2. c.of \in Nat
    BY <1>c, <2>1 DEF Was
  <2>3. row \in ContentRow /\ row.of # Void /\ row.kind = "item" /\ row.of = c.of
    BY <2>1, <2>2, ContentAssumption DEF Row, ContentRow
  <2>. QED
    BY <2>1, <2>3, InsertKeeps DEF OwnerKind
<1>3. CASE CreateTerm(s)
  <2>. PICK row : row = Row("term", c.slug, c.id, c.id)
    OBVIOUS
  <2>1. c.slug \in Slugs /\ Was(rows, c.id, "taxonomy") /\ Insert(s, row)
    BY <1>c, <1>3 DEF CreateTerm, At, Knows
  <2>2. c.id \in Nat
    BY <1>c, <2>1 DEF Was
  <2>3. row \in ContentRow /\ row.of # Void /\ row.kind = "term" /\ row.of = c.id
    BY <2>1, <2>2, ContentAssumption DEF Row, ContentRow
  <2>. QED
    BY <2>1, <2>3, InsertKeeps DEF OwnerKind
<1>. QED
  BY <1>c, <1>1, <1>2, <1>3 DEF CreateType, CreateTaxonomy, CreateTemplate, At, Knows

LEMMA ContentStepKeeps ==
    ASSUME ContentInv, NEW s \in Slots, ContentStep(s) PROVE ContentInv'
<1>1. Knows(rows, call[s])
  BY DEF ContentInv
<1>2. CASE UpdateType(s) \/ UpdateItem(s) \/ UpdateTaxonomy(s) \/ UpdateTerm(s) \/ UpdateTemplate(s)
  BY <1>1, <1>2, UpdateKeeps
     DEF UpdateType, UpdateItem, UpdateTaxonomy, UpdateTerm, UpdateTemplate, At, Knows
<1>3. CASE DeleteItem(s) \/ DeleteTerm(s) \/ DeleteTemplate(s)
  BY <1>1, <1>3, RemovesUnowned DEF DeleteItem, DeleteTerm, DeleteTemplate, At, Knows
<1>. QED
  BY <1>2, <1>3, InsertsKeep, DeletesKeep, FindsKeep DEF ContentStep

\* A request about a row names one that is, or once was, of its kind.
LEMMA RequestKeeps ==
    ASSUME ContentInv, NEW s \in Slots, NEW op, NEW id, NEW slug, NEW type, NEW pc,
           Request(s, op, id, slug, type, pc), UNCHANGED rows,
           Knows(rows, [op |-> op, id |-> id, slug |-> slug, type |-> type, of |-> Void, pc |-> pc])
    PROVE  ContentInv'
<1>. PICK c : c = [op |-> op, id |-> id, slug |-> slug, type |-> type, of |-> Void, pc |-> pc]
  OBVIOUS
<1>1. ContentCall(c) /\ OwnersKnown(rows)
  BY DEF ContentCall, ContentInv
<1>. QED
  BY <1>1, SameRows, ContentMoves DEF Request, Begin

LEMMA TypeRequestsKeep ==
    ASSUME ContentInv, NEW s \in Slots, TypeRequests(s), UNCHANGED rows PROVE ContentInv'
BY RequestKeeps DEF TypeRequests, Knows, Those, IsA, Was

LEMMA ItemRequestsKeep ==
    ASSUME ContentInv, NEW s \in Slots, ItemRequests(s), UNCHANGED rows PROVE ContentInv'
BY RequestKeeps DEF ItemRequests, Knows, Those, IsA, Was

LEMMA TaxonomyRequestsKeep ==
    ASSUME ContentInv, NEW s \in Slots, TaxonomyRequests(s), UNCHANGED rows PROVE ContentInv'
BY RequestKeeps DEF TaxonomyRequests, Knows, Those, IsA, Was

LEMMA TermRequestsKeep ==
    ASSUME ContentInv, NEW s \in Slots, TermRequests(s), UNCHANGED rows PROVE ContentInv'
BY RequestKeeps DEF TermRequests, Knows, Those, IsA, Was

LEMMA TemplateRequestsKeep ==
    ASSUME ContentInv, NEW s \in Slots, TemplateRequests(s), UNCHANGED rows PROVE ContentInv'
BY RequestKeeps DEF TemplateRequests, Knows, Those, IsA, Was

\* Every item has its type and every term its taxonomy, whatever was deleted
\* between the read of an owner and the write of what belongs to it.
THEOREM OwnersStay == ContentSpec => []OwnersAreThere
<1>1. DeskInit(0) /\ ContentInit => ContentInv
  BY KnowsNothing DEF DeskInit, ContentInit, ContentInv, OwnersKnown, Rows
<1>2. ContentInv /\ [ContentNext]_<<desk, rows>> => ContentInv'
  <2>. SUFFICES ASSUME ContentInv, [ContentNext]_<<desk, rows>> PROVE ContentInv'
    OBVIOUS
  <2>1. ASSUME NEW s \in Slots, ContentRequests(s) PROVE ContentInv'
    BY <2>1, TypeRequestsKeep, ItemRequestsKeep, TaxonomyRequestsKeep, TermRequestsKeep, TemplateRequestsKeep
       DEF ContentRequests
  <2>2. ASSUME NEW s \in Slots, Rejected(s), UNCHANGED rows PROVE ContentInv'
    BY <2>2, SameRows, ContentMoves, KnowsNothing DEF Rejected, ContentInv
  <2>3. CASE UNCHANGED <<desk, rows>>
    BY <2>3 DEF desk, ContentInv
  <2>. QED
    BY <2>1, <2>2, <2>3, ContentStepKeeps DEF ContentNext
<1>3. ContentInv => OwnersAreThere
  BY DEF ContentInv, OwnersKnown, OwnersAreThere, Those, IsA, Is
<1>. QED
  BY <1>1, <1>2, <1>3, PTL DEF ContentSpec

-----------------------------------------------------------------------------
(* Files *)

FilesNext ==
    \/ \E s \in Slots : ((FileRequests(s) \/ Rejected(s)) /\ UNCHANGED vault) \/ FileStep(s)
    \/ Configure

\* The files on their own, as in their scene of MCContent.
FilesSpec == DeskInit(0) /\ FilesInit /\ [][FilesNext]_<<desk, vault>>

FileCall(c) ==
    \/ c = Idle
    \/ /\ c = [op |-> "media.create", id |-> c.id, inline |-> c.inline, url |-> c.url, pc |-> c.pc]
       /\ c.inline \in BOOLEAN /\ c.url \in BOOLEAN
    \/ /\ c = [op |-> "file.delete", id |-> c.id, pc |-> c.pc]
       /\ c.id \in AllFiles /\ c.pc \in {"find", "object", "row"}

FilesTyped ==
    /\ file \in [AllFiles -> {Void, Gone} \cup FileRow]
    /\ call = [s \in Slots |-> call[s]]
    /\ \A s \in Slots : FileCall(call[s])

\* A request that is about to delete the row has seen its object go, or that it
\* never had one.
RowIsNext(c) == c.op = "file.delete" /\ c.pc = "row"

FilesInv ==
    /\ FilesTyped
    /\ objects \subseteq {f \in AllFiles : file[f] \in FileRow /\ file[f].where = "bucket"}
    /\ \A s \in Slots : RowIsNext(call[s]) => call[s].id \notin objects

\* A step of a request: objects only go, and rows keep their place.
LEMMA FilesMove ==
    ASSUME FilesInv, NEW s \in Slots, NEW c, call' = [call EXCEPT ![s] = c], FileCall(c),
           file' \in [AllFiles -> {Void, Gone} \cup FileRow], objects' \subseteq objects,
           \A f \in objects' : file'[f] \in FileRow /\ file'[f].where = "bucket",
           RowIsNext(c) => c.id \notin objects'
    PROVE  FilesInv'
<1>1. /\ call' = [t \in Slots |-> call'[t]]
      /\ \A t \in Slots : call'[t] = call[t] \/ call'[t] = c
  BY DEF FilesInv, FilesTyped
<1>2. \A t \in Slots : FileCall(call'[t]) /\ (RowIsNext(call'[t]) => call'[t].id \notin objects')
  BY <1>1 DEF FilesInv, FilesTyped
<1>. QED
  BY <1>1, <1>2 DEF FilesInv, FilesTyped

LEMMA FilesAnswer ==
    ASSUME FilesInv, NEW s \in Slots, call' = [call EXCEPT ![s] = Idle], UNCHANGED <<file, objects>>
    PROVE  FilesInv'
BY FilesMove DEF FilesInv, FilesTyped, FileCall, RowIsNext, Idle

LEMMA FileRequestsKeep ==
    ASSUME FilesInv, NEW s \in Slots, FileRequests(s), UNCHANGED vault PROVE FilesInv'
<1>1. ASSUME NEW c, FileCall(c), ~RowIsNext(c), Begin(s, c) PROVE FilesInv'
  BY <1>1, FilesMove DEF FilesInv, FilesTyped, Begin, vault
<1>2. ASSUME NEW new \in MediaBodies,
             Begin(s, [op |-> "media.create", id |-> Void, inline |-> new.inline, url |-> new.url, pc |-> "insert"])
      PROVE  FilesInv'
  <2>. PICK c : c = [op |-> "media.create", id |-> Void, inline |-> new.inline, url |-> new.url, pc |-> "insert"]
    OBVIOUS
  <2>1. FileCall(c) /\ ~RowIsNext(c)
    BY DEF FileCall, RowIsNext, MediaBodies
  <2>. QED
    BY <1>1, <1>2, <2>1
<1>3. ASSUME NEW f \in AllFiles, Begin(s, [op |-> "file.delete", id |-> f, pc |-> "find"])
      PROVE  FilesInv'
  <2>. PICK c : c = [op |-> "file.delete", id |-> f, pc |-> "find"]
    OBVIOUS
  <2>1. FileCall(c) /\ ~RowIsNext(c)
    BY DEF FileCall, RowIsNext
  <2>. QED
    BY <1>1, <1>3, <2>1
<1>. QED
  BY <1>2, <1>3 DEF FileRequests

LEMMA InsertMediaKeeps ==
    ASSUME FilesInv, NEW s \in Slots, InsertMedia(s) PROVE FilesInv'
<1>. PICK c : c = call[s]
  OBVIOUS
<1>1. /\ c = [op |-> "media.create", id |-> c.id, inline |-> c.inline, url |-> c.url, pc |-> c.pc]
      /\ c.inline \in BOOLEAN /\ c.url \in BOOLEAN
  <2>1. c.op = "media.create" /\ FileCall(c)
    BY DEF InsertMedia, At, FilesInv, FilesTyped
  <2>. QED
    BY <2>1 DEF FileCall, Idle
<1>2. PICK f \in Media :
        /\ file[f] = Void
        /\ file' = [file EXCEPT ![f] = [where |-> IF c.inline THEN "row" ELSE "elsewhere", url |-> c.url]]
        /\ \/ call' = [call EXCEPT ![s] = [c EXCEPT !.pc = "serve", !.id = f]]
           \/ call' = [call EXCEPT ![s] = Idle]
  BY DEF InsertMedia, Await, Answer
<1>3. [where |-> IF c.inline THEN "row" ELSE "elsewhere", url |-> c.url] \in FileRow
  BY <1>1 DEF FileRow
<1>4. /\ file' \in [AllFiles -> {Void, Gone} \cup FileRow] /\ UNCHANGED objects
      /\ \A g \in objects : file'[g] = file[g]
  <2>1. f \notin objects
    BY <1>2, FilesAssumption DEF FilesInv
  <2>. QED
    BY <1>2, <1>3, <2>1 DEF InsertMedia, FilesInv, FilesTyped, AllFiles
<1>5. PICK d : call' = [call EXCEPT ![s] = d] /\ (d = [c EXCEPT !.pc = "serve", !.id = f] \/ d = Idle)
  BY <1>2
<1>6. FileCall(d) /\ ~RowIsNext(d)
  <2>. PICK w : w = [op |-> "media.create", id |-> c.id, inline |-> c.inline, url |-> c.url, pc |-> "serve"]
    OBVIOUS
  <2>. PICK v : v = [op |-> "media.create", id |-> f, inline |-> c.inline, url |-> c.url, pc |-> "serve"]
    OBVIOUS
  <2>1. [c EXCEPT !.pc = "serve"] = w
    BY <1>1
  <2>2. [w EXCEPT !.id = f] = v
    OBVIOUS
  <2>3. FileCall(v) /\ ~RowIsNext(v)
    BY <1>1 DEF FileCall, RowIsNext
  <2>4. [c EXCEPT !.pc = "serve", !.id = f] = v
    BY <2>1, <2>2
  <2>5. FileCall(Idle) /\ ~RowIsNext(Idle)
    BY DEF FileCall, RowIsNext, Idle
  <2>. QED
    BY <1>5, <2>3, <2>4, <2>5
<1>. QED
  BY <1>4, <1>5, <1>6, FilesMove DEF FilesInv

LEMMA ServeMediaKeeps ==
    ASSUME FilesInv, NEW s \in Slots, ServeMedia(s) PROVE FilesInv'
<1>. PICK f : f = call[s].id
  OBVIOUS
<1>1. /\ file' = [file EXCEPT ![f] = IF IsRow(f) THEN [file[f] EXCEPT !.url = TRUE] ELSE file[f]]
      /\ call' = [call EXCEPT ![s] = Idle] /\ UNCHANGED objects
  BY DEF ServeMedia, Answer, Await
<1>2. file \in [AllFiles -> {Void, Gone} \cup FileRow]
  BY DEF FilesInv, FilesTyped
<1>3. CASE f \in AllFiles /\ IsRow(f)
  <2>. PICK row \in FileRow : row = file[f]
    BY <1>2, <1>3 DEF IsRow
  <2>. PICK new : new = [row EXCEPT !.url = TRUE]
    OBVIOUS
  <2>1. new \in FileRow /\ new.where = row.where
    BY DEF FileRow
  <2>4. file' = [file EXCEPT ![f] = new]
    BY <1>1, <1>3
  <2>5. /\ file' \in [AllFiles -> {Void, Gone} \cup FileRow]
        /\ \A g \in objects : file'[g] \in FileRow /\ file'[g].where = "bucket"
    BY <1>2, <1>3, <2>1, <2>4 DEF FilesInv
  <2>. QED
    BY <1>1, <2>5, FilesMove DEF FileCall, RowIsNext, Idle
<1>4. CASE ~(f \in AllFiles /\ IsRow(f))
  <2>1. file' = file
    BY <1>1, <1>2, <1>4
  <2>. QED
    BY <1>1, <2>1, FilesAnswer
<1>. QED
  BY <1>3, <1>4

\* The steps of a deletion.
LEMMA DeletionKeeps ==
    ASSUME FilesInv, NEW s \in Slots, FindFile(s) \/ DeleteObject(s) \/ DeleteRow(s) PROVE FilesInv'
<1>. PICK c : c = call[s]
  OBVIOUS
<1>1. /\ c = [op |-> "file.delete", id |-> c.id, pc |-> c.pc]
      /\ c.id \in AllFiles /\ c.pc \in {"find", "object", "row"}
  <2>1. c.op = "file.delete" /\ FileCall(c)
    BY DEF FindFile, DeleteObject, DeleteRow, At, FilesInv, FilesTyped
  <2>. QED
    BY <2>1 DEF FileCall, Idle
<1>2. ASSUME NEW pc \in {"object", "row"}
      PROVE  [c EXCEPT !.pc = pc] = [op |-> "file.delete", id |-> c.id, pc |-> pc]
  BY <1>1
<1>3. CASE call' = [call EXCEPT ![s] = Idle] /\ UNCHANGED <<file, objects>>
  BY <1>3, FilesAnswer
<1>4. CASE FindFile(s) /\ ~(call' = [call EXCEPT ![s] = Idle] /\ UNCHANGED <<file, objects>>)
  <2>. PICK pc : pc = AfterFind(file[c.id].where)
    OBVIOUS
  <2>. PICK d : d = [op |-> "file.delete", id |-> c.id, pc |-> pc]
    OBVIOUS
  <2>1. /\ call' = [call EXCEPT ![s] = [c EXCEPT !.pc = pc]] /\ UNCHANGED <<file, objects>>
    BY <1>4 DEF FindFile, Await, Answer, vault
  <2>2. pc \in {"object", "row"} /\ (pc = "row" => c.id \notin objects)
    BY DEF AfterFind, FilesInv
  <2>3. FileCall(d) /\ (RowIsNext(d) => d.id \notin objects) /\ call' = [call EXCEPT ![s] = d]
    BY <1>1, <1>2, <2>1, <2>2 DEF FileCall, RowIsNext
  <2>. QED
    BY <2>1, <2>3, FilesMove DEF FilesInv, FilesTyped
<1>5. CASE DeleteObject(s) /\ ~(call' = [call EXCEPT ![s] = Idle] /\ UNCHANGED <<file, objects>>)
  <2>. PICK d : d = [op |-> "file.delete", id |-> c.id, pc |-> "row"]
    OBVIOUS
  <2>1. /\ call' = [call EXCEPT ![s] = [c EXCEPT !.pc = "row"]]
        /\ objects' = objects \ {c.id} /\ UNCHANGED file
    BY <1>5 DEF DeleteObject, Await, Answer
  <2>2. FileCall(d) /\ d.id \notin objects' /\ call' = [call EXCEPT ![s] = d]
    BY <1>1, <1>2, <2>1 DEF FileCall
  <2>. QED
    BY <2>1, <2>2, FilesMove DEF FilesInv, FilesTyped
<1>6. CASE DeleteRow(s)
  <2>1. c.pc = "row" /\ c.op = "file.delete"
    BY <1>1, <1>6 DEF DeleteRow, At
  <2>2. /\ call' = [call EXCEPT ![s] = Idle] /\ UNCHANGED objects
        /\ file' = [file EXCEPT ![c.id] = Gone]
    BY <1>6, <2>1 DEF DeleteRow, Answer, Await
  <2>3. c.id \notin objects
    BY <2>1 DEF FilesInv, RowIsNext
  <2>4. /\ file' \in [AllFiles -> {Void, Gone} \cup FileRow]
        /\ \A g \in objects : file'[g] \in FileRow /\ file'[g].where = "bucket"
    BY <2>2, <2>3 DEF FilesInv, FilesTyped
  <2>. QED
    BY <2>2, <2>4, FilesMove DEF FileCall, RowIsNext, Idle
<1>. QED
  BY <1>3, <1>4, <1>5, <1>6

\* No object outlives its row: whatever fails between the two deletions, and
\* whoever repeats them, the row that names the object is still there.
THEOREM ObjectsKeepRows == FilesSpec => []ObjectsHaveRows
<1>1. DeskInit(0) /\ FilesInit => FilesInv
  <2>. SUFFICES ASSUME DeskInit(0), FilesInit PROVE FilesInv
    OBVIOUS
  <2>1. file \in [AllFiles -> {Void, Gone} \cup FileRow]
    BY FilesAssumption DEF FilesInit
  <2>2. objects \subseteq {f \in AllFiles : file[f] \in FileRow /\ file[f].where = "bucket"}
    BY FilesAssumption DEF FilesInit
  <2>. QED
    BY <2>1, <2>2 DEF DeskInit, FilesInv, FilesTyped, FileCall, RowIsNext, Idle
<1>2. FilesInv /\ [FilesNext]_<<desk, vault>> => FilesInv'
  <2>. SUFFICES ASSUME FilesInv, [FilesNext]_<<desk, vault>> PROVE FilesInv'
    OBVIOUS
  <2>1. ASSUME NEW s \in Slots, Rejected(s), UNCHANGED vault PROVE FilesInv'
    BY <2>1, FilesAnswer DEF Rejected, vault
  <2>2. ASSUME NEW s \in Slots, FileStep(s) PROVE FilesInv'
    BY <2>2, InsertMediaKeeps, ServeMediaKeeps, DeletionKeeps DEF FileStep
  <2>3. CASE Configure \/ UNCHANGED <<desk, vault>>
    BY <2>3 DEF Configure, desk, vault, FilesInv, FilesTyped
  <2>. QED
    BY <2>1, <2>2, <2>3, FileRequestsKeep DEF FilesNext
<1>3. FilesInv => ObjectsHaveRows
  BY FilesAssumption DEF FilesInv, ObjectsHaveRows, IsRow
<1>. QED
  BY <1>1, <1>2, <1>3, PTL DEF FilesSpec

-----------------------------------------------------------------------------
(* Links of products *)

CatalogueNext ==
    \/ \E s \in Slots : ((CatalogueRequests(s) \/ Rejected(s)) /\ UNCHANGED shop) \/ CatalogueStep(s)
    \/ \E p \in Products : Sell(p) \/ Lapse(p)

\* The catalogue on its own, as in its scene of MCContent.
CatalogueSpec == DeskInit(0) /\ CatalogueInit /\ [][CatalogueNext]_<<desk, shop>>

IsTodo(prices) == prices \in Seq(PriceInput) /\ prices # <<>>

\* A creation has a price left to insert.
Creation(c) ==
    /\ \/ /\ c = [op |-> "product.create", id |-> c.id, slug |-> c.slug, todo |-> c.todo, alone |-> c.alone, pc |-> c.pc]
          /\ c.slug \in ProductSlugs
       \/ c = [op |-> "price.create", id |-> c.id, todo |-> c.todo, alone |-> c.alone, pc |-> c.pc]
    /\ IsTodo(c.todo) /\ c.alone \in BOOLEAN

Change(c) ==
    /\ c = [op |-> "product.update", id |-> c.id, slug |-> c.slug, active |-> c.active, pc |-> c.pc]
    /\ c.slug \in ProductSlugs \cup {Void} /\ c.active \in BOOLEAN \cup {Void}

Known(all, p) == p \in Products /\ all[p] # Void

\* Whoever is alone in having seen no link still sees none.
LinkIsFree(all, c) == c.pc = "link" /\ c.alone => all[c.id].link[Head(c.todo).mode] = Void

CallOk(all, c) ==
    \/ c = Idle
    \/ Creation(c) /\ (c.pc \notin {"find", "product"} => Known(all, c.id)) /\ LinkIsFree(all, c)
    \/ Change(c) /\ Known(all, c.id)
    \/ c = [op |-> "product.deactivate", id |-> c.id, pc |-> c.pc] /\ Known(all, c.id)
    \/ c.op \in {"price.update", "price.delete"}

CatalogueInv ==
    /\ product \in [Products -> {Void} \cup ProductRow]
    /\ call = [s \in Slots |-> call[s]]
    /\ \A s \in Slots : CallOk(product, call[s])

\* Products stay, with their links.
KeepsLinks(old, new) ==
    /\ new \in [Products -> {Void} \cup ProductRow]
    /\ \A p \in Products : old[p] # Void => new[p] # Void /\ new[p].link = old[p].link

LEMMA SameLinks == ASSUME CatalogueInv PROVE KeepsLinks(product, product)
BY DEF CatalogueInv, KeepsLinks

LEMMA CallStaysOk ==
    ASSUME NEW old, NEW new, KeepsLinks(old, new), NEW c, CallOk(old, c) PROVE CallOk(new, c)
<1>1. \A p : Known(old, p) => Known(new, p) /\ new[p].link = old[p].link
  BY DEF KeepsLinks, Known
<1>. QED
  BY <1>1 DEF CallOk, LinkIsFree

LEMMA CatalogueMoves ==
    ASSUME CatalogueInv, KeepsLinks(product, product'), NEW s \in Slots, NEW c,
           call' = [call EXCEPT ![s] = c], CallOk(product', c)
    PROVE  CatalogueInv'
<1>1. /\ call' = [t \in Slots |-> call'[t]]
      /\ \A t \in Slots : call'[t] = call[t] \/ call'[t] = c
  BY DEF CatalogueInv
<1>2. \A t \in Slots : CallOk(product', call'[t])
  BY <1>1, CallStaysOk DEF CatalogueInv
<1>. QED
  BY <1>1, <1>2 DEF CatalogueInv, KeepsLinks

\* What a slot goes on to be.
Goes(s) == KeepsLinks(product, product') /\ \E c : call' = [call EXCEPT ![s] = c] /\ CallOk(product', c)

LEMMA IdleIsOk == \A all : CallOk(all, Idle)
BY DEF CallOk

\* A creation goes on: to another await, with a product, with other prices to
\* insert, or having lost, or seen, that it is alone.
AtPc(c, x) == [c EXCEPT !.pc = x]
WithId(c, x) == [c EXCEPT !.id = x]
WithTodo(c, x) == [c EXCEPT !.todo = x]
WithAlone(c, x) == [c EXCEPT !.alone = x]

LEMMA CreationFields ==
    ASSUME NEW c, Creation(c)
    PROVE  /\ c # Idle
           /\ \A x : /\ Creation(AtPc(c, x)) /\ AtPc(c, x).op = c.op /\ AtPc(c, x).id = c.id
                    /\ AtPc(c, x).todo = c.todo /\ AtPc(c, x).alone = c.alone /\ AtPc(c, x).pc = x
           /\ \A x : /\ Creation(WithId(c, x)) /\ WithId(c, x).op = c.op /\ WithId(c, x).id = x
                    /\ WithId(c, x).todo = c.todo /\ WithId(c, x).alone = c.alone /\ WithId(c, x).pc = c.pc
           /\ \A x : IsTodo(x) =>
                    /\ Creation(WithTodo(c, x)) /\ WithTodo(c, x).op = c.op /\ WithTodo(c, x).id = c.id
                    /\ WithTodo(c, x).todo = x /\ WithTodo(c, x).alone = c.alone /\ WithTodo(c, x).pc = c.pc
           /\ \A x \in BOOLEAN :
                    /\ Creation(WithAlone(c, x)) /\ WithAlone(c, x).op = c.op /\ WithAlone(c, x).id = c.id
                    /\ WithAlone(c, x).todo = c.todo /\ WithAlone(c, x).alone = x /\ WithAlone(c, x).pc = c.pc
<1>1. CASE /\ c = [op |-> "product.create", id |-> c.id, slug |-> c.slug, todo |-> c.todo, alone |-> c.alone, pc |-> c.pc]
           /\ c.slug \in ProductSlugs
  <2>1. ASSUME NEW x PROVE AtPc(c, x) = [op |-> "product.create", id |-> c.id, slug |-> c.slug, todo |-> c.todo, alone |-> c.alone, pc |-> x]
    BY <1>1 DEF AtPc
  <2>2. ASSUME NEW x PROVE WithId(c, x) = [op |-> "product.create", id |-> x, slug |-> c.slug, todo |-> c.todo, alone |-> c.alone, pc |-> c.pc]
    BY <1>1 DEF WithId
  <2>3. ASSUME NEW x PROVE WithTodo(c, x) = [op |-> "product.create", id |-> c.id, slug |-> c.slug, todo |-> x, alone |-> c.alone, pc |-> c.pc]
    BY <1>1 DEF WithTodo
  <2>4. ASSUME NEW x PROVE WithAlone(c, x) = [op |-> "product.create", id |-> c.id, slug |-> c.slug, todo |-> c.todo, alone |-> x, pc |-> c.pc]
    BY <1>1 DEF WithAlone
  <2>. QED
    BY <1>1, <2>1, <2>2, <2>3, <2>4 DEF Creation, Idle
<1>2. CASE c = [op |-> "price.create", id |-> c.id, todo |-> c.todo, alone |-> c.alone, pc |-> c.pc]
  <2>1. ASSUME NEW x PROVE AtPc(c, x) = [op |-> "price.create", id |-> c.id, todo |-> c.todo, alone |-> c.alone, pc |-> x]
    BY <1>2 DEF AtPc
  <2>2. ASSUME NEW x PROVE WithId(c, x) = [op |-> "price.create", id |-> x, todo |-> c.todo, alone |-> c.alone, pc |-> c.pc]
    BY <1>2 DEF WithId
  <2>3. ASSUME NEW x PROVE WithTodo(c, x) = [op |-> "price.create", id |-> c.id, todo |-> x, alone |-> c.alone, pc |-> c.pc]
    BY <1>2 DEF WithTodo
  <2>4. ASSUME NEW x PROVE WithAlone(c, x) = [op |-> "price.create", id |-> c.id, todo |-> c.todo, alone |-> x, pc |-> c.pc]
    BY <1>2 DEF WithAlone
  <2>. QED
    BY <1>2, <2>1, <2>2, <2>3, <2>4 DEF Creation, Idle
<1>. QED
  BY <1>1, <1>2 DEF Creation

\* A creation goes on with its next price, or is done.
LEMMA NextPriceIsOk ==
    ASSUME NEW all, NEW c, Creation(c), Known(all, c.id) PROVE CallOk(all, NextPrice(c))
<1>1. CASE Len(c.todo) = 1
  BY <1>1, IdleIsOk DEF NextPrice
<1>2. CASE Len(c.todo) # 1
  <2>. PICK rest : rest = Tail(c.todo)
    OBVIOUS
  <2>. PICK d : d = AtPc(c, "insert")
    OBVIOUS
  <2>. PICK e : e = WithTodo(d, rest)
    OBVIOUS
  <2>1. IsTodo(rest)
    <3>1. c.todo \in Seq(PriceInput) /\ c.todo # <<>>
      BY DEF Creation, IsTodo
    <3>2. Len(c.todo) \in Nat \ {0}
      BY <3>1, EmptySeq, Zenon
    <3>3. rest \in Seq(PriceInput) /\ Len(rest) = Len(c.todo) - 1
      BY <3>1, HeadTailProperties, Zenon
    <3>4. Len(rest) # 0
      BY <1>2, <3>2, <3>3
    <3>. QED
      BY <3>3, <3>4, EmptySeq DEF IsTodo
  <2>2. Creation(d) /\ d.id = c.id /\ d.todo = c.todo /\ d.pc = "insert"
    BY CreationFields
  <2>3. Creation(e) /\ e.id = c.id /\ e.pc = "insert"
    BY <2>1, <2>2, CreationFields
  <2>4. NextPrice(c) = e
    <3>1. [d EXCEPT !.todo = Tail(c.todo)] = e
      BY DEF WithTodo
    <3>2. [c EXCEPT !.pc = "insert"] = d
      BY DEF AtPc
    <3>3. [c EXCEPT !.pc = "insert", !.todo = Tail(c.todo)] = e
      BY <3>1, <3>2
    <3>. QED
      BY <1>2, <3>3 DEF NextPrice
  <2>. QED
    BY <2>3, <2>4 DEF CallOk, LinkIsFree
<1>. QED
  BY <1>1, <1>2

\* What a step of a request makes of it.
LEMMA GoesOn ==
    ASSUME NEW s, NEW c, call' = [call EXCEPT ![s] = c], CallOk(product', c), KeepsLinks(product, product')
    PROVE  Goes(s)
BY DEF Goes

LEMMA CatalogueAnswers ==
    ASSUME CatalogueInv, NEW s, call' = [call EXCEPT ![s] = Idle], UNCHANGED product
    PROVE  Goes(s)
BY GoesOn, IdleIsOk, SameLinks

LEMMA ProductRequestsGo ==
    ASSUME CatalogueInv, NEW s \in Slots, ProductRequests(s), UNCHANGED shop PROVE Goes(s)
<1>1. ASSUME NEW c, CallOk(product, c), Begin(s, c) PROVE Goes(s)
  BY <1>1, GoesOn, SameLinks DEF Begin, shop
<1>2. ASSUME NEW new \in NewProducts,
             Begin(s, [op |-> "product.create", id |-> Void, slug |-> new.slug, todo |-> new.prices,
                       alone |-> TRUE, pc |-> "find"])
      PROVE  Goes(s)
  <2>. PICK c : c = [op |-> "product.create", id |-> Void, slug |-> new.slug, todo |-> new.prices,
                     alone |-> TRUE, pc |-> "find"]
    OBVIOUS
  <2>1. new.slug \in ProductSlugs /\ new.prices \in {<<i>> : i \in PriceInput} \cup (Picked \X Picked)
    BY DEF NewProducts
  <2>2. IsTodo(new.prices)
    <3>1. ASSUME NEW i \in PriceInput PROVE IsTodo(<<i>>)
      BY DEF IsTodo
    <3>2. ASSUME NEW i \in PriceInput, NEW j \in PriceInput PROVE IsTodo(<<i, j>>)
      BY DEF IsTodo
    <3>. QED
      BY <2>1, <3>1, <3>2 DEF Picked
  <2>3. Creation(c) /\ c.pc = "find"
    BY <2>1, <2>2 DEF Creation
  <2>4. CallOk(product, c)
    BY <2>3 DEF CallOk, LinkIsFree
  <2>. QED
    BY <1>1, <1>2, <2>4
<1>3. ASSUME NEW p \in Products, IsProduct(p), NEW new \in ProductChanges,
             Begin(s, [op |-> "product.update", id |-> p, slug |-> new.slug, active |-> new.active, pc |-> "find"])
      PROVE  Goes(s)
  <2>. PICK c : c = [op |-> "product.update", id |-> p, slug |-> new.slug, active |-> new.active, pc |-> "find"]
    OBVIOUS
  <2>1. Change(c) /\ Known(product, c.id)
    BY <1>3 DEF Change, Known, IsProduct, ProductChanges
  <2>. QED
    BY <1>1, <1>3, <2>1 DEF CallOk
<1>4. ASSUME NEW p \in Products, IsProduct(p), Begin(s, [op |-> "product.deactivate", id |-> p, pc |-> "count"])
      PROVE  Goes(s)
  <2>. PICK c : c = [op |-> "product.deactivate", id |-> p, pc |-> "count"]
    OBVIOUS
  <2>1. c = [op |-> "product.deactivate", id |-> c.id, pc |-> c.pc] /\ Known(product, c.id)
    BY <1>4 DEF Known, IsProduct
  <2>. QED
    BY <1>1, <1>4, <2>1 DEF CallOk
<1>. QED
  BY <1>2, <1>3, <1>4 DEF ProductRequests

LEMMA PriceRequestsGo ==
    ASSUME CatalogueInv, NEW s \in Slots, PriceRequests(s), UNCHANGED shop PROVE Goes(s)
<1>1. ASSUME NEW c, CallOk(product, c), Begin(s, c) PROVE Goes(s)
  BY <1>1, GoesOn, SameLinks DEF Begin, shop
<1>2. ASSUME NEW p \in Products, IsProduct(p), NEW i \in PriceInput,
             Begin(s, [op |-> "price.create", id |-> p, todo |-> <<i>>, alone |-> TRUE, pc |-> "insert"])
      PROVE  Goes(s)
  <2>. PICK todo : todo = <<i>>
    OBVIOUS
  <2>. PICK c : c = [op |-> "price.create", id |-> p, todo |-> todo, alone |-> TRUE, pc |-> "insert"]
    OBVIOUS
  <2>1. IsTodo(todo)
    BY DEF IsTodo
  <2>2. Creation(c) /\ Known(product, c.id) /\ c.pc = "insert"
    BY <1>2, <2>1 DEF Creation, Known, IsProduct
  <2>3. CallOk(product, c)
    BY <2>2 DEF CallOk, LinkIsFree
  <2>. QED
    BY <1>1, <1>2, <2>3
<1>3. ASSUME NEW k, NEW mode,
             Begin(s, [op |-> "price.update", id |-> k, mode |-> mode, pc |-> "write"])
      PROVE  Goes(s)
  <2>. PICK c : c = [op |-> "price.update", id |-> k, mode |-> mode, pc |-> "write"]
    OBVIOUS
  <2>1. CallOk(product, c)
    BY DEF CallOk
  <2>. QED
    BY <1>1, <1>3, <2>1
<1>4. ASSUME NEW k, Begin(s, [op |-> "price.delete", id |-> k, pc |-> "write"])
      PROVE  Goes(s)
  <2>. PICK c : c = [op |-> "price.delete", id |-> k, pc |-> "write"]
    OBVIOUS
  <2>1. CallOk(product, c)
    BY DEF CallOk
  <2>. QED
    BY <1>1, <1>4, <2>1
<1>. QED
  BY <1>2, <1>3, <1>4 DEF PriceRequests

\* The request of a slot, by what it does.
LEMMA CallByOp ==
    ASSUME CatalogueInv, NEW s \in Slots
    PROVE  /\ call[s].op \in {"product.create", "price.create"} => Creation(call[s])
           /\ call[s].op \in {"product.create", "price.create"} =>
                 (call[s].pc \notin {"find", "product"} => Known(product, call[s].id)) /\ LinkIsFree(product, call[s])
           /\ call[s].op = "product.update" => Change(call[s]) /\ Known(product, call[s].id)
           /\ call[s].op = "product.deactivate" =>
                 /\ call[s] = [op |-> "product.deactivate", id |-> call[s].id, pc |-> call[s].pc]
                 /\ Known(product, call[s].id)
<1>. PICK c : c = call[s]
  OBVIOUS
<1>1. CallOk(product, c)
  BY DEF CatalogueInv
<1>2. Change(c) => c.op = "product.update"
  BY DEF Change
<1>3. Creation(c) => c.op \in {"product.create", "price.create"}
  BY DEF Creation
<1>. QED
  BY <1>1, <1>2, <1>3 DEF CallOk, Idle

LEMMA CreationGoes ==
    ASSUME CatalogueInv, NEW s \in Slots, FindSlug(s) \/ CreateProduct(s) \/ InsertPrice(s) \/ LookProduct(s)
    PROVE  Goes(s)
<1>. PICK c : c = call[s]
  OBVIOUS
<1>1. Creation(c)
  BY CallByOp DEF FindSlug, CreateProduct, InsertPrice, LookProduct, Creating, At
<1>2. CASE call' = [call EXCEPT ![s] = Idle] /\ UNCHANGED product
  BY <1>2, CatalogueAnswers
<1>3. CASE FindSlug(s) /\ ~(call' = [call EXCEPT ![s] = Idle])
  <2>1. call' = [call EXCEPT ![s] = AtPc(c, "product")] /\ UNCHANGED product
    BY <1>3 DEF FindSlug, Await, Answer, AtPc, shop
  <2>2. CallOk(product, AtPc(c, "product"))
    BY <1>1, CreationFields DEF CallOk, LinkIsFree
  <2>. QED
    BY <2>1, <2>2, SameLinks, GoesOn
<1>4. CASE CreateProduct(s) /\ ~(call' = [call EXCEPT ![s] = Idle] /\ UNCHANGED product)
  <2>1. PICK p \in Products :
          /\ product[p] = Void
          /\ product' = [product EXCEPT ![p] = NewProduct(c.slug)]
          /\ call' = [call EXCEPT ![s] = [c EXCEPT !.pc = "insert", !.id = p]]
    BY <1>4 DEF CreateProduct, Await, Answer, IsProduct
  <2>. PICK d : d = AtPc(c, "insert")
    OBVIOUS
  <2>. PICK e : e = WithId(d, p)
    OBVIOUS
  <2>2. Creation(e) /\ e.id = p /\ e.pc = "insert"
    BY <1>1, CreationFields
  <2>3. [c EXCEPT !.pc = "insert", !.id = p] = e
    <3>1. [d EXCEPT !.id = p] = e
      BY DEF WithId
    <3>2. [c EXCEPT !.pc = "insert"] = d
      BY DEF AtPc
    <3>. QED
      BY <3>1, <3>2
  <2>4. c.slug \in ProductSlugs
    <3>1. c.op = "product.create"
      BY <1>4 DEF CreateProduct, At
    <3>. QED
      BY <1>1, <3>1 DEF Creation
  <2>5. NewProduct(c.slug) \in ProductRow
    BY <2>4 DEF NewProduct, ProductRow
  <2>6. KeepsLinks(product, product') /\ product'[p] # Void
    BY <2>1, <2>5, CatalogueAssumption DEF KeepsLinks, CatalogueInv
  <2>7. CallOk(product', e)
    BY <2>2, <2>6 DEF CallOk, LinkIsFree, Known
  <2>8. call' = [call EXCEPT ![s] = e]
    BY <2>1, <2>3
  <2>. QED
    BY <2>6, <2>7, <2>8, GoesOn
<1>5. CASE InsertPrice(s)
  <2>1. Known(product, c.id)
    BY <1>5, CallByOp DEF InsertPrice, Creating, At
  <2>2. UNCHANGED product /\ \/ call' = [call EXCEPT ![s] = NextPrice(c)]
                             \/ call' = [call EXCEPT ![s] = AtPc(c, "look")]
    BY <1>5 DEF InsertPrice, Await, AtPc
  <2>3. CallOk(product, AtPc(c, "look"))
    BY <1>1, <2>1, CreationFields DEF CallOk, LinkIsFree
  <2>. QED
    BY <1>1, <2>1, <2>2, <2>3, NextPriceIsOk, SameLinks, GoesOn
<1>6. CASE LookProduct(s)
  <2>1. Known(product, c.id) /\ UNCHANGED product
    BY <1>6, CallByOp DEF LookProduct, Creating, At, shop
  <2>2. CASE call' = [call EXCEPT ![s] = NextPrice(c)]
    BY <1>1, <2>1, <2>2, NextPriceIsOk, SameLinks, GoesOn
  <2>3. CASE /\ call' = [call EXCEPT ![s] = [c EXCEPT !.pc = "link", !.alone = TRUE]]
             /\ product[c.id].link[Head(c.todo).mode] = Void
    <3>. PICK d : d = AtPc(c, "link")
      OBVIOUS
    <3>. PICK yes \in BOOLEAN : yes = TRUE
      OBVIOUS
    <3>. PICK e : e = WithAlone(d, yes)
      OBVIOUS
    <3>1. Creation(d) /\ d.id = c.id /\ d.todo = c.todo /\ d.pc = "link"
      BY <1>1, CreationFields
    <3>2. Creation(e) /\ e.id = c.id /\ e.todo = c.todo
      <4>1. \A x \in BOOLEAN :
               Creation(WithAlone(d, x)) /\ WithAlone(d, x).id = d.id /\ WithAlone(d, x).todo = d.todo
        BY <3>1, CreationFields, Zenon
      <4>. QED
        BY <3>1, <4>1, Zenon
    <3>3. [c EXCEPT !.pc = "link", !.alone = yes] = e
      <4>1. [d EXCEPT !.alone = yes] = e
        BY DEF WithAlone
      <4>2. [c EXCEPT !.pc = "link"] = d
        BY DEF AtPc
      <4>. QED
        BY <4>1, <4>2
    <3>4. CallOk(product, e)
      BY <2>1, <2>3, <3>2 DEF CallOk, LinkIsFree
    <3>5. call' = [call EXCEPT ![s] = e]
      BY <2>3, <3>3
    <3>. QED
      BY <2>1, <3>4, <3>5, SameLinks, GoesOn
  <2>. QED
    BY <1>6, <2>2, <2>3 DEF LookProduct, Await, Unlinked
<1>. QED
  BY <1>2, <1>3, <1>4, <1>5, <1>6 DEF FindSlug, shop

LEMMA ChangeGoes ==
    ASSUME CatalogueInv, NEW s \in Slots, FindProduct(s) \/ FindOther(s) \/ WriteProduct(s) PROVE Goes(s)
<1>. PICK c : c = call[s]
  OBVIOUS
<1>1. /\ c = [op |-> "product.update", id |-> c.id, slug |-> c.slug, active |-> c.active, pc |-> c.pc]
      /\ c.slug \in ProductSlugs \cup {Void} /\ c.active \in BOOLEAN \cup {Void}
      /\ c.id \in Products /\ product[c.id] # Void
  BY CallByOp DEF FindProduct, FindOther, WriteProduct, At, Change, Known
<1>2. CASE call' = [call EXCEPT ![s] = Idle] /\ UNCHANGED product
  BY <1>2, CatalogueAnswers
<1>3. ASSUME NEW pc, call' = [call EXCEPT ![s] = [c EXCEPT !.pc = pc]], UNCHANGED product PROVE Goes(s)
  <2>. PICK d : d = [op |-> "product.update", id |-> c.id, slug |-> c.slug, active |-> c.active, pc |-> pc]
    OBVIOUS
  <2>1. [c EXCEPT !.pc = pc] = d
    BY <1>1
  <2>2. CallOk(product, d)
    BY <1>1 DEF CallOk, Change, Known
  <2>. QED
    BY <1>3, <2>1, <2>2, SameLinks, GoesOn
<1>4. CASE WriteProduct(s)
  <2>. PICK p : p = c.id
    OBVIOUS
  <2>. PICK row \in ProductRow : row = product[p]
    BY <1>1 DEF CatalogueInv
  <2>. PICK slug : slug = IF c.slug = Void THEN row.slug ELSE c.slug
    OBVIOUS
  <2>. PICK shown : shown = IF c.active = Void THEN row.active ELSE c.active
    OBVIOUS
  <2>1. slug \in ProductSlugs /\ shown \in BOOLEAN
    BY <1>1 DEF ProductRow
  <2>. PICK wide : wide = [row EXCEPT !.slug = slug]
    OBVIOUS
  <2>. PICK new : new = [wide EXCEPT !.active = shown]
    OBVIOUS
  <2>2. wide \in ProductRow /\ wide.link = row.link
    BY <2>1 DEF ProductRow
  <2>3. new \in ProductRow /\ new.link = row.link
    BY <2>1, <2>2 DEF ProductRow
  <2>4. [row EXCEPT !.slug = slug, !.active = shown] = new
    OBVIOUS
  <2>5. /\ call' = [call EXCEPT ![s] = Idle]
        /\ product' = [product EXCEPT ![p] = new] \/ product' = [product EXCEPT ![p] = row]
    BY <1>4, <2>4 DEF WriteProduct, Answer, Await
  <2>. PICK written \in ProductRow : written.link = row.link /\ product' = [product EXCEPT ![p] = written]
    BY <2>3, <2>5
  <2>6. product \in [Products -> {Void} \cup ProductRow] /\ p \in Products /\ written # Void
    BY <1>1, CatalogueAssumption DEF CatalogueInv
  <2>7. KeepsLinks(product, product')
    BY <2>6 DEF KeepsLinks
  <2>8. call' = [call EXCEPT ![s] = Idle] /\ CallOk(product', Idle)
    BY <2>5, IdleIsOk
  <2>. QED
    BY <2>7, <2>8, GoesOn
<1>5. CASE (FindProduct(s) \/ FindOther(s)) /\ ~(call' = [call EXCEPT ![s] = Idle] /\ UNCHANGED product)
  <2>1. PICK pc : call' = [call EXCEPT ![s] = [c EXCEPT !.pc = pc]] /\ UNCHANGED product
    BY <1>5 DEF FindProduct, FindOther, Await, Answer, shop
  <2>. QED
    BY <1>3, <2>1
<1>. QED
  BY <1>2, <1>4, <1>5

LEMMA OtherStepsGo ==
    ASSUME CatalogueInv, NEW s \in Slots,
           CountPurchases(s) \/ Deactivate(s) \/ UpdatePrice(s) \/ DeletePrice(s)
    PROVE  Goes(s)
<1>. PICK c : c = call[s]
  OBVIOUS
<1>1. CASE call' = [call EXCEPT ![s] = Idle] /\ UNCHANGED product
  BY <1>1, CatalogueAnswers
<1>2. CASE CountPurchases(s) /\ ~(call' = [call EXCEPT ![s] = Idle] /\ UNCHANGED product)
  <2>. PICK d : d = [op |-> "product.deactivate", id |-> c.id, pc |-> "write"]
    OBVIOUS
  <2>1. call' = [call EXCEPT ![s] = [c EXCEPT !.pc = "write"]] /\ UNCHANGED product
    BY <1>2 DEF CountPurchases, Await, Answer, shop
  <2>2. c = [op |-> "product.deactivate", id |-> c.id, pc |-> c.pc] /\ Known(product, c.id)
    BY <1>2, CallByOp DEF CountPurchases, At
  <2>3. [c EXCEPT !.pc = "write"] = d
    BY <2>2
  <2>4. CallOk(product, d)
    BY <2>2 DEF CallOk
  <2>. QED
    BY <2>1, <2>3, <2>4, SameLinks, GoesOn
<1>3. CASE Deactivate(s)
  <2>. PICK p : p = c.id
    OBVIOUS
  <2>1. Known(product, p)
    BY <1>3, CallByOp DEF Deactivate, At
  <2>. PICK row \in ProductRow : row = product[p]
    BY <2>1 DEF CatalogueInv, Known
  <2>. PICK new : new = [row EXCEPT !.active = FALSE]
    OBVIOUS
  <2>2. new \in ProductRow /\ new.link = row.link
    BY DEF ProductRow
  <2>3. call' = [call EXCEPT ![s] = Idle] /\ product' = [product EXCEPT ![p] = new]
    BY <1>3 DEF Deactivate, Answer, Await
  <2>4. KeepsLinks(product, product')
    BY <2>1, <2>2, <2>3, CatalogueAssumption DEF KeepsLinks, CatalogueInv, Known
  <2>. QED
    BY <2>3, <2>4, IdleIsOk, GoesOn
<1>4. CASE UpdatePrice(s) \/ DeletePrice(s)
  BY <1>1, <1>4 DEF UpdatePrice, DeletePrice, Answer, Await
<1>. QED
  BY <1>1, <1>2, <1>3, <1>4 DEF CountPurchases, Answer, Await, shop

\* A link is written: to where none was seen, unless another was faster; and
\* whoever else has looked at it is no longer alone.
LEMMA LinkKeeps ==
    ASSUME CatalogueInv, NEW s \in Slots, LinkProduct(s)
    PROVE  /\ CatalogueInv'
           /\ call[s].id \in Products /\ Creating(s, "link")
           /\ \A p \in Products : product[p] # Void =>
                 \/ product'[p].link = product[p].link
                 \/ /\ p = call[s].id
                    /\ \A m \in Modes : m # Head(call[s].todo).mode => product'[p].link[m] = product[p].link[m]
                    /\ call[s].alone => product[p].link[Head(call[s].todo).mode] = Void
<1>. PICK c : c = call[s]
  OBVIOUS
<1>. PICK p : p = c.id
  OBVIOUS
<1>. PICK i : i = Head(c.todo)
  OBVIOUS
<1>1. Creating(s, "link") /\ Creation(c) /\ Known(product, p) /\ LinkIsFree(product, c) /\ c.pc = "link"
  BY CallByOp DEF LinkProduct, Creating, At
<1>2. i \in PriceInput
  <2>1. c.todo \in Seq(PriceInput) /\ c.todo # <<>>
    BY <1>1 DEF Creation, IsTodo
  <2>. QED
    BY <2>1, HeadTailProperties, Zenon
<1>. PICK row \in ProductRow : row = product[p]
  BY <1>1 DEF CatalogueInv, Known
<1>. PICK link : link = [row.link EXCEPT ![i.mode] = i.external]
  OBVIOUS
<1>. PICK new : new = [row EXCEPT !.link = link]
  OBVIOUS
<1>3. link \in [Modes -> {Void} \cup External]
  BY <1>2 DEF PriceInput, ProductRow
<1>4. new \in ProductRow /\ new.link = link
  BY <1>3 DEF ProductRow
<1>5. product' = [product EXCEPT ![p] = new]
  BY DEF LinkProduct
<1>6. /\ product' \in [Products -> {Void} \cup ProductRow]
      /\ \A q \in Products : product'[q] = IF q = p THEN new ELSE product[q]
  BY <1>1, <1>4, <1>5 DEF CatalogueInv, Known
<1>7. \A q : Known(product, q) => Known(product', q)
  BY <1>4, <1>6, CatalogueAssumption DEF Known
<1>8. /\ call' = [t \in Slots |-> call'[t]]
      /\ call'[s] = NextPrice(c)
      /\ \A t \in Slots \ {s} : call'[t] = IF Creating(t, "link") /\ SameLink(call[t], c)
                                           THEN [call[t] EXCEPT !.alone = FALSE] ELSE call[t]
  BY DEF LinkProduct
<1>9. \A t \in Slots : CallOk(product', call'[t])
  <2>. SUFFICES ASSUME NEW t \in Slots PROVE CallOk(product', call'[t])
    OBVIOUS
  <2>. PICK d : d = call[t]
    OBVIOUS
  <2>1. CASE t = s
    BY <1>1, <1>7, <1>8, <2>1, NextPriceIsOk
  <2>2. CASE t # s /\ Creating(t, "link") /\ SameLink(d, c)
    <3>. PICK no \in BOOLEAN : no = FALSE
      OBVIOUS
    <3>. PICK e : e = WithAlone(d, no)
      OBVIOUS
    <3>1. Creation(d) /\ Known(product, d.id) /\ d.pc = "link"
      BY <2>2, CallByOp DEF Creating, At
    <3>2. Creation(e) /\ e.id = d.id /\ ~e.alone
      BY <3>1, CreationFields
    <3>3. CallOk(product', e)
      BY <1>7, <3>1, <3>2 DEF CallOk, LinkIsFree
    <3>4. call'[t] = e
      BY <1>8, <2>2 DEF WithAlone
    <3>. QED
      BY <3>3, <3>4
  <2>3. CASE t # s /\ ~(Creating(t, "link") /\ SameLink(d, c))
    <3>1. call'[t] = d /\ CallOk(product, d)
      BY <1>8, <2>3 DEF CatalogueInv
    <3>2. CASE Creation(d) /\ d.pc = "link"
      <4>1. d.op \in {"product.create", "price.create"}
        BY <3>2 DEF Creation
      <4>2. d.id # p \/ Head(d.todo).mode # i.mode
        BY <2>3, <3>2, <4>1 DEF Creating, At, SameLink
      <4>3. Head(d.todo) \in PriceInput
        <5>1. d.todo \in Seq(PriceInput) /\ d.todo # <<>>
          BY <3>2 DEF Creation, IsTodo
        <5>. QED
          BY <5>1, HeadTailProperties, Zenon
      <4>4. Known(product, d.id) /\ LinkIsFree(product, d)
        BY <3>2, <4>1, CallByOp
      <4>5. LinkIsFree(product', d)
        <5>. PICK j \in PriceInput : j = Head(d.todo)
          BY <4>3
        <5>. PICK q \in Products : q = d.id
          BY <4>4 DEF Known
        <5>1. CASE q # p
          BY <1>6, <4>4, <5>1 DEF LinkIsFree
        <5>2. CASE q = p
          <6>1. i.mode \in Modes /\ j.mode \in Modes /\ j.mode # i.mode
            BY <1>2, <4>2, <5>2 DEF PriceInput
          <6>2. product'[q].link[j.mode] = product[q].link[j.mode]
            <7>1. row.link \in [Modes -> {Void} \cup External]
              BY DEF ProductRow
            <7>2. link[j.mode] = row.link[j.mode]
              BY <6>1, <7>1
            <7>. QED
              BY <1>4, <1>6, <5>2, <7>2
          <6>. QED
            BY <4>4, <6>2 DEF LinkIsFree
        <5>. QED
          BY <5>1, <5>2
      <4>. QED
        BY <1>7, <3>1, <3>2, <4>4, <4>5 DEF CallOk
    <3>3. CASE ~(Creation(d) /\ d.pc = "link")
      BY <1>7, <3>1, <3>3 DEF CallOk, LinkIsFree
    <3>. QED
      BY <3>2, <3>3
  <2>. QED
    BY <2>1, <2>2, <2>3
<1>10. CatalogueInv'
  BY <1>6, <1>8, <1>9 DEF CatalogueInv
<1>11. \A m \in Modes : m # i.mode => new.link[m] = row.link[m]
  BY <1>2, <1>4 DEF PriceInput, ProductRow
<1>12. c.alone => row.link[i.mode] = Void
  BY <1>1 DEF LinkIsFree
<1>13. ASSUME NEW q \in Products
       PROVE  \/ product'[q].link = product[q].link
              \/ /\ q = p
                 /\ \A m \in Modes : m # i.mode => product'[q].link[m] = product[q].link[m]
                 /\ c.alone => product[q].link[i.mode] = Void
  <2>1. CASE q = p
    BY <1>6, <1>11, <1>12, <2>1
  <2>2. CASE q # p
    BY <1>6, <2>2
  <2>. QED
    BY <2>1, <2>2
<1>14. p \in Products
  BY <1>1 DEF Known
<1>. QED
  BY <1>1, <1>10, <1>13, <1>14

\* The link by which billing recognises a product stays what it first was,
\* whatever prices are added, changed or deleted; only two creations that both
\* saw no link can end with the later one's.
THEOREM LinksLast == CatalogueSpec => LinkIsKept
<1>1. DeskInit(0) /\ CatalogueInit => CatalogueInv
  <2>. SUFFICES ASSUME DeskInit(0), CatalogueInit PROVE CatalogueInv
    OBVIOUS
  <2>1. \A p \in DOMAIN StartProducts : NewProduct(StartProducts[p]) \in ProductRow
    BY CatalogueAssumption DEF NewProduct, ProductRow
  <2>2. product \in [Products -> {Void} \cup ProductRow]
    BY <2>1 DEF CatalogueInit
  <2>. QED
    BY <2>2, IdleIsOk DEF DeskInit, CatalogueInv
<1>2. ASSUME CatalogueInv, [CatalogueNext]_<<desk, shop>>
      PROVE  \/ UNCHANGED <<product, call>>
             \/ KeepsLinks(product, product') /\ CatalogueInv'
             \/ \E s \in Slots : LinkProduct(s)
  <2>1. ASSUME NEW s \in Slots, Goes(s) PROVE KeepsLinks(product, product') /\ CatalogueInv'
    BY <1>2, <2>1, CatalogueMoves DEF Goes
  <2>2. ASSUME NEW s \in Slots, Rejected(s), UNCHANGED shop PROVE Goes(s)
    BY <1>2, <2>2, CatalogueAnswers DEF Rejected, shop
  <2>3. ASSUME NEW s \in Slots, CatalogueRequests(s), UNCHANGED shop PROVE Goes(s)
    BY <1>2, <2>3, ProductRequestsGo, PriceRequestsGo DEF CatalogueRequests
  <2>4. ASSUME NEW s \in Slots, CatalogueStep(s), ~LinkProduct(s) PROVE Goes(s)
    BY <1>2, <2>4, CreationGoes, ChangeGoes, OtherStepsGo DEF CatalogueStep
  <2>5. ASSUME NEW p \in Products, Sell(p) \/ Lapse(p) PROVE UNCHANGED <<product, call>>
    BY <2>5 DEF Sell, Lapse, Trade
  <2>. QED
    BY <1>2, <2>1, <2>2, <2>3, <2>4, <2>5 DEF CatalogueNext, desk, shop
<1>3. CatalogueInv /\ [CatalogueNext]_<<desk, shop>> => CatalogueInv'
  BY <1>2, LinkKeeps DEF CatalogueInv
<1>4. CatalogueInv /\ [CatalogueNext]_<<desk, shop>>
      => [\A p \in Products, m \in Modes :
             IsProduct(p) /\ product[p].link[m] # Void
             => \/ product'[p].link[m] = product[p].link[m]
                \/ \E s \in Slots : Creating(s, "link") /\ call[s].id = p /\ ~call[s].alone]_<<product, call>>
  <2>. SUFFICES ASSUME CatalogueInv, [CatalogueNext]_<<desk, shop>>, <<product, call>>' # <<product, call>>,
                       NEW p \in Products, NEW m \in Modes, product[p] # Void, product[p].link[m] # Void
                PROVE  \/ product'[p].link[m] = product[p].link[m]
                       \/ \E s \in Slots : Creating(s, "link") /\ call[s].id = p /\ ~call[s].alone
    BY DEF IsProduct
  <2>1. CASE KeepsLinks(product, product')
    BY <2>1 DEF KeepsLinks
  <2>2. ASSUME NEW s \in Slots, LinkProduct(s)
        PROVE  \/ product'[p].link[m] = product[p].link[m]
               \/ Creating(s, "link") /\ call[s].id = p /\ ~call[s].alone
    BY <2>2, LinkKeeps
  <2>. QED
    BY <1>2, <2>1, <2>2
<1>. QED
  BY <1>1, <1>3, <1>4, PTL DEF CatalogueSpec, LinkIsKept

-----------------------------------------------------------------------------
(* The seed *)

\* The seed on its own, as in its scene of MCContent.
SeedSpec == DeskInit(0) /\ SeedInit /\ [][SeedStep]_<<desk, crop>>

Purchase == [env : Envs, user : Envs \cup {Void}, recurring : BOOLEAN, live : BOOLEAN]
Price == [env : Envs, product : Envs \cup {Void}, label : BOOLEAN]

LiveIn(all, e) == {i \in DOMAIN all : all[i].env = e /\ all[i].user = e /\ all[i].recurring /\ all[i].live}
RecurringIn(all, e) == {i \in DOMAIN all : all[i].user = e /\ all[i].recurring}
EntitlingIn(ent, all, e) == {m \in ent : m.env = e /\ m.of \in RecurringIn(all, e)}
LabelledIn(prices, e) == {i \in DOMAIN prices : prices[i].env = e /\ prices[i].product = e /\ prices[i].label}

\* The environment of a run.
Aim(run, env) == IF env = Void THEN run.launched ELSE env

\* What a run has reached in its environment e, if nothing interfered: it holds
\* the ids of that environment, from the cancellation on no subscription but its
\* own lives, from the clearing on none but its own entitles, and the prices of
\* the label are those it met until it adds one if there are none.
Standing(run, e, all, ent, prices) ==
    /\ run.at >= 3 => run.product = e
    /\ run.at >= 6 => run.user = e
    /\ run.at = 7 => LiveIn(all, e) = {}
    /\ run.at >= 8 => LiveIn(all, e) = {run.id}
    /\ run.at = 9 => EntitlingIn(ent, all, e) = {}
    /\ run.at >= 10 => EntitlingIn(ent, all, e) = {[env |-> e, of |-> run.id]}
    /\ run.at <= 12 => LabelledIn(prices, e) = run.had
    /\ run.at >= 13 => IF run.had = {} THEN \E i : LabelledIn(prices, e) = {i}
                       ELSE LabelledIn(prices, e) = run.had

Reached(run, env, all, ent, prices) ==
    /\ run.at >= 2 => env \in Envs
    /\ run.calm => Standing(run, Aim(run, env), all, ent, prices)

Run == [launched : Envs, env : Envs \cup {Void}, at : 1..18, user : Envs \cup {Void}, product : Envs \cup {Void},
        id : {Void} \cup Nat, had : SUBSET Nat, calm : BOOLEAN]

SeedInv ==
    /\ config \in {Void} \cup Envs
    /\ bought \in Seq(Purchase) /\ priced \in Seq(Price)
    /\ seed = Void \/ (seed \in Run /\ Reached(seed, config, bought, entitled, priced))

\* The steps the invariant tells apart, by their numbers.
LEMMA StepNumbers ==
    /\ Len(Steps) = 18
    /\ \A n \in 1..18 : /\ Steps[n] = "config" => n = 1
                        /\ Steps[n] = "products" => n = 2
                        /\ Steps[n] = "user" => n = 5
                        /\ Steps[n] = "cancel" => n = 6
                        /\ Steps[n] = "buy" => n = 7
                        /\ Steps[n] = "clear" => n = 8
                        /\ Steps[n] = "grant" => n = 9
                        /\ Steps[n] = "prices" => n = 12
                        /\ Steps[n] = "admin" => n = 4
                        /\ Steps[n] \in Tables \cup {"file"} => n \notin {1, 6, 7, 8, 9, 12}
                        /\ Steps[n] \in (Tables \cup {"file"}) \ {"products", "user"} => n \notin {2, 5}
BY DEF Steps, Tables

LEMMA SameSets ==
    /\ \A e : Live(e, e) = LiveIn(bought, e)
    /\ \A e : Recurring(e) = RecurringIn(bought, e)
    /\ \A e : Labelled(e, e) = LabelledIn(priced, e)
BY DEF Recurring, Of, Live, Labelled, RecurringIn, LiveIn, LabelledIn

\* A run and its next state: one step further, with the ids it holds.
Follows(run, next) ==
    /\ next \in Run /\ next.at = run.at + 1
    /\ next.launched = run.launched /\ next.had = run.had
    /\ next.calm => run.calm

\* The run at a step, and where it goes from there.
LEMMA Running ==
    ASSUME SeedInv, NEW step, Now(step)
    PROVE  /\ seed \in Run /\ Steps[seed.at] = step /\ seed.at \in 1..18
           /\ Reached(seed, config, bought, entitled, priced)
BY DEF SeedInv, Now, Run

LEMMA Onwards ==
    ASSUME SeedInv, NEW step, Now(step), seed.at # 18
    PROVE  /\ Follows(seed, Onward)
           /\ Onward.user = seed.user /\ Onward.product = seed.product /\ Onward.id = seed.id
<1>. PICK run \in Run : run = seed
  BY Running
<1>. PICK at : at = run.at + 1
  OBVIOUS
<1>1. at \in 1..18
  BY DEF Run
<1>2. Onward = [run EXCEPT !.at = at]
  BY DEF Onward
<1>. PICK next : next = [run EXCEPT !.at = at]
  OBVIOUS
<1>3. /\ next \in Run /\ next.at = at /\ next.launched = run.launched /\ next.had = run.had
      /\ next.calm = run.calm /\ next.user = run.user /\ next.product = run.product /\ next.id = run.id
  BY <1>1 DEF Run
<1>. QED
  BY <1>2, <1>3 DEF Follows

LEMMA Advances ==
    ASSUME SeedInv, NEW step, Now(step), seed.at # 18, NEW e \in Envs
    PROVE  /\ Follows(seed, Advance(e)) /\ (Advance(e).calm => e = config)
           /\ Advance(e).user = seed.user /\ Advance(e).product = seed.product /\ Advance(e).id = seed.id
<1>. PICK run \in Run : run = Onward /\ Follows(seed, run)
                        /\ run.user = seed.user /\ run.product = seed.product /\ run.id = seed.id
  BY Onwards DEF Follows
<1>. PICK still \in BOOLEAN : still = (run.calm /\ e = config)
  BY DEF Run
<1>1. Advance(e) = [run EXCEPT !.env = e, !.calm = still]
  BY StepNumbers DEF Advance
<1>. PICK next : next = [run EXCEPT !.env = e, !.calm = still]
  OBVIOUS
<1>2. /\ next \in Run /\ next.at = run.at /\ next.launched = run.launched /\ next.had = run.had
      /\ next.calm = still /\ next.user = run.user /\ next.product = run.product /\ next.id = run.id
  BY DEF Run
<1>. QED
  BY <1>1, <1>2 DEF Follows

\* A run that goes on keeps its environment.
LEMMA AimStays ==
    ASSUME NEW run, NEW next, Follows(run, next), NEW env
    PROVE  Aim(next, env) = Aim(run, env)
BY DEF Follows, Aim

\* A step of the seed that leaves purchases, memberships and prices alone.
LEMMA StepKeeps ==
    ASSUME SeedInv, NEW step \in Tables \cup {"file"}, Now(step), UNCHANGED <<config, bought, entitled, priced>>,
           NEW next, seed' = IF seed.at = 18 THEN Void ELSE next,
           seed.at # 18 => /\ Follows(seed, next) /\ next.id = seed.id
                           /\ next.calm => /\ next.product = IF step = "products" THEN config ELSE seed.product
                                           /\ next.user = IF step = "user" THEN config ELSE seed.user
    PROVE  SeedInv'
<1>1. /\ seed.at \in 1..18 /\ seed.at \notin {1, 6, 7, 8, 9, 12} /\ seed \in Run
      /\ step \notin {"products", "user"} => seed.at \notin {2, 5}
      /\ step = "products" => seed.at = 2
      /\ step = "user" => seed.at = 5
      /\ Reached(seed, config, bought, entitled, priced)
  BY Running, StepNumbers
<1>2. CASE seed.at = 18
  BY <1>2 DEF SeedInv
<1>3. CASE seed.at # 18
  <2>1. seed' = next /\ Follows(seed, next) /\ next.at = seed.at + 1 /\ next \in Run
    BY <1>3 DEF Follows
  <2>2. config \in Envs /\ Aim(seed, config) = config /\ Aim(next, config) = config
    BY <1>1, SeedAssumption DEF Reached, Aim
  <2>3. next.calm => Standing(seed, config, bought, entitled, priced) /\ next.had = seed.had
    BY <1>1, <2>1, <2>2 DEF Reached, Follows
  <2>4. next.calm => Standing(next, config, bought, entitled, priced)
    <3>. SUFFICES ASSUME next.calm PROVE Standing(next, config, bought, entitled, priced)
      OBVIOUS
    <3>1. next.at >= 3 => next.product = config
      BY <1>1, <1>3, <2>1, <2>3 DEF Standing
    <3>2. next.at >= 6 => next.user = config
      BY <1>1, <1>3, <2>1, <2>3 DEF Standing
    <3>3. /\ next.at = seed.at + 1 /\ next.id = seed.id /\ next.had = seed.had
          /\ next.at \notin {2, 7, 8, 9, 10, 13}
      BY <1>1, <1>3, <2>1, <2>3
    <3>. QED
      BY <1>1, <2>3, <3>1, <3>2, <3>3 DEF Standing
  <2>. QED
    BY <2>1, <2>2, <2>4 DEF SeedInv, Reached
<1>. QED
  BY <1>2, <1>3

\* Steps of the tables.
LEMMA TablesKeep ==
    ASSUME SeedInv, NEW e \in Envs,
           \/ \E t \in (Tables \cup {"file"}) \ {"products", "user"} :
                 In(e, t) /\ seed' = Advance(e) /\ UNCHANGED <<bought, entitled, priced>>
           \/ SeedProducts(e) \/ SeedUser(e) \/ SeedAdmin
    PROVE  SeedInv'
<1>1. ASSUME NEW t \in (Tables \cup {"file"}) \ {"products", "user"},
             In(e, t), seed' = Advance(e), UNCHANGED <<bought, entitled, priced>>
      PROVE  SeedInv'
  <2>1. Now(t) /\ UNCHANGED config
    BY <1>1 DEF In
  <2>2. seed' = IF seed.at = 18 THEN Void ELSE Advance(e)
    BY <1>1, StepNumbers DEF Advance
  <2>3. seed.at # 18 => /\ Follows(seed, Advance(e)) /\ Advance(e).id = seed.id
                        /\ Advance(e).user = seed.user /\ Advance(e).product = seed.product
    BY <2>1, Advances, Zenon
  <2>. PICK next : next = Advance(e)
    OBVIOUS
  <2>4. seed' = IF seed.at = 18 THEN Void ELSE next
    BY <2>2
  <2>5. seed.at # 18 => /\ Follows(seed, next) /\ next.id = seed.id
                        /\ next.user = seed.user /\ next.product = seed.product
    BY <2>3
  <2>. QED
    BY <1>1, <2>1, <2>4, <2>5, StepKeeps
<1>2. ASSUME NEW t \in {"products", "user"}, In(e, t), UNCHANGED <<bought, entitled, priced>>,
             \/ t = "products" /\ seed' = [Advance(e) EXCEPT !.product = e]
             \/ t = "user" /\ seed' = [Advance(e) EXCEPT !.user = e]
      PROVE  SeedInv'
  <2>1. Now(t) /\ UNCHANGED config
    BY <1>2 DEF In
  <2>2. seed.at # 18
    BY <2>1, Running, StepNumbers
  <2>a. /\ Follows(seed, Advance(e)) /\ (Advance(e).calm => e = config)
        /\ Advance(e).user = seed.user /\ Advance(e).product = seed.product /\ Advance(e).id = seed.id
    BY <2>1, <2>2, Advances, Zenon
  <2>. PICK run \in Run : /\ run = Advance(e) /\ Follows(seed, run) /\ (run.calm => e = config)
                          /\ run.user = seed.user /\ run.product = seed.product /\ run.id = seed.id
    BY <2>a DEF Follows
  <2>. PICK next : next = IF t = "products" THEN [run EXCEPT !.product = e] ELSE [run EXCEPT !.user = e]
    OBVIOUS
  <2>3. /\ next \in Run /\ next.at = run.at /\ next.launched = run.launched /\ next.had = run.had
        /\ next.calm = run.calm /\ next.id = run.id
        /\ next.product = IF t = "products" THEN e ELSE run.product
        /\ next.user = IF t = "user" THEN e ELSE run.user
    BY DEF Run
  <2>4. Follows(seed, next)
    BY <2>3 DEF Follows
  <2>5. seed' = next
    BY <1>2
  <2>6. t \in Tables
    BY DEF Tables
  <2>7. next.calm => /\ next.product = IF t = "products" THEN config ELSE seed.product
                     /\ next.user = IF t = "user" THEN config ELSE seed.user
    BY <2>3
  <2>8. next.id = seed.id /\ seed' = IF seed.at = 18 THEN Void ELSE next
    BY <2>2, <2>3, <2>5
  <2>9. seed.at # 18 => /\ Follows(seed, next) /\ next.id = seed.id
                        /\ next.calm => /\ next.product = IF t = "products" THEN config ELSE seed.product
                                        /\ next.user = IF t = "user" THEN config ELSE seed.user
    BY <2>4, <2>7, <2>8
  <2>10. t \in Tables \cup {"file"} /\ Now(t) /\ UNCHANGED <<config, bought, entitled, priced>>
    BY <1>2, <2>1, <2>6
  <2>. QED
    BY <2>8, <2>9, <2>10, StepKeeps
<1>3. CASE SeedAdmin
  <2>1. Now("admin") /\ seed' = Onward /\ UNCHANGED <<config, bought, entitled, priced>>
    BY <1>3 DEF SeedAdmin
  <2>2. seed.at = 4
    BY <2>1, Running, StepNumbers
  <2>3. "admin" \in Tables
    BY DEF Tables
  <2>. QED
    BY <2>1, <2>2, <2>3, Onwards, StepKeeps
<1>. QED
  BY <1>1, <1>2, <1>3 DEF SeedProducts, SeedUser, Upsert

LEMMA KeepConfigKeeps == ASSUME SeedInv, KeepConfig PROVE SeedInv'
<1>1. Now("config") /\ seed' = Onward /\ config' = Target(seed.launched) /\ UNCHANGED <<bought, entitled, priced>>
  BY DEF KeepConfig
<1>2. seed.at = 1 /\ seed \in Run /\ Reached(seed, config, bought, entitled, priced)
  BY <1>1, Running, StepNumbers
<1>3. config' \in Envs /\ config' = Aim(seed, config) /\ config' # Void
  BY <1>1, <1>2, SeedAssumption DEF Target, Aim, SeedInv, Run
<1>. PICK next : next = Onward
  OBVIOUS
<1>4. Follows(seed, next)
  BY <1>1, <1>2, Onwards
<1>5. next.at = 2 /\ next \in Run /\ next.had = seed.had /\ (next.calm => seed.calm) /\ Aim(next, config') = config'
  BY <1>2, <1>3, <1>4 DEF Follows, Aim
<1>6. Reached(next, config', bought, entitled, priced)
  BY <1>2, <1>3, <1>5 DEF Reached, Standing
<1>. QED
  BY <1>1, <1>3, <1>5, <1>6 DEF SeedInv

\* A step between the cancellation and the prices: where the run is, and what
\* its next state has to show.
LEMMA Between ==
    ASSUME SeedInv, NEW e \in Envs, NEW n \in {6, 7, 8, 9, 12}, NEW step, In(e, step),
           \A k \in 1..18 : Steps[k] = step => k = n
    PROVE  /\ seed \in Run /\ seed.at = n /\ UNCHANGED config /\ config \in Envs
           /\ \A r : Aim(r, config) = config
           /\ Follows(seed, Advance(e)) /\ Advance(e).at = n + 1 /\ Advance(e) \in Run
           /\ Advance(e).user = seed.user /\ Advance(e).product = seed.product /\ Advance(e).id = seed.id
           /\ Advance(e).had = seed.had
           /\ Advance(e).calm => e = config /\ Standing(seed, config, bought, entitled, priced)
<1>1. Now(step) /\ UNCHANGED config
  BY DEF In
<1>2. seed \in Run /\ seed.at = n /\ Reached(seed, config, bought, entitled, priced)
  BY <1>1, Running
<1>3. config \in Envs /\ \A r : Aim(r, config) = config
  BY <1>2, SeedAssumption DEF Reached, Aim
<1>4. /\ Follows(seed, Advance(e)) /\ (Advance(e).calm => e = config)
      /\ Advance(e).user = seed.user /\ Advance(e).product = seed.product /\ Advance(e).id = seed.id
  <2>1. seed.at # 18
    BY <1>2
  <2>. QED
    BY <1>1, <2>1, Advances, Zenon
<1>. QED
  BY <1>1, <1>2, <1>3, <1>4 DEF Follows, Reached

LEMMA CancelKeeps == ASSUME SeedInv, NEW e \in Envs, CancelSubscriptions(e) PROVE SeedInv'
<1>. PICK gone : gone = Live(e, seed.user)
  OBVIOUS
<1>1. /\ In(e, "cancel") /\ seed' = Advance(e) /\ UNCHANGED <<entitled, priced>>
      /\ bought' = [i \in DOMAIN bought |-> IF i \in gone THEN [bought[i] EXCEPT !.live = FALSE] ELSE bought[i]]
  BY DEF CancelSubscriptions, CancelActive, Ended
<1>2. \A k \in 1..18 : Steps[k] = "cancel" => k = 6
  BY StepNumbers
<1>. PICK next : next = Advance(e)
  OBVIOUS
<1>3. /\ UNCHANGED config /\ config \in Envs /\ Aim(next, config) = config
      /\ next \in Run /\ next.at = 7 /\ next.user = seed.user /\ next.product = seed.product /\ next.had = seed.had
      /\ next.calm => /\ e = config /\ seed.at = 6
                      /\ Standing(seed, config, bought, entitled, priced)
  BY <1>1, <1>2, Between
<1>4. ASSUME NEW i \in DOMAIN bought
      PROVE  /\ bought'[i] \in Purchase
             /\ i \in gone => ~bought'[i].live
             /\ i \notin gone => bought'[i] = bought[i]
  <2>. PICK row \in Purchase : row = bought[i]
    BY DEF SeedInv
  <2>. PICK new : new = [row EXCEPT !.live = FALSE]
    OBVIOUS
  <2>1. new \in Purchase /\ ~new.live
    BY DEF Purchase
  <2>. QED
    BY <1>1, <2>1
<1>5. bought' \in Seq(Purchase) /\ DOMAIN bought' = DOMAIN bought
  <2>1. Len(bought) \in Nat /\ DOMAIN bought = 1..Len(bought)
    BY DEF SeedInv
  <2>2. bought' \in [1..Len(bought) -> Purchase] /\ DOMAIN bought' = DOMAIN bought
    BY <1>1, <1>4, <2>1
  <2>. QED
    BY <2>1, <2>2, SeqDef
<1>6. next.calm => Standing(next, config, bought', entitled, priced)
  <2>. SUFFICES ASSUME next.calm PROVE Standing(next, config, bought', entitled, priced)
    OBVIOUS
  <2>1. seed.user = config /\ seed.product = config /\ LabelledIn(priced, config) = seed.had
    BY <1>3 DEF Standing
  <2>2. gone = LiveIn(bought, config)
    BY <1>3, <2>1, SameSets
  <2>3. LiveIn(bought', config) = {}
    BY <1>4, <1>5, <2>2 DEF LiveIn
  <2>. QED
    BY <1>3, <2>1, <2>3 DEF Standing
<1>. QED
  BY <1>1, <1>3, <1>5, <1>6 DEF SeedInv, Reached

LEMMA AssignKeeps == ASSUME SeedInv, NEW e \in Envs, AssignStarter(e) PROVE SeedInv'
<1>. PICK n : n = Len(bought) + 1
  OBVIOUS
<1>. PICK row : row = [env |-> e, user |-> seed.user, recurring |-> TRUE, live |-> TRUE]
  OBVIOUS
<1>1. /\ In(e, "buy") /\ seed' = [Advance(e) EXCEPT !.id = Len(bought')]
      /\ bought' = Append(bought, row) /\ UNCHANGED <<entitled, priced>>
  BY DEF AssignStarter
<1>2. \A k \in 1..18 : Steps[k] = "buy" => k = 7
  BY StepNumbers
<1>. PICK run : run = Advance(e)
  OBVIOUS
<1>3. /\ UNCHANGED config /\ config \in Envs /\ \A r : Aim(r, config) = config
      /\ seed \in Run /\ run \in Run /\ run.at = 8
      /\ run.user = seed.user /\ run.product = seed.product /\ run.had = seed.had
      /\ run.calm => /\ e = config /\ seed.at = 7
                     /\ Standing(seed, config, bought, entitled, priced)
  BY <1>1, <1>2, Between
<1>4. row \in Purchase /\ row.env = e /\ row.user = seed.user /\ row.recurring /\ row.live
  BY <1>3 DEF Purchase, Run
<1>5. /\ bought' \in Seq(Purchase) /\ DOMAIN bought' = DOMAIN bought \cup {n} /\ bought'[n] = row
      /\ \A i \in DOMAIN bought : bought'[i] = bought[i] /\ i # n
      /\ Len(bought') = n /\ n \in Nat
  BY <1>1, <1>4 DEF SeedInv
<1>. PICK next : next = [run EXCEPT !.id = n]
  OBVIOUS
<1>6. /\ next \in Run /\ next.at = 8 /\ next.id = n
      /\ next.user = run.user /\ next.product = run.product /\ next.had = run.had /\ next.calm = run.calm
  BY <1>3, <1>5 DEF Run
<1>7. seed' = next
  BY <1>1, <1>5
<1>8. next.calm => Standing(next, config, bought', entitled, priced)
  <2>. SUFFICES ASSUME next.calm PROVE Standing(next, config, bought', entitled, priced)
    OBVIOUS
  <2>1. /\ e = config /\ seed.user = config /\ seed.product = config
        /\ LiveIn(bought, config) = {} /\ LabelledIn(priced, config) = seed.had
    BY <1>3, <1>6 DEF Standing
  <2>2. LiveIn(bought', config) = LiveIn(bought, config) \cup {n}
    BY <1>4, <1>5, <2>1 DEF LiveIn
  <2>. QED
    BY <1>3, <1>6, <2>1, <2>2 DEF Standing
<1>. QED
  BY <1>1, <1>3, <1>5, <1>6, <1>7, <1>8 DEF SeedInv, Reached

LEMMA GrantsKeep == ASSUME SeedInv, NEW e \in Envs, ClearMemberships(e) \/ GrantMembership(e) PROVE SeedInv'
<1>. PICK next : next = Advance(e)
  OBVIOUS
<1>1. CASE ClearMemberships(e)
  <2>1. /\ In(e, "clear") /\ seed' = next /\ UNCHANGED <<bought, priced>>
        /\ entitled' = {m \in entitled : ~(m.env = e /\ bought[m.of].user = seed.user)}
    BY <1>1 DEF ClearMemberships
  <2>2. \A k \in 1..18 : Steps[k] = "clear" => k = 8
    BY StepNumbers
  <2>3. /\ UNCHANGED config /\ config \in Envs /\ Aim(next, config) = config
        /\ next \in Run /\ next.at = 9 /\ next.id = seed.id
        /\ next.user = seed.user /\ next.product = seed.product /\ next.had = seed.had
        /\ next.calm => /\ e = config /\ seed.at = 8
                        /\ Standing(seed, config, bought, entitled, priced)
    BY <2>1, <2>2, Between
  <2>4. next.calm => Standing(next, config, bought, entitled', priced)
    <3>. SUFFICES ASSUME next.calm PROVE Standing(next, config, bought, entitled', priced)
      OBVIOUS
    <3>1. /\ seed.user = config /\ seed.product = config
          /\ LiveIn(bought, config) = {seed.id} /\ LabelledIn(priced, config) = seed.had
      BY <2>3 DEF Standing
    <3>2. EntitlingIn(entitled', bought, config) = {}
      BY <2>1, <2>3, <3>1 DEF EntitlingIn, RecurringIn
    <3>. QED
      BY <2>3, <3>1, <3>2 DEF Standing
  <2>. QED
    BY <2>1, <2>3, <2>4 DEF SeedInv, Reached
<1>2. CASE GrantMembership(e)
  <2>. PICK m : m = [env |-> e, of |-> seed.id]
    OBVIOUS
  <2>1. /\ In(e, "grant") /\ seed' = next /\ UNCHANGED <<bought, priced>>
        /\ entitled' = entitled \cup {m}
    BY <1>2 DEF GrantMembership
  <2>2. \A k \in 1..18 : Steps[k] = "grant" => k = 9
    BY StepNumbers
  <2>3. /\ UNCHANGED config /\ config \in Envs /\ Aim(next, config) = config
        /\ next \in Run /\ next.at = 10 /\ next.id = seed.id
        /\ next.user = seed.user /\ next.product = seed.product /\ next.had = seed.had
        /\ next.calm => /\ e = config /\ seed.at = 9
                        /\ Standing(seed, config, bought, entitled, priced)
    BY <2>1, <2>2, Between
  <2>4. next.calm => Standing(next, config, bought, entitled', priced)
    <3>. SUFFICES ASSUME next.calm PROVE Standing(next, config, bought, entitled', priced)
      OBVIOUS
    <3>1. /\ seed.user = config /\ seed.product = config /\ LiveIn(bought, config) = {seed.id}
          /\ EntitlingIn(entitled, bought, config) = {} /\ LabelledIn(priced, config) = seed.had
      BY <2>3 DEF Standing
    <3>2. m.env = config /\ m.of = seed.id /\ seed.id \in RecurringIn(bought, config)
      BY <2>3, <3>1 DEF LiveIn, RecurringIn
    <3>3. EntitlingIn(entitled', bought, config) = {m}
      BY <2>1, <3>1, <3>2 DEF EntitlingIn
    <3>. QED
      BY <2>3, <3>1, <3>3 DEF Standing
  <2>. QED
    BY <2>1, <2>3, <2>4 DEF SeedInv, Reached
<1>. QED
  BY <1>1, <1>2

\* What a run shows once it has set the prices.
LEMMA StandsPriced ==
    ASSUME NEW run, run.at = 13, NEW e, NEW all, NEW ent, NEW prices,
           run.product = e, run.user = e, LiveIn(all, e) = {run.id},
           EntitlingIn(ent, all, e) = {[env |-> e, of |-> run.id]},
           IF run.had = {} THEN \E i : LabelledIn(prices, e) = {i} ELSE LabelledIn(prices, e) = run.had
    PROVE  Standing(run, e, all, ent, prices)
BY DEF Standing

LEMMA PricesKeep == ASSUME SeedInv, NEW e \in Envs, SeedPrices(e) PROVE SeedInv'
<1>. PICK n : n = Len(priced) + 1
  OBVIOUS
<1>. PICK row : row = [env |-> e, product |-> seed.product, label |-> TRUE]
  OBVIOUS
<1>. PICK next : next = Advance(e)
  OBVIOUS
<1>1. /\ In(e, "prices") /\ seed' = next /\ UNCHANGED <<bought, entitled>>
      /\ \/ Labelled(e, seed.product) # {} /\ UNCHANGED priced
         \/ Labelled(e, seed.product) = {} /\ priced' = Append(priced, row)
  BY DEF SeedPrices
<1>2. \A k \in 1..18 : Steps[k] = "prices" => k = 12
  BY StepNumbers
<1>3. /\ UNCHANGED config /\ config \in Envs /\ Aim(next, config) = config
      /\ seed \in Run /\ next \in Run /\ next.at = 13 /\ next.id = seed.id
      /\ next.user = seed.user /\ next.product = seed.product /\ next.had = seed.had
      /\ next.calm => /\ e = config /\ seed.at = 12
                      /\ Standing(seed, config, bought, entitled, priced)
  BY <1>1, <1>2, Between
<1>4. row \in Price /\ row.env = e /\ row.product = seed.product /\ row.label
  BY <1>3 DEF Price, Run
<1>5. /\ Append(priced, row) \in Seq(Price)
      /\ DOMAIN Append(priced, row) = DOMAIN priced \cup {n}
      /\ Append(priced, row)[n] = row
      /\ \A i \in DOMAIN priced : Append(priced, row)[i] = priced[i] /\ i # n
  BY <1>4 DEF SeedInv
<1>6. priced' \in Seq(Price)
  BY <1>1, <1>5 DEF SeedInv
<1>7. next.calm => Standing(next, config, bought, entitled, priced')
  <2>. SUFFICES ASSUME next.calm PROVE Standing(next, config, bought, entitled, priced')
    OBVIOUS
  <2>1. /\ e = config /\ seed.user = config /\ seed.product = config /\ LiveIn(bought, config) = {seed.id}
        /\ EntitlingIn(entitled, bought, config) = {[env |-> config, of |-> seed.id]}
        /\ LabelledIn(priced, config) = seed.had
    BY <1>3 DEF Standing
  <2>2. Labelled(e, seed.product) = seed.had
    BY <2>1, SameSets
  <2>3. IF seed.had = {} THEN \E i : LabelledIn(priced', config) = {i} ELSE LabelledIn(priced', config) = seed.had
    <3>1. CASE seed.had = {}
      <4>1. priced' = Append(priced, row)
        BY <1>1, <2>2, <3>1
      <4>2. LabelledIn(priced', config) = LabelledIn(priced, config) \cup {n}
        BY <1>4, <1>5, <2>1, <4>1 DEF LabelledIn
      <4>3. LabelledIn(priced', config) = {n}
        BY <2>1, <3>1, <4>2
      <4>. QED
        BY <3>1, <4>3, Zenon
    <3>2. CASE seed.had # {}
      <4>1. UNCHANGED priced
        BY <1>1, <2>2, <3>2
      <4>2. LabelledIn(priced', config) = seed.had
        BY <2>1, <4>1
      <4>. QED
        BY <3>2, <4>2, Zenon
    <3>. QED
      BY <3>1, <3>2, Zenon
  <2>4. /\ next.at = 13 /\ next.product = config /\ next.user = config
        /\ LiveIn(bought, config) = {next.id}
        /\ EntitlingIn(entitled, bought, config) = {[env |-> config, of |-> next.id]}
    BY <1>3, <2>1
  <2>5. IF next.had = {} THEN \E i : LabelledIn(priced', config) = {i} ELSE LabelledIn(priced', config) = next.had
    BY <1>3, <2>3
  <2>. QED
    BY <2>4, <2>5, StandsPriced
<1>. QED
  BY <1>1, <1>3, <1>6, <1>7 DEF SeedInv, Reached

\* What the server does in the run's environment marks the run, and in another
\* environment it is no concern of the run.
LEMMA DisturbKeeps ==
    ASSUME SeedInv, NEW e \in Envs, Disturb(e), config' \in Envs \cup {Void}, seed # Void => config' = config,
           bought' \in Seq(Purchase), priced' \in Seq(Price),
           \A f : f # e => /\ LiveIn(bought', f) = LiveIn(bought, f)
                           /\ EntitlingIn(entitled', bought', f) = EntitlingIn(entitled, bought, f)
                           /\ LabelledIn(priced', f) = LabelledIn(priced, f)
    PROVE  SeedInv'
<1>1. CASE seed = Void
  BY <1>1 DEF SeedInv, Disturb
<1>2. CASE seed # Void
  <2>. PICK run \in Run : run = seed
    BY <1>2 DEF SeedInv
  <2>1. Reached(run, config, bought, entitled, priced) /\ run.at \in 1..18
    BY <1>2 DEF SeedInv, Run
  <2>2. CASE Target(run.launched) = e
    <3>. PICK next : next = [run EXCEPT !.calm = FALSE]
      OBVIOUS
    <3>1. seed' = next
      BY <1>2, <2>2 DEF Disturb
    <3>2. next \in Run /\ next.at = run.at /\ ~next.calm
      BY DEF Run
    <3>3. Reached(next, config', bought', entitled', priced')
      BY <1>2, <2>1, <3>2 DEF Reached
    <3>. QED
      BY <3>1, <3>2, <3>3 DEF SeedInv
  <2>3. CASE Target(run.launched) # e
    <3>1. seed' = run
      BY <1>2, <2>3 DEF Disturb
    <3>. PICK f : f = Aim(run, config)
      OBVIOUS
    <3>2. f # e
      BY <2>3 DEF Target, Aim
    <3>3. /\ LiveIn(bought', f) = LiveIn(bought, f)
          /\ EntitlingIn(entitled', bought', f) = EntitlingIn(entitled, bought, f)
          /\ LabelledIn(priced', f) = LabelledIn(priced, f)
      BY <3>2
    <3>4. Reached(run, config, bought', entitled', priced')
      BY <2>1, <3>3 DEF Reached, Standing
    <3>. QED
      BY <1>2, <3>1, <3>4 DEF SeedInv
  <2>. QED
    BY <2>2, <2>3
<1>. QED
  BY <1>1, <1>2

LEMMA BuyKeeps == ASSUME SeedInv, NEW e \in Envs, NEW recurring \in BOOLEAN, Buy(e, recurring) PROVE SeedInv'
<1>. PICK ended : ended = IF recurring THEN Live(e, e) ELSE {}
  OBVIOUS
<1>. PICK rest : rest = Ended(ended)
  OBVIOUS
<1>. PICK row : row = [env |-> e, user |-> e, recurring |-> recurring, live |-> TRUE]
  OBVIOUS
<1>. PICK n : n = Len(bought) + 1
  OBVIOUS
<1>1. /\ Disturb(e) /\ bought' = Append(rest, row) /\ UNCHANGED <<config, priced>>
      /\ entitled' = {m \in entitled : ~(m.env = e /\ m.of \in ended)} \cup {[env |-> e, of |-> Len(bought')]}
  BY DEF Buy
<1>2. \A i \in ended : i \in DOMAIN bought /\ bought[i].env = e /\ bought[i].user = e
  BY DEF Live, Of
<1>3. rest = [i \in DOMAIN bought |-> IF i \in ended THEN [bought[i] EXCEPT !.live = FALSE] ELSE bought[i]]
  BY DEF Ended
<1>4. bought \in Seq(Purchase) /\ Len(bought) \in Nat /\ DOMAIN bought = 1..Len(bought)
  BY DEF SeedInv
<1>5. ASSUME NEW i \in DOMAIN bought
      PROVE  /\ rest[i] \in Purchase /\ rest[i].env = bought[i].env /\ rest[i].user = bought[i].user
             /\ rest[i].recurring = bought[i].recurring
             /\ bought[i].env # e => rest[i] = bought[i]
  <2>. PICK b \in Purchase : b = bought[i]
    BY <1>4
  <2>. PICK new : new = [b EXCEPT !.live = FALSE]
    OBVIOUS
  <2>1. new \in Purchase /\ new.env = b.env /\ new.user = b.user /\ new.recurring = b.recurring
    BY DEF Purchase
  <2>2. rest[i] = IF i \in ended THEN new ELSE b
    BY <1>3
  <2>. QED
    BY <1>2, <2>1, <2>2
<1>6. rest \in Seq(Purchase) /\ Len(rest) = Len(bought) /\ DOMAIN rest = DOMAIN bought
  <2>1. rest \in [1..Len(bought) -> Purchase] /\ DOMAIN rest = 1..Len(bought)
    BY <1>3, <1>4, <1>5
  <2>2. rest \in Seq(Purchase)
    BY <1>4, <2>1, SeqDef
  <2>. QED
    BY <1>4, <2>1, <2>2
<1>7. row \in Purchase /\ row.env = e /\ row.user = e
  BY DEF Purchase
<1>8. /\ bought' \in Seq(Purchase) /\ DOMAIN bought' = DOMAIN bought \cup {n} /\ bought'[n] = row
      /\ \A i \in DOMAIN bought : bought'[i] = rest[i] /\ i # n
      /\ Len(bought') = n
  BY <1>1, <1>6, <1>7 DEF SeedInv
<1>9. ASSUME NEW f, f # e
      PROVE  /\ LiveIn(bought', f) = LiveIn(bought, f)
             /\ EntitlingIn(entitled', bought', f) = EntitlingIn(entitled, bought, f)
  <2>1. LiveIn(bought', f) = LiveIn(bought, f)
    BY <1>5, <1>7, <1>8, <1>9 DEF LiveIn
  <2>. PICK some : some = RecurringIn(bought, f)
    OBVIOUS
  <2>2. RecurringIn(bought', f) = some
    BY <1>5, <1>7, <1>8, <1>9 DEF RecurringIn
  <2>. PICK new : new = [env |-> e, of |-> n]
    OBVIOUS
  <2>3. new.env = e /\ entitled' = {m \in entitled : ~(m.env = e /\ m.of \in ended)} \cup {new}
    BY <1>1, <1>8
  <2>4. {m \in entitled' : m.env = f /\ m.of \in some} = {m \in entitled : m.env = f /\ m.of \in some}
    BY <1>9, <2>3
  <2>. QED
    BY <2>1, <2>2, <2>4 DEF EntitlingIn
<1>10. config' \in Envs \cup {Void} /\ config' = config /\ priced' \in Seq(Price) /\ priced' = priced
  BY <1>1 DEF SeedInv
<1>. QED
  BY <1>1, <1>8, <1>9, <1>10, DisturbKeeps

\* An administrator's prices and labels.
LEMMA LabelsKeep ==
    ASSUME SeedInv,
           \/ \E i \in DOMAIN priced : Relabel(i)
           \/ \E e \in Envs, label \in BOOLEAN : AddPrice(e, label)
    PROVE  SeedInv'
<1>1. ASSUME NEW i \in DOMAIN priced, Relabel(i) PROVE SeedInv'
  <2>. PICK p \in Price : p = priced[i]
    BY DEF SeedInv
  <2>. PICK new : new = [p EXCEPT !.label = ~@]
    OBVIOUS
  <2>1. Disturb(p.env) /\ priced' = [priced EXCEPT ![i] = new] /\ UNCHANGED <<config, bought, entitled>>
    BY <1>1 DEF Relabel
  <2>2. new \in Price /\ new.env = p.env /\ p.env \in Envs
    BY DEF Price
  <2>3. /\ priced' \in Seq(Price) /\ DOMAIN priced' = DOMAIN priced
        /\ \A j \in DOMAIN priced : priced'[j] = IF j = i THEN new ELSE priced[j]
    BY <2>1, <2>2 DEF SeedInv
  <2>4. \A f : f # p.env => LabelledIn(priced', f) = LabelledIn(priced, f)
    BY <2>2, <2>3 DEF LabelledIn
  <2>5. config' \in Envs \cup {Void} /\ config' = config /\ bought' \in Seq(Purchase)
    BY <2>1 DEF SeedInv
  <2>. QED
    BY <2>1, <2>2, <2>3, <2>4, <2>5, DisturbKeeps
<1>2. ASSUME NEW e \in Envs, NEW label \in BOOLEAN, AddPrice(e, label) PROVE SeedInv'
  <2>. PICK row : row = [env |-> e, product |-> e, label |-> label]
    OBVIOUS
  <2>. PICK n : n = Len(priced) + 1
    OBVIOUS
  <2>1. Disturb(e) /\ priced' = Append(priced, row) /\ UNCHANGED <<config, bought, entitled>>
    BY <1>2 DEF AddPrice
  <2>2. row \in Price /\ row.env = e
    BY DEF Price
  <2>3. /\ priced' \in Seq(Price) /\ DOMAIN priced' = DOMAIN priced \cup {n} /\ priced'[n] = row
        /\ \A i \in DOMAIN priced : priced'[i] = priced[i] /\ i # n
    BY <2>1, <2>2 DEF SeedInv
  <2>4. \A f : f # e => LabelledIn(priced', f) = LabelledIn(priced, f)
    BY <2>2, <2>3 DEF LabelledIn
  <2>5. config' \in Envs \cup {Void} /\ config' = config /\ bought' \in Seq(Purchase)
    BY <2>1 DEF SeedInv
  <2>. QED
    BY <2>1, <2>2, <2>3, <2>4, <2>5, DisturbKeeps
<1>. QED
  BY <1>1, <1>2

\* The seed can be run again: however many runs stopped half way before or lost
\* sight of the environment, and whatever was bought, priced and labelled since, a
\* run that nothing interfered with leaves its environment with one live
\* subscription of the demo user, the only one that entitles, and with the prices
\* of each label it met, or one where it met none (prisma/seed.ts).
THEOREM SeedLeavesOne == SeedSpec => SeedRepeats
<1>1. DeskInit(0) /\ SeedInit => SeedInv
  BY DEF SeedInit, SeedInv
<1>2. SeedInv /\ [SeedStep]_<<desk, crop>> => SeedInv'
  <2>. SUFFICES ASSUME SeedInv, [SeedStep]_<<desk, crop>> PROVE SeedInv'
    OBVIOUS
  <2>1. ASSUME NEW e \in Envs, Launch(e) PROVE SeedInv'
    <3>. PICK had : had = Labelled(Target(e), Target(e))
      OBVIOUS
    <3>. PICK run : run = [launched |-> e, env |-> Void, at |-> 1, user |-> Void, product |-> Void, id |-> Void,
                           had |-> had, calm |-> TRUE]
      OBVIOUS
    <3>1. seed' = run /\ UNCHANGED <<config, bought, entitled, priced>>
      BY <2>1 DEF Launch
    <3>2. had \in SUBSET Nat /\ had = LabelledIn(priced, Target(e))
      BY SameSets DEF Labelled, SeedInv
    <3>3. run \in Run /\ run.at = 1 /\ run.had = had /\ run.launched = e
      BY <3>2 DEF Run
    <3>4. Aim(run, config) = Target(e)
      BY <3>3 DEF Aim, Target
    <3>5. Reached(run, config, bought, entitled, priced)
      BY <3>2, <3>3, <3>4 DEF Reached, Standing
    <3>. QED
      BY <3>1, <3>3, <3>5 DEF SeedInv
  <2>2. ASSUME NEW e \in Envs, Switch(e) PROVE SeedInv'
    BY <2>2 DEF Switch, Disturb, SeedInv
  <2>3. ASSUME NEW e \in Envs, NEW t \in (Tables \cup {"file"}) \ {"products", "user"},
               SeedTable(e, t) \/ CreateMissing(e, t) \/ (t = "file" /\ SeedFile(e))
        PROVE  SeedInv'
    BY <2>3, TablesKeep DEF SeedTable, Upsert, CreateMissing, SeedFile
  <2>4. ASSUME NEW e \in Envs,
               \/ SeedFeatures(e) \/ SeedSubUser(e) \/ SeedSettings(e) \/ SeedInvitation(e) \/ SeedTypes(e)
               \/ SeedTaxonomies(e) \/ SeedTemplates(e) \/ SeedPages(e) \/ SeedFile(e)
        PROVE  SeedInv'
    <3>1. {"features", "subUser", "settings", "invitation", "types", "taxonomies", "templates", "pages", "file"}
            \subseteq (Tables \cup {"file"}) \ {"products", "user"}
      BY DEF Tables
    <3>. QED
      BY <2>3, <2>4, <3>1 DEF SeedFeatures, SeedSubUser, SeedSettings, SeedInvitation, SeedTypes, SeedTaxonomies,
                              SeedTemplates, SeedPages
  <2>5. CASE Stop \/ UNCHANGED <<desk, crop>>
    BY <2>5 DEF Stop, crop, SeedInv
  <2>6. ASSUME NEW e, NEW t, Edit(e, t) PROVE SeedInv'
    BY <2>6 DEF Edit, SeedInv
  <2>7. CASE SeedAdmin
    <3>1. seed # Void /\ seed \in Run
      BY <2>7 DEF SeedAdmin, Now, SeedInv
    <3>. PICK e \in Envs : e = seed.launched
      BY <3>1 DEF Run
    <3>. QED
      BY <2>7, TablesKeep
  <2>8. ASSUME NEW e \in Envs,
               \/ SeedProducts(e) \/ SeedUser(e) \/ CancelSubscriptions(e) \/ AssignStarter(e)
               \/ ClearMemberships(e) \/ GrantMembership(e) \/ SeedPrices(e)
        PROVE  SeedInv'
    BY <2>8, TablesKeep, CancelKeeps, AssignKeeps, GrantsKeep, PricesKeep
  <2>. QED
    BY <2>1, <2>2, <2>4, <2>5, <2>6, <2>7, <2>8, KeepConfigKeeps, BuyKeeps, LabelsKeep DEF SeedStep
<1>3. SeedInv => (seed # Void /\ seed.at = Len(Steps) /\ seed.calm /\ seed' = Void
                  => /\ Live(config, config) = {seed.id}
                     /\ {m \in entitled : m.env = config /\ m.of \in Recurring(config)}
                          = {[env |-> config, of |-> seed.id]}
                     /\ IF seed.had = {} THEN Cardinality(Labelled(config, config)) = 1
                        ELSE Labelled(config, config) = seed.had)
  <2>. SUFFICES ASSUME SeedInv, seed # Void, seed.at = Len(Steps), seed.calm
                PROVE  /\ Live(config, config) = {seed.id}
                       /\ {m \in entitled : m.env = config /\ m.of \in Recurring(config)}
                            = {[env |-> config, of |-> seed.id]}
                       /\ IF seed.had = {} THEN Cardinality(Labelled(config, config)) = 1
                          ELSE Labelled(config, config) = seed.had
    OBVIOUS
  <2>1. seed.at = 18 /\ Reached(seed, config, bought, entitled, priced)
    BY StepNumbers DEF SeedInv
  <2>2. Aim(seed, config) = config
    BY <2>1, SeedAssumption DEF Reached, Aim
  <2>3. /\ LiveIn(bought, config) = {seed.id}
        /\ EntitlingIn(entitled, bought, config) = {[env |-> config, of |-> seed.id]}
        /\ IF seed.had = {} THEN \E i : LabelledIn(priced, config) = {i} ELSE LabelledIn(priced, config) = seed.had
    <3>1. Standing(seed, config, bought, entitled, priced)
      BY <2>1, <2>2 DEF Reached
    <3>. QED
      BY <2>1, <3>1 DEF Standing
  <2>4. IF seed.had = {} THEN Cardinality(Labelled(config, config)) = 1
        ELSE Labelled(config, config) = seed.had
    <3>1. Labelled(config, config) = LabelledIn(priced, config)
      BY SameSets, Zenon
    <3>2. ASSUME NEW i, LabelledIn(priced, config) = {i} PROVE Cardinality(LabelledIn(priced, config)) = 1
      BY <3>2, FS_Singleton
    <3>. QED
      BY <2>3, <3>1, <3>2, Zenon
  <2>. QED
    BY <2>3, <2>4, SameSets DEF EntitlingIn
<1>. QED
  BY <1>1, <1>2, <1>3, PTL DEF SeedSpec, SeedRepeats

=============================================================================
