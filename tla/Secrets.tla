------------------------------- MODULE Secrets -------------------------------
(***************************************************************************)
(* Settings, secret ones under rotating keys: settingService, the encryption *)
(* of lib/secret-crypto.ts, prisma/encrypt-secret-settings.ts, and the       *)
(* rotation of docs/security.md.  A process reads the key variables when it  *)
(* starts, and encrypts with the current version; a row carries the version  *)
(* it was encrypted with.  The script reads every row first and writes them  *)
(* back one by one, so what is saved meanwhile may be written over.          *)
(***************************************************************************)
EXTENDS Desk

CONSTANTS
    Settings,       \* keys, by definition: "secret" or "open"
    Choices,        \* values an administrator types
    Mask,           \* what the forms get instead of a secret
    Servers,
    StartStored,    \* rows from before encryption: value by key
    MaxVersion      \* bound on key versions

ASSUME SecretsAssumption == Mask \notin Choices

VARIABLES
    stored,         \* by key: [version, value], version 0 in plaintext; or Void
    vars,           \* the platform's variables: [current, legacy]
    conf,           \* the variables each server started with
    script,         \* Void, or the run: [conf, found, todo]
    saved,          \* by key: what was last sent to be stored; history
    raced           \* by key: last typed after the script had read the row; history

keyring == <<stored, vars, conf, script, saved, raced>>

SettingKeys == DOMAIN Settings
IsSecret(k) == Settings[k] = "secret"
Secrets == {k \in SettingKeys : IsSecret(k)}

SecretsInit ==
    /\ stored = [k \in SettingKeys |-> IF k \in DOMAIN StartStored
                                THEN [version |-> 0, value |-> StartStored[k]] ELSE Void]
    /\ vars = [current |-> 1, legacy |-> {}]
    /\ conf = [p \in Servers |-> vars]
    /\ script = Void
    /\ saved = [k \in SettingKeys |-> IF k \in DOMAIN StartStored THEN StartStored[k] ELSE Void]
    /\ raced = [k \in SettingKeys |-> FALSE]

\* Plaintext is read as it is.
Readable(row, keys) == row.version \in {0, keys.current} \cup keys.legacy
Encrypted(value, keys) == [version |-> keys.current, value |-> value]

\* Bug: what the form got is taken for what was typed.
KeepsNothing(value) == FALSE
KeepsExisting(value) == value = Mask

-----------------------------------------------------------------------------
Pending(k) == script # Void /\ k \in script.todo /\ script.found[k].version # script.conf.current

\* What settingRepository.set puts into a row.
StoredValue(k, value, keys) == IF IsSecret(k) THEN Encrypted(value, keys) ELSE [version |-> 0, value |-> value]

\* set: one upsert.  The request is environment-scoped: under a tenant the
\* repository refuses to write.
Save(p, k, value) ==
    /\ calls < MaxCalls
    /\ calls' = calls + 1
    /\ stored' = [stored EXCEPT ![k] = IF IsSecret(k) /\ KeepsExisting(value) THEN @ ELSE StoredValue(k, value, conf[p])]
    /\ saved' = [saved EXCEPT ![k] = IF IsSecret(k) /\ value = Mask THEN @ ELSE value]
    /\ raced' = [raced EXCEPT ![k] = IF value = Mask THEN @ ELSE Pending(k)]
    /\ UNCHANGED <<call, fails, vars, conf, script>>

\* get and getAll: what server p shows of a row, a rejection if it cannot
\* decrypt it.
Shown(p, k) ==
    IF stored[k] = Void \/ ~Readable(stored[k], conf[p]) THEN {}
    ELSE {IF IsSecret(k) /\ stored[k].value # "" THEN Mask ELSE stored[k].value}

\* A form sends what was typed or what it was shown, by any server.
Submit(p) ==
    \E k \in SettingKeys : \E value \in Choices \cup UNION {Shown(q, k) : q \in Servers} : Save(p, k, value)

Restart(p) ==
    /\ conf[p] # vars
    /\ conf' = [conf EXCEPT ![p] = vars]
    /\ UNCHANGED <<desk, stored, vars, script, saved, raced>>

-----------------------------------------------------------------------------
(* The runbook: external, but for the script *)

Rotate ==
    /\ script = Void
    /\ vars.current < MaxVersion
    /\ vars' = [current |-> vars.current + 1, legacy |-> vars.legacy \cup {vars.current}]
    /\ UNCHANGED <<desk, stored, conf, script, saved, raced>>

\* No setting is left on an old version and no server encrypts with one.
Retire ==
    /\ script = Void
    /\ \A p \in Servers : conf[p] = vars
    /\ \A k \in Secrets : stored[k] # Void => stored[k].version = vars.current
    /\ vars' = [vars EXCEPT !.legacy = {}]
    /\ UNCHANGED <<desk, stored, conf, script, saved, raced>>

StartScript ==
    /\ script = Void
    /\ script' = [conf |-> vars, found |-> stored, todo |-> {k \in Secrets : stored[k] # Void}]
    /\ UNCHANGED <<desk, stored, vars, conf, saved, raced>>

\* A row on the current version, as it was read, is skipped; one that cannot be
\* decrypted ends the run.
ScriptStep(k) ==
    /\ script # Void /\ k \in script.todo
    /\ LET row == script.found[k]
           rest == [script EXCEPT !.todo = @ \ {k}]
       IN IF row.version = script.conf.current THEN script' = rest /\ UNCHANGED stored
          ELSE IF Readable(row, script.conf)
          THEN script' = rest /\ stored' = [stored EXCEPT ![k] = Encrypted(row.value, script.conf)]
          ELSE script' = Void /\ UNCHANGED stored
    /\ UNCHANGED <<desk, vars, conf, saved, raced>>

\* It is done, or stops half way.
EndScript ==
    /\ script # Void
    /\ script' = Void
    /\ UNCHANGED <<desk, stored, vars, conf, saved, raced>>

SecretsStep ==
    \/ \E p \in Servers : Submit(p) \/ Restart(p)
    \/ Rotate \/ Retire \/ StartScript \/ EndScript
    \/ \E k \in Secrets : ScriptStep(k)

\* Through rotations, stopped scripts and servers on older variables, every
\* setting can be read with the variables there are, and is the one last sent;
\* only a secret sent between the script's read and its write may be lost.
SecretSurvives ==
    \A k \in SettingKeys : stored[k] # Void =>
        /\ Readable(stored[k], vars)
        /\ \A p \in Servers : conf[p] = vars => Readable(stored[k], conf[p])
        /\ raced[k] \/ stored[k].value = saved[k]

=============================================================================
