----------------------------- MODULE SettingsStore -----------------------------
(***************************************************************************)
(* settings_store.py: the table of overrides over the environment.  The    *)
(* table is a function from the settings that have a row to their rows,    *)
(* and a row is [value, key]: the key a secret is encrypted with.  What    *)
(* pydantic refuses is a set of pairs of a setting and a value; the        *)
(* environment itself loads, or nothing starts.                            *)
(***************************************************************************)
CONSTANTS EDITABLE, SECRET_KEYS, Env, Blank, Masked, Unloadable, NoKey

ASSUME StoreAssumption ==
  /\ SECRET_KEYS \subseteq EDITABLE
  /\ Env = [k \in EDITABLE |-> Env[k]]
  /\ \A k \in EDITABLE : <<k, Env[k]>> \notin Unloadable

Row(v, key) == [value |-> v, key |-> key]

\* The rows whose value is encrypted; an empty one is not.
Sealed(rows) == {k \in SECRET_KEYS : k \in DOMAIN rows /\ rows[k].value # Blank}

\* Every secret can be decrypted with the key of this process.
Readable(rows, key) == \A k \in Sealed(rows) : rows[k].key = key

\* _read_overrides over the environment.
Overlay(rows) ==
  [k \in EDITABLE |-> IF k \in DOMAIN rows THEN rows[k].value ELSE Env[k]]

Loads(values) == \A k \in EDITABLE : <<k, values[k]>> \notin Unloadable

\* effective_settings: an override that does not load is ignored.
Effective(rows) ==
  [k \in EDITABLE |-> IF <<k, Overlay(rows)[k]>> \in Unloadable
                      THEN Env[k] ELSE Overlay(rows)[k]]

Kept(k, changes) ==
  \/ k \notin DOMAIN changes
  \/ k \in SECRET_KEYS /\ changes[k] \in {Blank, Masked}

\* (mutant) removing a setting deletes its row
OverriddenUnlessCleared(rows, changes, clear) ==
  {k \in EDITABLE \ clear :
     IF Kept(k, changes) THEN k \in DOMAIN rows ELSE changes[k] # Env[k]}

\* The settings with a row after an update: what is removed has an empty one,
\* which hides the environment too, and what equals the environment has none.
Overridden(rows, changes, clear) ==
  {k \in EDITABLE :
     \/ k \in clear
     \/ IF Kept(k, changes) THEN k \in DOMAIN rows ELSE changes[k] # Env[k]}

\* (mutant) secrets are stored as they are
SavedPlain(k, v, key) == Row(v, NoKey)

Saved(k, v, key) == Row(v, IF k \in SECRET_KEYS THEN key ELSE NoKey)

\* update, before it is validated.
Updated(rows, key, changes, clear) ==
  [k \in Overridden(rows, changes, clear) |->
     IF k \in clear THEN Row(Blank, NoKey)
     ELSE IF Kept(k, changes) THEN rows[k]
     ELSE Saved(k, changes[k], key)]
================================================================================
