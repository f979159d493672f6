------------------------------ MODULE Preferences ------------------------------
(***************************************************************************)
(* What saving settings promises the operator (settings_store.update and   *)
(* the routes): every setting has one value; a save that is accepted gives *)
(* the named ones their new values and leaves the others alone; a save     *)
(* that would not load changes nothing; and nothing else, a restart        *)
(* included, changes a value.  No word of overrides or encryption.         *)
(***************************************************************************)
CONSTANTS
  EDITABLE, SECRET_KEYS,
  Env,         \* the value a setting has before it is saved
  Blank,       \* the empty value
  Masked,      \* what the form shows of a secret that is set
  Unloadable,  \* the pairs of a setting and a value that do not load
  Changes,     \* what a form may submit: functions from some settings
  Removals     \* the settings it may ask to remove

VARIABLE value

\* The field of a secret is blank or masked unless it is changed.
Keeps(k, v) == k \in SECRET_KEYS /\ v \in {Blank, Masked}

Asked(changes, clear) ==
  [k \in EDITABLE |->
     IF k \in clear THEN Blank
     ELSE IF k \in DOMAIN changes /\ ~Keeps(k, changes[k]) THEN changes[k]
     ELSE value[k]]

Save(changes, clear) ==
  /\ value' = Asked(changes, clear)
  /\ \A k \in EDITABLE : <<k, value'[k]>> \notin Unloadable

Spec == value = Env /\ [][\E c \in Changes, r \in Removals : Save(c, r)]_value
================================================================================
