------------------------------ MODULE AdminConsole ------------------------------
(***************************************************************************)
(* The installation around the flow: the start of the process (app.build,  *)
(* config.resolve_secret_key), settings that are saved and applied live    *)
(* (routes_api, AppContext.reload), the sessions of the operators          *)
(* (web/auth.py) with first-run setup, and the TLS files (tls.py).         *)
(*                                                                         *)
(* Handlers and the start run without a wait between their effects, so     *)
(* that only a crash comes between two of them: between opening the key    *)
(* file and its content, and between the certificate and its key.          *)
(* Certificates and keys are numbered; those that belong together have the *)
(* same number.                                                            *)
(*                                                                         *)
(* Loading is not the last word on a setting: the components are built of  *)
(* the settings, files opened and ports bound.  What fails there although  *)
(* pydantic accepts it is a set of pairs of a setting and a value.         *)
(***************************************************************************)
EXTENDS Integers, SettingsStore

CONSTANTS
  Changes, Removals,   \* what the form may submit, and ask to remove
  Sids, SESSION_TTL,
  Pairs,               \* certificates that may be imported
  SelfSigned,          \* the certificate TLS_SELF_SIGNED makes, or NoFile
  Unusable,            \* settings that load, and fail when they are used
  NoFile, Empty, NoSession, Nothing,
  MaxKeys, MaxSaves, MaxCrashes, MaxClock

ASSUME ConsoleAssumption ==
  /\ {MaxKeys, MaxSaves, MaxCrashes, MaxClock, SESSION_TTL} \subseteq Nat
  /\ NoFile \notin Pairs
  /\ Nothing \notin {NoFile, SelfSigned} \cup Pairs
  /\ {NoFile, Empty, NoKey} \cap Nat = {}

ASSUME PasswordAssumption == "ui_password" \in SECRET_KEYS

ASSUME UsedAssumption ==
  {"ex_base_url", "log_file", "public_base_url", "https_enabled",
   "web_host", "web_port", "https_port"} \subseteq EDITABLE

VARIABLES
  keyfile,   \* secret.key
  rows,      \* the table of settings
  cert, tlskey, \* the files under DATA_DIR/tls
  pc,        \* the process
  key,       \* its secret key
  live,      \* engine.settings
  writing,   \* what the key file is about to be, or Nothing
  link,      \* does the operator's browser hold the setup token of this start?
  admitted,  \* have requests passed guard_settings, in this process?
  sess,      \* the cookies, signed with a secret key
  revoked,   \* _revoked
  clock,
  made, saves, crashes, cut

files == <<keyfile, rows, cert, tlskey>>
logins == <<sess, revoked, clock>>
budget == <<made, saves, crashes>>
vars == <<files, pc, key, live, writing, link, admitted, logins, budget, cut>>

Init ==
  /\ keyfile = NoFile
  /\ rows = [k \in {} |-> NoKey]
  /\ cert = NoFile /\ tlskey = NoFile
  /\ pc = "down"
  /\ key = NoKey
  /\ live = Env
  /\ writing = Nothing
  /\ link = FALSE
  /\ admitted = FALSE
  /\ sess = [s \in Sids |-> NoSession]
  /\ revoked = [s \in Sids |-> 0]
  /\ clock = 0
  /\ made = 0 /\ saves = 0 /\ crashes = 0
  /\ cut = FALSE

-------------------------------------------------------------------------------
(* What the settings are used for *)

Usable(k, values) == <<k, values[k]>> \notin Unusable

\* _build_components: httpx refuses a base URL that it cannot parse.
Builds(values) == Usable("ex_base_url", values)

\* active_paths: both files are there.
Active == cert # NoFile /\ tlskey # NoFile

\* serving: HTTPS if it is wanted and there are files, else HTTP.
Port(values, tls) ==
  IF values["https_enabled"] = "true" /\ tls THEN "https_port" ELSE "web_port"

\* uvicorn binds the host and the port.
Binds(values, tls) == Usable("web_host", values) /\ Usable(Port(values, tls), values)

-------------------------------------------------------------------------------
(* The start *)

\* resolve_secret_key: the key that is there, unless the file is empty.
ReadKey ==
  /\ pc = "down"
  /\ keyfile \notin {NoFile, Empty}
  /\ key' = keyfile
  /\ pc' = "keyed"
  /\ UNCHANGED <<files, live, writing, link, admitted, logins, budget, cut>>

\* write_text opens the file, and the key is in it when it is closed.
GenerateKey ==
  /\ pc = "down"
  /\ keyfile \in {NoFile, Empty}
  /\ made < MaxKeys
  /\ made' = made + 1
  /\ key' = made + 1
  /\ keyfile' = Empty
  /\ pc' = "generating"
  /\ UNCHANGED <<rows, cert, tlskey, live, writing, link, admitted, logins, saves, crashes, cut>>

\* (mutant) the key is used without being stored
WriteKeyNever ==
  /\ pc = "generating"
  /\ pc' = "keyed"
  /\ UNCHANGED <<files, key, live, writing, link, admitted, logins, budget, cut>>

WriteKey ==
  /\ pc = "generating"
  /\ keyfile' = key
  /\ pc' = "keyed"
  /\ UNCHANGED <<rows, cert, tlskey, key, live, writing, link, admitted, logins, budget, cut>>

\* AppContext and _configure_logging: a secret that cannot be decrypted is an
\* InvalidToken, components may not be built and the log file may not open.
\* Nothing catches any of it.
LoadSettings ==
  LET new == Effective(rows)
  IN  /\ pc = "keyed"
      /\ IF Readable(rows, key) /\ Builds(new) /\ Usable("log_file", new)
         THEN pc' = "loaded" /\ live' = new
         ELSE pc' = "failed" /\ UNCHANGED live
      /\ UNCHANGED <<files, key, writing, link, admitted, logins, budget, cut>>

\* _write and remove: the file of the certificate, then that of the key.
FirstFile(c, k) ==
  /\ writing = Nothing
  /\ cert' = c
  /\ writing' = k
  /\ UNCHANGED <<keyfile, rows, tlskey, pc, key, live, link, admitted, logins, budget, cut>>

SecondFile ==
  /\ writing # Nothing
  /\ tlskey' = writing
  /\ writing' = Nothing
  /\ UNCHANGED <<keyfile, rows, cert, pc, key, live, link, admitted, logins, budget, cut>>

WantsSelfSigned == SelfSigned # NoFile /\ ~Active

\* build: a self-signed certificate if one is asked for and none is there,
\* for the host of the links.
SelfSign == /\ pc = "loaded"
            /\ WantsSelfSigned
            /\ Usable("public_base_url", live)
            /\ FirstFile(SelfSigned, SelfSigned)

\* urlparse refuses the URL.
SelfSignFails ==
  /\ pc = "loaded"
  /\ WantsSelfSigned /\ writing = Nothing
  /\ ~Usable("public_base_url", live)
  /\ pc' = "failed"
  /\ UNCHANGED <<files, key, live, writing, link, admitted, logins, budget, cut>>

\* main: uvicorn refuses files that do not belong together, and a port that
\* it cannot bind.
Serve ==
  /\ pc = "loaded"
  /\ ~WantsSelfSigned
  /\ writing = Nothing
  /\ pc' = IF /\ Binds(live, Active)
              /\ Port(live, Active) = "https_port" => cert = tlskey
           THEN "up" ELSE "failed"
  /\ UNCHANGED <<files, key, live, writing, link, admitted, logins, budget, cut>>

-------------------------------------------------------------------------------
(* Sessions and setup *)

Ready == pc = "up" /\ writing = Nothing

in_setup_mode == live["ui_password"] = Blank

\* The settings page with the setup link: its token becomes a cookie.
OpenSetupLink ==
  /\ Ready /\ in_setup_mode
  /\ link' = TRUE
  /\ UNCHANGED <<files, pc, key, live, writing, admitted, logins, budget, cut>>

\* _session: signed with this key, and not older than the TTL.
Signed(s) ==
  /\ sess[s] # NoSession
  /\ sess[s].key = key
  /\ clock - sess[s].issued <= SESSION_TTL

is_authenticated(s) ==
  /\ Signed(s)
  /\ ~in_setup_mode
  /\ revoked[s] = 0
  /\ sess[s].pw = live["ui_password"]

Allowed == IF in_setup_mode THEN link ELSE \E s \in Sids : is_authenticated(s)

\* guard_settings: it asks before the body of the request is awaited, and
\* nobody asks again after.  Any number of requests may pass it at the same
\* moment and go on at any later one.
Admit ==
  /\ Ready /\ Allowed
  /\ admitted' = TRUE
  /\ UNCHANGED <<files, pc, key, live, writing, link, logins, budget, cut>>

\* The right password.
Login(s) ==
  /\ Ready /\ ~in_setup_mode
  /\ sess[s] = NoSession
  /\ sess' = [sess EXCEPT ![s] = [pw |-> live["ui_password"], key |-> key, issued |-> clock]]
  /\ UNCHANGED <<files, pc, key, live, writing, link, admitted, revoked, clock, budget, cut>>

\* (mutant) a revocation is dropped with the next logout
PurgedAll == [t \in Sids |-> 0]

\* Revocations whose cookie has expired anyway are dropped.
Purged == [t \in Sids |-> IF revoked[t] <= clock THEN 0 ELSE revoked[t]]

\* The cookie is taken from the browser; a copy of it may live on.
Logout(s) ==
  /\ Ready
  /\ sess[s] # NoSession
  /\ revoked' = IF Signed(s) THEN [Purged EXCEPT ![s] = clock + SESSION_TTL] ELSE Purged
  /\ UNCHANGED <<files, pc, key, live, writing, link, admitted, sess, clock, budget, cut>>

Tick ==
  /\ clock < MaxClock
  /\ clock' = clock + 1
  /\ UNCHANGED <<files, pc, key, live, writing, link, admitted, sess, revoked, budget, cut>>

-------------------------------------------------------------------------------
(* Settings and certificates *)

\* (mutant) any setting may be removed
RefusedNever(clear) == FALSE

\* The admin password can be changed, not removed.
Refused(clear) == "ui_password" \in clear

\* (mutant) committed, and validated when it is loaded
AcceptedAlways(values) == TRUE

\* Validated before the commit; otherwise rolled back.
Accepted(values) == Loads(values)

\* POST /api/settings: the update, then the reload.  If the components cannot
\* be built the answer is an error, after the commit, and the engine keeps
\* what it has.
SaveSettings(changes, clear) ==
  LET new == Updated(rows, key, changes, clear)
  IN  /\ Ready /\ admitted
      /\ saves < MaxSaves
      /\ ~Refused(clear)
      /\ Accepted(Overlay(new))
      /\ rows' = new
      /\ live' = IF Builds(Effective(new)) THEN Effective(new) ELSE live
      /\ saves' = saves + 1
      /\ UNCHANGED <<keyfile, cert, tlskey, pc, key, writing, link, admitted, logins, made, crashes, cut>>

\* (mutant) the key is stored as it is
MatchesAny(c, k) == TRUE

\* install_pem compares the public keys; a PKCS#12 file has the pair.
Matches(c, k) == c = k

Import(c, k) == /\ Ready /\ admitted
                /\ Matches(c, k)
                /\ FirstFile(c, k)

Remove == /\ Ready /\ admitted
          /\ FirstFile(NoFile, NoFile)

-------------------------------------------------------------------------------
\* What is in memory is lost: the revocations, and the setup token.
Crash ==
  /\ pc \notin {"down", "failed"}
  /\ crashes < MaxCrashes
  /\ crashes' = crashes + 1
  /\ pc' = "down"
  /\ writing' = Nothing
  /\ link' = FALSE
  /\ admitted' = FALSE
  /\ revoked' = [s \in Sids |-> 0]
  /\ cut' = (cut \/ writing \notin {Nothing, NoFile})
  /\ UNCHANGED <<files, key, live, sess, clock, made, saves>>

\* The operator removes the secret key, to have a new one.
RotateKey ==
  /\ pc = "down"
  /\ keyfile \notin {NoFile, Empty}
  /\ made < MaxKeys
  /\ keyfile' = NoFile
  /\ UNCHANGED <<rows, cert, tlskey, pc, key, live, writing, link, admitted, logins, budget, cut>>

Start == ReadKey \/ GenerateKey \/ WriteKey \/ LoadSettings \/ SelfSign \/ SelfSignFails
         \/ Serve \/ SecondFile

Next ==
  \/ Start
  \/ OpenSetupLink
  \/ Admit
  \/ \E s \in Sids : Login(s) \/ Logout(s)
  \/ \E c \in Changes, r \in Removals : SaveSettings(c, r)
  \/ \E c, k \in Pairs : Import(c, k)
  \/ Remove
  \/ Tick \/ Crash

Spec == Init /\ [][Next]_vars

\* The process is started again, and no step of the start takes for ever.
FairSpec == Spec /\ WF_vars(Start)

\* The installation whose key is replaced.
RotatingSpec == Init /\ [][Next \/ RotateKey]_vars

-------------------------------------------------------------------------------
\* Types; and a stored secret is encrypted with a key.
TypeOK ==
  /\ keyfile \in {NoFile, Empty} \cup (1 .. made)
  /\ DOMAIN rows \subseteq EDITABLE
  /\ \A k \in Sealed(rows) : rows[k].key \in 1 .. made
  /\ {cert, tlskey} \subseteq {NoFile, SelfSigned} \cup Pairs
  /\ pc \in {"down", "generating", "keyed", "loaded", "up", "failed"}
  /\ key \in {NoKey} \cup (1 .. made)
  /\ DOMAIN live = EDITABLE
  /\ writing \in {Nothing, NoFile, SelfSigned} \cup Pairs
  /\ link \in BOOLEAN /\ admitted \in BOOLEAN
  /\ DOMAIN sess = Sids
  /\ \A s \in Sids : sess[s] # NoSession => sess[s].issued \in 0 .. clock
  /\ revoked \in [Sids -> Nat]
  /\ {clock, made, saves, crashes} \subseteq Nat
  /\ cut \in BOOLEAN

\* What runs is what is stored, and can be run: no save is applied in part, and
\* none is stored that has to be ignored when it is loaded, here or after a
\* restart.  Only while the stored settings cannot be built into components,
\* which a reload finds after the commit, does an older whole of them run.
RunningIsStored ==
  pc \in {"loaded", "up"} =>
    /\ Builds(live)
    /\ live = Overlay(rows) \/ ~Builds(Overlay(rows))

\* What is stored can be used by a start: to build the components, to open the
\* log, to make a certificate if one is wanted, and to bind a port.
Startable ==
  LET values == Overlay(rows)
  IN  /\ Builds(values) /\ Usable("log_file", values)
      /\ WantsSelfSigned => Usable("public_base_url", values)
      /\ Binds(values, Active \/ SelfSigned # NoFile)

\* A start fails only for a stored setting that cannot be used, or when a crash
\* had cut the installation of a certificate short: no other crash keeps the
\* process from reading its secrets again, and neither does a save that
\* pydantic refused, or an import.
StartsUnlessCut == pc = "failed" => cut \/ ~Startable

\* Once there is an admin password there always is one: neither a save nor a
\* restart takes the installation back to setup mode.
HasPassword == Overlay(rows)["ui_password"] # Blank
SetupNeverReopens == [][HasPassword => HasPassword']_vars

\* A session that ended, by logout or by its age, stays ended for as long as
\* the process runs and the password is the same, except in the last second
\* of its cookie.
EndedStaysEnded ==
  [][\A s \in Sids :
       (/\ pc = "up" /\ pc' = "up"
        /\ live'["ui_password"] = live["ui_password"]
        /\ sess[s] # NoSession
        /\ ~is_authenticated(s))
       => \/ ~is_authenticated(s)'
          \/ clock - sess[s].issued >= SESSION_TTL]_vars

\* A process that is down comes up again, unless its certificate was cut short
\* or it has a setting that cannot be used.
ComesUp == (pc = "down") ~> (pc = "up" \/ cut \/ ~Startable)

\* What the operator was promised of settings is what the table implements.
Promised == INSTANCE Preferences WITH value <- Overlay(rows)
SavesAsAsked == Promised!Spec
===============================================================================
