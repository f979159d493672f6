-------------------------- MODULE AdminConsoleProofs --------------------------
(***************************************************************************)
(* Proofs about AdminConsole, for any settings, sessions and certificates. *)
(*                                                                         *)
(* KeyInv says where the secret key is at every point of the start, and    *)
(* that the table never holds a secret under another key than that of the  *)
(* key file: what a start needs to load the settings.  PairInv says that   *)
(* the TLS files belong together unless a crash fell between them, and     *)
(* that nobody is between them in a process that does not run.             *)
(***************************************************************************)
EXTENDS AdminConsole, TLAPS

KeyInv ==
  /\ pc \in {"keyed", "loaded", "up"} => key = keyfile /\ keyfile \notin {NoFile, Empty}
  /\ pc = "generating" => keyfile = Empty /\ key \in 1 .. made
  /\ keyfile \in {NoFile, Empty} => Sealed(rows) = {}
  /\ Readable(rows, keyfile)

PairInv ==
  /\ ~cut => IF writing = Nothing THEN Active => cert = tlskey
             ELSE cert = writing
  /\ writing # Nothing => pc \in {"loaded", "up"}

\* What is stored always loads.
StoredLoads == Loads(Overlay(rows))

\* A revocation outlives the cookie it is for.
RevokedLongEnough ==
  \A s \in Sids : revoked[s] # 0 =>
    sess[s] # NoSession /\ revoked[s] >= sess[s].issued + SESSION_TTL

IInv == TypeOK /\ KeyInv /\ PairInv /\ StoredLoads /\ RunningIsStored
               /\ RevokedLongEnough /\ StartsUnlessCut

USE DEF files, logins, budget, vars

-------------------------------------------------------------------------------
(* The table *)

\* What loads is not changed by ignoring what does not.
LEMMA EffectiveOfLoadable ==
  ASSUME NEW r, Loads(Overlay(r))
  PROVE  Effective(r) = Overlay(r)
BY DEF Effective, Overlay, Loads

\* An update stores secrets under the key it is given, or leaves them alone.
LEMMA UpdateSeals ==
  ASSUME NEW r, NEW k, NEW c, NEW clear, Readable(r, k)
  PROVE  Readable(Updated(r, k, c, clear), k)
<1> DEFINE new == Updated(r, k, c, clear)
<1> SUFFICES ASSUME NEW e \in Sealed(new) PROVE new[e].key = k
  BY DEF Readable
<1>1. e \in SECRET_KEYS /\ e \in Overridden(r, c, clear) /\ new[e].value # Blank
  BY DEF Sealed, Updated
<1>2. e \notin clear
  BY <1>1 DEF Updated, Row
<1>3. CASE Kept(e, c)
  <2>1. e \in DOMAIN r /\ new[e] = r[e]
    BY <1>1, <1>2, <1>3 DEF Overridden, Updated
  <2> QED
    BY <1>1, <2>1 DEF Readable, Sealed
<1>4. CASE ~Kept(e, c)
  BY <1>1, <1>2, <1>4 DEF Updated, Saved, Row
<1> QED
  BY <1>3, <1>4

\* The rows of an update are settings.
LEMMA UpdateDomain ==
  ASSUME NEW r, NEW k, NEW c, NEW clear
  PROVE  DOMAIN Updated(r, k, c, clear) \subseteq EDITABLE
BY DEF Updated, Overridden

\* What an update does to the value of each setting.
LEMMA UpdateOverlay ==
  ASSUME NEW r, NEW k, NEW c, NEW clear
  PROVE  Overlay(Updated(r, k, c, clear)) =
           [e \in EDITABLE |-> IF e \in clear THEN Blank
                               ELSE IF Kept(e, c) THEN Overlay(r)[e]
                               ELSE c[e]]
<1> DEFINE new == Updated(r, k, c, clear)
<1> SUFFICES ASSUME NEW e \in EDITABLE
             PROVE  Overlay(new)[e] = IF e \in clear THEN Blank
                                      ELSE IF Kept(e, c) THEN Overlay(r)[e]
                                      ELSE c[e]
  BY Zenon DEF Overlay
<1>1. Overlay(new)[e] = IF e \in Overridden(r, c, clear) THEN new[e].value ELSE Env[e]
  BY DEF Overlay, Updated
<1>2. CASE e \in clear
  BY <1>1, <1>2 DEF Overridden, Updated, Row
<1>3. CASE e \notin clear /\ Kept(e, c)
  BY <1>1, <1>3 DEF Overridden, Updated, Overlay
<1>4. CASE e \notin clear /\ ~Kept(e, c)
  BY <1>1, <1>4 DEF Overridden, Updated, Saved, Row
<1> QED
  BY <1>2, <1>3, <1>4

-------------------------------------------------------------------------------
(* The invariant, conjunct by conjunct *)

\* A save that is accepted, in the terms the invariants are about.
LEMMA SaveKeeps ==
  ASSUME IInv, NEW c \in Changes, NEW r \in Removals, SaveSettings(c, r)
  PROVE  /\ Readable(rows', keyfile) /\ key = keyfile /\ keyfile \notin {NoFile, Empty}
         /\ DOMAIN rows' \subseteq EDITABLE
         /\ Loads(Overlay(rows'))
         /\ live' = IF Builds(Overlay(rows')) THEN Overlay(rows') ELSE live
         /\ pc = "up" /\ pc' = "up"
<1> DEFINE new == Updated(rows, key, c, r)
<1>1. /\ rows' = new /\ pc = "up" /\ pc' = pc /\ Loads(Overlay(new))
      /\ live' = IF Builds(Effective(new)) THEN Effective(new) ELSE live
  BY DEF SaveSettings, Ready, Accepted
<1>2. key = keyfile /\ keyfile \notin {NoFile, Empty} /\ Readable(rows, key)
  BY <1>1 DEF IInv, KeyInv
<1>3. Readable(new, key)
  BY <1>2, UpdateSeals
<1>4. Effective(new) = Overlay(new)
  BY <1>1, EffectiveOfLoadable
<1> QED
  BY <1>1, <1>2, <1>3, <1>4, UpdateDomain

LEMMA InitHolds == Init => IInv
<1> SUFFICES ASSUME Init PROVE IInv
  OBVIOUS
<1> USE DEF Init
<1>1. DOMAIN rows = {} /\ Sealed(rows) = {}
  BY DEF Sealed
<1>2. Overlay(rows) = Env
  BY <1>1, StoreAssumption DEF Overlay
<1>3. DOMAIN Env = EDITABLE
  BY StoreAssumption
<1>4. TypeOK
  <2>1. rows = [k \in {} |-> NoKey] /\ DOMAIN rows \subseteq EDITABLE
    BY <1>1
  <2>2. \A k \in Sealed(rows) : rows[k].key \in 1 .. made
    BY <1>1
  <2>3. DOMAIN live = EDITABLE
    BY <1>3
  <2>4. DOMAIN sess = Sids /\ \A s \in Sids : sess[s] = NoSession
    OBVIOUS
  <2>5. revoked \in [Sids -> Nat] /\ {clock, made, saves, crashes} \subseteq Nat
    OBVIOUS
  <2> QED
    BY <2>1, <2>2, <2>3, <2>4, <2>5 DEF TypeOK
<1>5. KeyInv /\ PairInv
  BY <1>1 DEF KeyInv, PairInv, Active, Readable
<1>6. StoredLoads
  BY <1>2, StoreAssumption DEF StoredLoads, Loads
<1> QED
  BY <1>4, <1>5, <1>6 DEF IInv, RunningIsStored, RevokedLongEnough, StartsUnlessCut

LEMMA TypeStep ==
  ASSUME IInv, [Next]_vars
  PROVE  TypeOK'
<1> USE ConsoleAssumption DEF IInv, TypeOK
<1>1. CASE ReadKey
  BY <1>1 DEF ReadKey, Sealed
<1>2. CASE GenerateKey
  BY <1>2 DEF GenerateKey, Sealed
<1>3. CASE WriteKey
  BY <1>3 DEF WriteKey, KeyInv, Sealed
<1>4. CASE LoadSettings
  BY <1>4 DEF LoadSettings, Effective, Sealed
<1>5. CASE SelfSign \/ SelfSignFails \/ SecondFile \/ Serve
  BY <1>5 DEF SelfSign, SelfSignFails, FirstFile, SecondFile, Serve, Sealed
<1>6. CASE OpenSetupLink \/ Admit \/ Remove
  BY <1>6 DEF OpenSetupLink, Admit, Remove, FirstFile, Sealed
<1>7. ASSUME NEW s \in Sids, Login(s)
      PROVE  TypeOK'
  BY <1>7 DEF Login, Sealed
<1>8. ASSUME NEW s \in Sids, Logout(s)
      PROVE  TypeOK'
  <2>1. revoked' \in [Sids -> Nat]
    BY <1>8 DEF Logout, Purged
  <2> QED
    BY <1>8, <2>1 DEF Logout, Sealed
<1>9. ASSUME NEW c \in Changes, NEW r \in Removals, SaveSettings(c, r)
      PROVE  TypeOK'
  <2>1. Readable(rows', keyfile) /\ keyfile \in 1 .. made /\ DOMAIN rows' \subseteq EDITABLE
    BY <1>9, SaveKeeps
  <2>2. DOMAIN live' = EDITABLE
    <3>1. DOMAIN Overlay(rows') = EDITABLE
      BY DEF Overlay
    <3> QED
      BY <1>9, <3>1, SaveKeeps
  <2>3. \A k \in Sealed(rows)' : rows'[k].key \in 1 .. made
    BY <2>1 DEF Readable
  <2>4. saves' \in Nat /\ UNCHANGED <<clock, made, crashes>> /\ {clock, made, crashes} \subseteq Nat
    BY <1>9 DEF SaveSettings
  <2>5. {clock, made, saves, crashes}' \subseteq Nat
    BY <2>4
  <2>6. UNCHANGED <<keyfile, cert, tlskey, pc, key, writing, link, sess, revoked, clock, made, cut>>
        /\ admitted' = admitted
    BY <1>9 DEF SaveSettings
  <2> QED
    BY <2>1, <2>2, <2>3, <2>5, <2>6
<1>10. ASSUME NEW c \in Pairs, NEW k \in Pairs, Import(c, k)
       PROVE  TypeOK'
  BY <1>10 DEF Import, FirstFile, Sealed
<1>11. CASE Tick
  BY <1>11 DEF Tick, Sealed
<1>12. CASE Crash
  <2>1. UNCHANGED <<files, key, live, sess, clock, made, saves>>
        /\ pc' = "down" /\ writing' = Nothing /\ link' = FALSE /\ admitted' = FALSE
        /\ cut' \in BOOLEAN
    BY <1>12 DEF Crash
  <2>2. crashes' \in Nat /\ revoked' \in [Sids -> Nat]
    BY <1>12 DEF Crash
  <2> QED
    BY <2>1, <2>2 DEF Sealed
<1>13. CASE UNCHANGED vars
  BY <1>13 DEF Sealed
<1> QED
  BY <1>1, <1>2, <1>3, <1>4, <1>5, <1>6, <1>7, <1>8, <1>9, <1>10, <1>11, <1>12, <1>13
  DEF Next, Start

LEMMA KeyStep ==
  ASSUME IInv, [Next]_vars
  PROVE  KeyInv'
<1> USE DEF IInv, KeyInv
<1>1. CASE ReadKey
  BY <1>1 DEF ReadKey, Readable, Sealed
<1>2. CASE GenerateKey
  <2>1. made + 1 \in 1 .. made'
    BY <1>2, ConsoleAssumption DEF GenerateKey, TypeOK
  <2>2. Sealed(rows) = {} /\ Sealed(rows') = {}
    BY <1>2 DEF GenerateKey, Sealed
  <2> QED
    BY <1>2, <2>1, <2>2 DEF GenerateKey, Readable
<1>3. CASE WriteKey
  BY <1>3, ConsoleAssumption DEF WriteKey, Readable, Sealed, TypeOK
<1>4. CASE LoadSettings \/ SelfSign \/ SelfSignFails \/ SecondFile \/ Serve
  BY <1>4 DEF LoadSettings, SelfSign, SelfSignFails, FirstFile, SecondFile, Serve, Readable,
              Sealed
<1>5. CASE OpenSetupLink \/ Admit \/ Remove \/ Tick \/ Crash
  BY <1>5 DEF OpenSetupLink, Admit, Remove, FirstFile, Tick, Crash, Readable, Sealed
<1>6. ASSUME NEW s \in Sids, Login(s) \/ Logout(s)
      PROVE  KeyInv'
  BY <1>6 DEF Login, Logout, Readable, Sealed
<1>7. ASSUME NEW c \in Changes, NEW r \in Removals, SaveSettings(c, r)
      PROVE  KeyInv'
  <2>1. Readable(rows', keyfile) /\ key = keyfile /\ keyfile \notin {NoFile, Empty}
    BY <1>7, SaveKeeps
  <2> QED
    BY <1>7, <2>1 DEF SaveSettings, Ready
<1>8. ASSUME NEW c \in Pairs, NEW k \in Pairs, Import(c, k)
      PROVE  KeyInv'
  BY <1>8 DEF Import, FirstFile, Readable, Sealed
<1>9. CASE UNCHANGED vars
  BY <1>9 DEF Readable, Sealed
<1> QED
  BY <1>1, <1>2, <1>3, <1>4, <1>5, <1>6, <1>7, <1>8, <1>9 DEF Next, Start

LEMMA PairStep ==
  ASSUME IInv, [Next]_vars
  PROVE  PairInv'
<1> USE ConsoleAssumption DEF IInv, PairInv, Active
<1>1. CASE ReadKey \/ GenerateKey \/ WriteKey \/ LoadSettings \/ SelfSignFails \/ Serve
  BY <1>1 DEF ReadKey, GenerateKey, WriteKey, LoadSettings, SelfSignFails, Serve
<1>2. CASE SelfSign
  BY <1>2 DEF SelfSign, FirstFile
<1>3. CASE SecondFile
  BY <1>3 DEF SecondFile
<1>4. CASE OpenSetupLink \/ Admit \/ Tick
  BY <1>4 DEF OpenSetupLink, Admit, Tick
<1>5. CASE Remove
  BY <1>5 DEF Remove, FirstFile, Ready
<1>6. ASSUME NEW s \in Sids, Login(s) \/ Logout(s)
      PROVE  PairInv'
  BY <1>6 DEF Login, Logout
<1>7. ASSUME NEW c \in Changes, NEW r \in Removals, SaveSettings(c, r)
      PROVE  PairInv'
  BY <1>7 DEF SaveSettings
<1>8. ASSUME NEW c \in Pairs, NEW k \in Pairs, Import(c, k)
      PROVE  PairInv'
  BY <1>8 DEF Import, Matches, FirstFile, Ready
<1>9. CASE Crash
  BY <1>9 DEF Crash
<1>10. CASE UNCHANGED vars
  BY <1>10
<1> QED
  BY <1>1, <1>2, <1>3, <1>4, <1>5, <1>6, <1>7, <1>8, <1>9, <1>10 DEF Next, Start

\* Only a save changes the table.
LEMMA RowsChange ==
  ASSUME IInv, [Next]_vars
  PROVE  \/ rows' = rows
         \/ \E c \in Changes, r \in Removals : SaveSettings(c, r)
BY DEF Next, Start, ReadKey, GenerateKey, WriteKey, LoadSettings, SelfSign, SelfSignFails, FirstFile,
       SecondFile, Serve, OpenSetupLink, Admit, Remove, Login, Logout, Import, Tick, Crash

LEMMA StoredStep ==
  ASSUME IInv, [Next]_vars
  PROVE  StoredLoads'
<1>1. CASE rows' = rows
  BY <1>1 DEF IInv, StoredLoads, Loads, Overlay
<1>2. ASSUME NEW c \in Changes, NEW r \in Removals, SaveSettings(c, r)
      PROVE  StoredLoads'
  BY <1>2, SaveKeeps DEF StoredLoads
<1> QED
  BY <1>1, <1>2, RowsChange

LEMMA RunningStep ==
  ASSUME IInv, [Next]_vars
  PROVE  RunningIsStored'
<1> USE DEF IInv, RunningIsStored
<1>1. ASSUME NEW c \in Changes, NEW r \in Removals, SaveSettings(c, r)
      PROVE  RunningIsStored'
  <2>1. Builds(live)
    BY <1>1, SaveKeeps
  <2>2. live' = IF Builds(Overlay(rows')) THEN Overlay(rows') ELSE live
    BY <1>1, SaveKeeps
  <2>3. Builds(live') /\ (live' = Overlay(rows') \/ ~Builds(Overlay(rows')))
    BY <2>1, <2>2
  <2> QED
    BY <2>3
<1>2. CASE LoadSettings
  <2>1. Effective(rows) = Overlay(rows)
    BY EffectiveOfLoadable DEF StoredLoads
  <2>2. rows' = rows
    BY <1>2 DEF LoadSettings
  <2>3. pc' \in {"loaded", "up"} => live' = Overlay(rows) /\ Builds(Overlay(rows))
    BY <1>2, <2>1 DEF LoadSettings
  <2> QED
    BY <2>2, <2>3
<1>3. CASE /\ rows' = rows /\ ~LoadSettings
           /\ ~\E c \in Changes, r \in Removals : SaveSettings(c, r)
  <2>1. live' = live /\ (pc' \in {"loaded", "up"} => pc \in {"loaded", "up"})
    BY <1>3 DEF Next, Start, ReadKey, GenerateKey, WriteKey, SelfSign, SelfSignFails, FirstFile,
                SecondFile, Serve, OpenSetupLink, Admit, Remove, Login, Logout, Import, Tick,
                Crash
  <2> QED
    BY <1>3, <2>1
<1> QED
  BY <1>1, <1>2, <1>3, RowsChange

LEMMA RevokedStep ==
  ASSUME IInv, [Next]_vars
  PROVE  RevokedLongEnough'
<1> USE ConsoleAssumption DEF IInv, TypeOK, RevokedLongEnough
<1>1. ASSUME NEW s \in Sids, Login(s)
      PROVE  RevokedLongEnough'
  BY <1>1 DEF Login
<1>2. ASSUME NEW s \in Sids, Logout(s)
      PROVE  RevokedLongEnough'
  <2>1. sess' = sess /\ sess[s] # NoSession
    BY <1>2 DEF Logout
  <2>2. \A t \in Sids : revoked'[t] \in {0, revoked[t]} \/ (t = s /\ revoked'[t] = clock + SESSION_TTL)
    BY <1>2 DEF Logout, Purged
  <2> QED
    BY <2>1, <2>2
<1>3. CASE Crash
  BY <1>3 DEF Crash
<1>4. CASE UNCHANGED <<sess, revoked>>
  BY <1>4
<1> QED
  BY <1>1, <1>2, <1>3, <1>4
  DEF Next, Start, ReadKey, GenerateKey, WriteKey, LoadSettings, SelfSign, SelfSignFails, FirstFile,
      SecondFile, Serve, OpenSetupLink, Admit, Remove, Import, Tick, SaveSettings

\* What a running process could not use, no start can.
LEMMA StoredIsUsed ==
  ASSUME IInv, pc \in {"loaded", "up"}, Startable
  PROVE  live = Overlay(rows)
BY DEF IInv, RunningIsStored, Startable

LEMMA StartsStep ==
  ASSUME IInv, [Next]_vars
  PROVE  StartsUnlessCut'
<1> USE DEF IInv, StartsUnlessCut
<1>1. CASE LoadSettings
  <2>1. Effective(rows) = Overlay(rows)
    BY EffectiveOfLoadable DEF StoredLoads
  <2>2. Readable(rows, key)
    BY <1>1 DEF LoadSettings, KeyInv
  <2>3. pc' = "failed" => ~Startable
    BY <1>1, <2>1, <2>2 DEF LoadSettings, Startable
  <2>4. UNCHANGED <<rows, cert, tlskey>>
    BY <1>1 DEF LoadSettings
  <2> QED
    BY <2>3, <2>4 DEF Startable, WantsSelfSigned, Active
<1>2. CASE SelfSignFails
  <2>1. ~Startable
    BY <1>2, StoredIsUsed DEF SelfSignFails, Startable
  <2> QED
    BY <1>2, <2>1 DEF SelfSignFails, Startable, WantsSelfSigned, Active
<1>3. CASE Serve
  <2>1. /\ (Active \/ SelfSigned # NoFile) = Active
        /\ UNCHANGED <<rows, cert, tlskey, cut>> /\ pc = "loaded" /\ writing = Nothing
    BY <1>3 DEF Serve, WantsSelfSigned, Active
  <2>2. ASSUME pc' = "failed", ~cut
        PROVE  ~Startable
    <3>1. Port(live, Active) = "https_port" => cert = tlskey
      BY <2>1, <2>2 DEF PairInv, Port
    <3>2. ~Binds(live, Active)
      BY <1>3, <2>2, <3>1 DEF Serve
    <3> QED
      BY <2>1, <3>2, StoredIsUsed DEF Startable
  <2> QED
    BY <2>1, <2>2 DEF Startable, WantsSelfSigned, Active
<1>4. CASE Crash
  BY <1>4 DEF Crash
<1>5. CASE ~LoadSettings /\ ~SelfSignFails /\ ~Serve /\ ~Crash
  <2>1. pc' = "failed" => pc = "failed" /\ UNCHANGED <<rows, cert, tlskey, cut>>
    BY <1>5 DEF Next, Start, ReadKey, GenerateKey, WriteKey, SelfSign, FirstFile, SecondFile,
                OpenSetupLink, Admit, Remove, Login, Logout, Import, Tick, SaveSettings, Ready,
                PairInv
  <2> QED
    BY <2>1 DEF Startable, WantsSelfSigned, Active
<1> QED
  BY <1>1, <1>2, <1>3, <1>4, <1>5

LEMMA Inductive == Spec => []IInv
<1>1. IInv /\ [Next]_vars => IInv'
  BY TypeStep, KeyStep, PairStep, StoredStep, RunningStep, RevokedStep, StartsStep DEF IInv
<1> QED
  BY InitHolds, <1>1, PTL DEF Spec

-------------------------------------------------------------------------------
\* Every variable has its type, and no secret is stored in the clear, for any
\* settings and forms (settings_store.py, tls.py, web/auth.py).
THEOREM TypeCorrect == Spec => []TypeOK
BY Inductive, PTL DEF IInv

\* What the process runs with is what the table says, whatever was saved and
\* wherever the process was killed, or, while that cannot be built into
\* components, settings that could (settings_store.update, AppContext.reload).
THEOREM RunsWhatIsStored == Spec => []RunningIsStored
BY Inductive, PTL DEF IInv

\* A start fails only for a stored setting it cannot use (app.build,
\* _build_components, uvicorn) or after a crash between the two TLS files: the
\* key written by resolve_secret_key reads every stored secret, always.
THEOREM StartNeedsNoHelp == Spec => []StartsUnlessCut
BY Inductive, PTL DEF IInv

\* Setup mode is left once and for all (routes_api.update_settings).
THEOREM SetupStaysClosed == Spec => SetupNeverReopens
<1>1. IInv /\ [Next]_vars => [HasPassword => HasPassword']_vars
  <2> SUFFICES ASSUME IInv, [Next]_vars, HasPassword
               PROVE  HasPassword'
    OBVIOUS
  <2>1. CASE rows' = rows
    BY <2>1 DEF HasPassword, Overlay
  <2>2. ASSUME NEW c \in Changes, NEW r \in Removals, SaveSettings(c, r)
        PROVE  HasPassword'
    <3>1. "ui_password" \notin r /\ rows' = Updated(rows, key, c, r)
      BY <2>2 DEF SaveSettings, Refused
    <3>2. Overlay(rows')["ui_password"] \in {Overlay(rows)["ui_password"], c["ui_password"]}
          /\ (~Kept("ui_password", c) \/ Overlay(rows')["ui_password"] = Overlay(rows)["ui_password"])
      BY <3>1, UpdateOverlay, PasswordAssumption, StoreAssumption
    <3> QED
      BY <3>1, <3>2, UpdateOverlay, PasswordAssumption, StoreAssumption DEF Kept, HasPassword
  <2> QED
    BY <2>1, <2>2, RowsChange
<1> QED
  BY <1>1, Inductive, PTL DEF Spec, SetupNeverReopens

\* Saving keeps its promise to the operator: the table of overrides over the
\* environment implements one value per setting (settings_store.update).
THEOREM StoreKeepsPromise == Spec => SavesAsAsked
<1>1. Init => Overlay(rows) = Env
  BY StoreAssumption DEF Init, Overlay
<1>2. IInv /\ [Next]_vars => [\E c \in Changes, r \in Removals : Promised!Save(c, r)]_(Overlay(rows))
  <2> SUFFICES ASSUME IInv, [Next]_vars
               PROVE  \/ \E c \in Changes, r \in Removals : Promised!Save(c, r)
                      \/ Overlay(rows)' = Overlay(rows)
    OBVIOUS
  <2>1. CASE rows' = rows
    BY <2>1 DEF Overlay
  <2>2. ASSUME NEW c \in Changes, NEW r \in Removals, SaveSettings(c, r)
        PROVE  Promised!Save(c, r)
    <3>1. rows' = Updated(rows, key, c, r) /\ Loads(Overlay(rows'))
      BY <2>2 DEF SaveSettings, Accepted
    <3>2. Overlay(rows') = Promised!Asked(c, r)
      BY <3>1, UpdateOverlay DEF Promised!Asked, Promised!Keeps, Kept
    <3> QED
      BY <3>1, <3>2 DEF Promised!Save, Loads
  <2> QED
    BY <2>1, <2>2, RowsChange
<1> QED
  BY <1>1, <1>2, Inductive, PTL DEF Spec, SavesAsAsked, Promised!Spec

\* A session that was logged out, or is too old, is not good again while the
\* process runs: a revocation is dropped only when its cookie has expired
\* (web/auth.revoke_session).
THEOREM EndedSessionsStayEnded == Spec => EndedStaysEnded
<1>1. IInv /\ [Next]_vars =>
        [\A s \in Sids :
           (/\ pc = "up" /\ pc' = "up"
            /\ live'["ui_password"] = live["ui_password"]
            /\ sess[s] # NoSession
            /\ ~is_authenticated(s))
           => \/ ~is_authenticated(s)'
              \/ clock - sess[s].issued >= SESSION_TTL]_vars
  <2> SUFFICES ASSUME IInv, [Next]_vars, NEW s \in Sids,
                      pc = "up", pc' = "up", live'["ui_password"] = live["ui_password"],
                      sess[s] # NoSession, ~is_authenticated(s),
                      clock - sess[s].issued < SESSION_TTL
               PROVE  ~is_authenticated(s)'
    BY ConsoleAssumption DEF IInv, TypeOK
  <2> USE ConsoleAssumption DEF IInv, TypeOK
  <2>1. key' = key /\ sess'[s] = sess[s] /\ clock' >= clock
    BY DEF Next, Start, ReadKey, GenerateKey, WriteKey, LoadSettings, SelfSign, SelfSignFails, FirstFile,
           SecondFile, Serve, OpenSetupLink, Admit, Remove, Login, Logout, Import, Tick,
           Crash, SaveSettings
  <2>2. revoked[s] # 0 => revoked'[s] # 0
    <3>1. revoked[s] # 0 => revoked[s] > clock
      BY DEF RevokedLongEnough
    <3>2. ASSUME NEW t \in Sids, Logout(t), revoked[s] # 0
          PROVE  revoked'[s] # 0
      BY <3>1, <3>2 DEF Logout, Purged
    <3> QED
      BY <3>2 DEF Next, Start, ReadKey, GenerateKey, WriteKey, LoadSettings, SelfSign, SelfSignFails, FirstFile,
           SecondFile, Serve, OpenSetupLink, Admit, Remove, Login, Import, Tick,
           Crash, SaveSettings
  <2> QED
    BY <2>1, <2>2 DEF is_authenticated, Signed, in_setup_mode
<1> QED
  BY <1>1, Inductive, PTL DEF Spec, EndedStaysEnded
===============================================================================
