--------------------------- MODULE FlowEngineClaims ---------------------------
(***************************************************************************)
(* What the documentation, the comments and the tests say of the flow and  *)
(* overlapping coroutines or a crash make untrue.  Each is checked by a    *)
(* run of its own that is expected to find the counterexample.             *)
(***************************************************************************)
EXTENDS FlowEngine

\* "The still-encrypted marker is authoritative and wins over any malware
\* verdict": once the recipient has been asked again, a confirmation that
\* was already under way does not conclude the case.
WrongPasswordWins ==
  [][\A c \in Cases :
       db[c].state = "awaiting_password" /\ db[c].attempts > 0
         => db'[c].state \notin Verdicts]_vars

\* "once a password is submitted the case leaves AWAITING_PASSWORD, so a
\* replayed link is rejected": it does not go straight back.
LinkIsSingleUse ==
  [][\A c \in Cases :
       db[c].state = "password_submitted" => db'[c].state # "awaiting_password"]_vars

\* "terminal outcome; only the hash remains".
TerminalHoldsNoPassword ==
  \A c \in Cases : db[c].state \in TERMINAL => db[c].pwd_enc = NoPassword

\* "On startup, reschedule work left mid-flight": a submitted password is dealt
\* with in the end.
SubmissionsEnd ==
  \A c \in Cases : db[c].state = "password_submitted" ~> db[c].state # "password_submitted"
===============================================================================
