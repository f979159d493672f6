---------------------------- MODULE ApplianceClaims ----------------------------
(***************************************************************************)
(* What the documentation and the docstrings say of verdicts and rescans,  *)
(* and several rounds or similar e-mails make untrue.                      *)
(***************************************************************************)
EXTENDS FlowOnAppliance

\* rescan_target returns "the RESCANNABLE quarantine entry for this email":
\* a password is never tried on another recipient's e-mail.
RescansOwnEmail == [][\A c \in Cases, s \in Slots : target'[c][s] = c]_allVars

\* DONE_QUARANTINED is "re-quarantined (_RA present), still held".
QuarantinedIsStillHeld ==
  \A c \in Cases : db[c].state = "done_quarantined" => c \notin released
===============================================================================
