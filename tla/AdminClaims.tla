------------------------------ MODULE AdminClaims ------------------------------
(* What the documentation says of a replaced SECRET_KEY. *)
EXTENDS MCAdminConsole

\* "stored settings secrets must be re-entered": the process comes up under
\* the new key, and the operator enters them again.
ComesUpToReenterSecrets == pc # "failed"
===============================================================================
