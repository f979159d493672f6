------------------------------ MODULE FlowStates ------------------------------
(***************************************************************************)
(* The states of a case (domain.FlowState) and the sets of them the code   *)
(* tests for membership.                                                   *)
(***************************************************************************)

\* domain.FlowState.  Nothing in the program ever sets EXPIRED.
FlowState ==
  { "received", "awaiting_password", "password_submitted", "resubmitted",
    "rechecking", "done_passed", "done_quarantined", "failed_max_retries",
    "expired", "notify_failed", "bounced", "resubmit_failed" }

\* States from which a recheck poll may still run.
RECHECKABLE == { "resubmitted", "rechecking" }

\* The two verdicts read from the appliance's quarantine list.
Verdicts == { "done_passed", "done_quarantined" }

TERMINAL == Verdicts \cup { "failed_max_retries", "expired", "bounced" }

\* domain.ResubmissionOutcome.
ResubmissionOutcome == { "held", "pending", "released" }

\* States in which resubmit_case and list_resubmit_pending_ids find work.
ResubmitPending == { "password_submitted", "resubmit_failed" }

\* States from which an operator may send the link again.
Resendable == { "notify_failed", "awaiting_password", "bounced" }
===============================================================================
