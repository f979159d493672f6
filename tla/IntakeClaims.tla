----------------------------- MODULE IntakeClaims -----------------------------
(* What the documentation says of the recipients of a case. *)
EXTENDS MCIntake

\* "all To addresses, comma-joined; every recipient gets the same one-time
\* link": when no mail is on its way, each address on a case that waits for
\* its password was sent the link.
EveryRecipientMailed ==
  \A e \in Emails :
    LET q == <<e, 0>>
    IN  case[q].state = "awaiting_password"
          /\ ~(\E h \in Hooks : hook[h].pc = "mail" /\ hook[h].at = q)
        => ToSet(case[q].recipient) \subseteq mailed[e]
===============================================================================
