------------------------------- MODULE MCIntake -------------------------------
(* What EX pushes, and what it means by it. *)
EXTENDS Intake

CONSTANTS e1, e2, a, b

Truth(email, ras, items, malware) ==
  [email |-> email, ras |-> ras, items |-> items, malware |-> malware]

AsPush(t) == [f \in {"queue-id", "dst.smtp-to", "name", "malware-detected"} |->
  CASE f = "queue-id" -> << <<t.email, t.ras>> >>
    [] f = "dst.smtp-to" -> t.items
    [] f = "name" -> <<"riskware_object">>
    [] f = "malware-detected" -> <<NoText, t.malware>>]

AsQuery(t) == [f \in {"queueId", "dst.smtpTo", "alert_name", "malware"} |->
  CASE f = "queueId" -> << <<t.email, t.ras>> >>
    [] f = "dst.smtpTo" -> t.items
    [] f = "alert_name" -> <<"riskware_object">>
    [] f = "malware" -> <<t.malware>>]

First1 == Truth(e1, 0, << <<a>> >>, "encrypted")
Again1 == Truth(e1, 0, << <<b, Blank>> >>, "encrypted")
First2 == Truth(e2, 0, << <<a, Blank>>, <<a, b>> >>, "encrypted")
Other1 == Truth(e1, 1, << <<a>> >>, "trojan")
Failed1 == Truth(e1, 1, << <<a>> >>, "password_extraction_failed")
Still1 == Truth(e1, 2, << <<a>> >>, "encrypted")
NoRecipient == Truth(e2, 0, <<>>, "encrypted")

\* EX pushes the two in either order, and the second may be on its way
\* while the first is handled.
One == << AsPush(Still1), AsPush(First1) >>
Two == << AsQuery(Again1), AsPush(NoRecipient), AsPush(Other1), AsQuery(First2) >>

MCPayloads == {One, Two}

Detection(t) == [email |-> t.email, to |-> (UNION {ToSet(t.items[i]) : i \in DOMAIN t.items}) \ {Blank}]
MCDetections ==
  [p \in MCPayloads |-> {Detection(t) : t \in IF p = One THEN {First1} ELSE {Again1, First2}}]
===============================================================================
