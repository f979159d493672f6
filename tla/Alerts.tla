-------------------------------- MODULE Alerts --------------------------------
(***************************************************************************)
(* alerts.py: the wire format of EX alerts and its parsers, with the       *)
(* trigger rules of domain.RiskwareRules.                                  *)
(*                                                                         *)
(* A raw alert is a function from the fields it has to their values.  EX   *)
(* has several names for the same thing; a push and a query use different  *)
(* ones.  A value is a sequence of items: one for a scalar or a            *)
(* {"value": ...} wrapper, several for a list.  An item of a recipients    *)
(* field is itself the sequence of what its commas and semicolons          *)
(* separate.  A queue id is a pair <<q, n>>: n suffixes "_RA" after q.     *)
(* Spelling (case, hyphens, white space) is left out.                      *)
(***************************************************************************)
EXTENDS Integers, SequencesExt

CONSTANTS
  Blank,          \* an empty part between separators
  NoText,         \* None
  TriggerName,    \* trigger_alert_name
  TriggerMalware, \* trigger_malware_names
  FailedMarkers   \* PASSWORD_FAILED_MARKERS

\* _first over the names of one thing: the first field that is there, also
\* when its value is an empty list.
First(raw, fields) ==
  LET present == {i \in DOMAIN fields : fields[i] \in DOMAIN raw}
  IN  IF present = {} THEN <<>> ELSE raw[fields[Min(present)]]

\* _text: the first item of a list counts.
Text(value) == IF value = <<>> THEN NoText ELSE Head(value)

\* The body of the loops: a part that is empty or was seen adds nothing.
AddPart(out, x) == IF x = Blank \/ Contains(out, x) THEN out ELSE Append(out, x)

\* Order kept, the first of equals stays, empty parts dropped.
Dedupe(parts) ==
  LET upTo[n \in 0 .. Len(parts)] ==
        IF n = 0 THEN <<>> ELSE AddPart(upTo[n - 1], parts[n])
  IN  upTo[Len(parts)]

split_addrs(parts) == Dedupe(parts)

TextList(value) == Dedupe(FlattenSeq([i \in DOMAIN value |-> split_addrs(value[i])]))

\* (mutant) an address both have is listed twice
MergeAppends(existing, new) == existing \o new

\* storage._merge_recipients
MergeRecipients(existing, new) == Dedupe(existing \o new)

QueueIdFields == << "queue-id", "queueId", "queue_id", "smtp-message.queue-id", "smtpMessage.queueId" >>
RecipientFields == << "dst.smtp-to", "dst.smtpTo", "smtpMessage.rcptTo", "recipient", "rcpt_to" >>
NameFields == << "name", "alert_name" >>
MalwareFields == << "malware-detected", "malwareDetected", "malware" >>

\* The fields of AlertEvent that decide anything.
ParseAlert(raw) ==
  [ queue_id |-> Text(First(raw, QueueIdFields)),
    recipients |-> TextList(First(raw, RecipientFields)),
    alert_name |-> Text(First(raw, NameFields)),
    malware_names |-> ToSet(First(raw, MalwareFields)) \ {NoText} ]

\* RiskwareRules.matches
Matches(event) ==
  /\ TriggerMalware # {}
  /\ TriggerName \in {NoText, event.alert_name}
  /\ event.malware_names \cap TriggerMalware # {}

\* FlowEngine._still_encrypted
StillEncrypted(event) ==
  Matches(event) \/ event.malware_names \cap FailedMarkers # {}

\* The queue id without its suffixes "_RA".
Base(qid) == <<qid[1], 0>>
===============================================================================
