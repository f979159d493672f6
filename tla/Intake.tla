-------------------------------- MODULE Intake --------------------------------
(***************************************************************************)
(* What reaches the flow engine from outside: the webhook (ingest.py),     *)
(* which hands it the alerts of a payload one after the other, and the     *)
(* bounce monitor (bounce.py), which polls a mailbox for delivery reports. *)
(* Of the flow itself only what they meet is kept: the state of a case,    *)
(* its recipients, and who was mailed; the rest is FlowEngine.             *)
(*                                                                         *)
(* EX, the mail servers and the mailbox are the environment.  EX pushes a  *)
(* payload again for as long as it got no 200.  The alerts of a payload    *)
(* are taken one per step, also where the code goes on without a wait,     *)
(* which allows every interleaving the code has, and more; so are the      *)
(* reports of a poll.                                                      *)
(***************************************************************************)
EXTENDS Alerts, FlowStates

CONSTANTS
  Emails, Addresses,
  Payloads,      \* what EX has to push: sequences of raw alerts
  Detections,    \* the e-mails a payload reports first, with their recipients
  Hooks,         \* webhook requests that may be in flight
  NoCase,        \* a report without X-Case-Id
  UnknownCase,   \* an X-Case-Id this database has no row for
  Returning,     \* the addresses whose mail server returns the X-Case-Id
  MaxEvents      \* bound of a run: faults, crashes, reports, submissions

QueueIds == Emails \X (0 .. 2)

\* A raw alert, where its values have to be of a kind.
IsRaw(raw) ==
  \A f \in DOMAIN raw :
    /\ f \in ToSet(QueueIdFields) => raw[f] \in Seq(QueueIds)
    /\ f \in ToSet(RecipientFields) => raw[f] \in Seq(Seq(Addresses \cup {Blank}))

\* The only name of this thing that the alert uses is f.
Names(raw, fields, f) == DOMAIN raw \cap ToSet(fields) = {f}

\* What EX means by an alert on a first detection, in either wire format.
Reports(raw, d) ==
  /\ \E f \in DOMAIN raw : /\ Names(raw, QueueIdFields, f)
                           /\ raw[f] # <<>> /\ Head(raw[f]) = <<d.email, 0>>
  /\ \E f \in DOMAIN raw :
       /\ Names(raw, RecipientFields, f)
       /\ d.to = (UNION {ToSet(raw[f][i]) : i \in DOMAIN raw[f]}) \ {Blank}
  /\ \E f \in DOMAIN raw : /\ Names(raw, NameFields, f)
                           /\ raw[f] # <<>> /\ TriggerName \in {NoText, Head(raw[f])}
  /\ \E f \in DOMAIN raw : /\ Names(raw, MalwareFields, f)
                           /\ ToSet(raw[f]) \cap TriggerMalware # {}

ASSUME IntakeAssumption ==
  /\ NoCase \notin Emails /\ UnknownCase \notin Emails
  /\ Blank \notin Addresses
  /\ NoText \notin QueueIds \cup TriggerMalware
  /\ MaxEvents \in Nat

ASSUME PayloadAssumption ==
  \A p \in Payloads :
    /\ p \in Seq(ToSet(p))
    /\ \A i \in DOMAIN p : IsRaw(p[i])
    /\ \A d \in Detections[p] : /\ d.email \in Emails /\ d.to # {}
                              /\ \E i \in DOMAIN p : Reports(p[i], d)

VARIABLES
  case,      \* the case row per queue id
  recent,    \* queue ids of the rows, last updated first
  mailed,    \* addresses the mail server accepted a link for, per e-mail
  ready,     \* is_configured(), and webhook auth is configured
  hook,      \* the requests in flight
  acked,     \* payloads EX got a 200 for
  unseen,    \* reports in the mailbox without \Seen
  poll,      \* the bounce monitor
  up, events

vars == <<case, recent, mailed, ready, hook, acked, unseen, poll, up, events>>

Lists == {s \in Seq(Addresses) : IsInjective(s)}
Row == [state : FlowState \cup {"absent"}, recipient : Lists]
Report == [case : Emails \cup {NoCase, UnknownCase}, recipient : Addresses]
IdleHook == [pc |-> "idle", payload |-> <<>>, rest |-> <<>>, at |-> NoCase, to |-> <<>>]
IdlePoll == [pc |-> "idle", found |-> {}, got |-> <<>>]

Init ==
  /\ case = [q \in QueueIds |-> [state |-> "absent", recipient |-> <<>>]]
  /\ recent = <<>>
  /\ mailed = [e \in Emails |-> {}]
  /\ ready = FALSE
  /\ hook = [h \in Hooks |-> IdleHook]
  /\ acked = {}
  /\ unseen = {}
  /\ poll = IdlePoll
  /\ up = TRUE
  /\ events = 0

Costs == events < MaxEvents /\ events' = events + 1
In(h, pc) == up /\ hook[h].pc = pc
Becomes(h, j) == hook' = [hook EXCEPT ![h] = j]

\* One UPDATE or INSERT: the row, and its updated_at.
Write(q, row) ==
  /\ case' = [case EXCEPT ![q] = row]
  /\ recent' = <<q>> \o (IF Contains(recent, q)
                          THEN RemoveAt(recent, CHOOSE i \in DOMAIN recent : recent[i] = q)
                          ELSE recent)
NoWrite == UNCHANGED <<case, recent>>

\* A state that was so before is no UPDATE.
SetState(q, s) == IF case[q].state = s THEN NoWrite
                  ELSE Write(q, [case[q] EXCEPT !.state = s])

-------------------------------------------------------------------------------
(* receive_alert *)

Configured == /\ up /\ ~ready
              /\ ready' = TRUE
              /\ UNCHANGED <<case, recent, mailed, hook, acked, unseen, poll, up, events>>

Events == [p \in Payloads |-> [i \in DOMAIN p |-> ParseAlert(p[i])]]

\* Before that the answer is 503 or 401, and EX tries again later.  It does so
\* too when the answer is late: the request before may still be in flight.
Receive(h, p) ==
  /\ In(h, "idle")
  /\ ready
  /\ p \notin acked
  /\ Becomes(h, [IdleHook EXCEPT !.pc = "loop", !.payload = p,
                   !.rest = Events[p]])
  /\ UNCHANGED <<case, recent, mailed, ready, acked, unseen, poll, up, events>>

Alert(h) == Head(hook[h].rest)
Complete(event) == event.queue_id # NoText /\ event.recipients # <<>>
Taken(h) == In(h, "loop") /\ hook[h].rest # <<>>
Passed(h) == [hook[h] EXCEPT !.rest = Tail(@), !.pc = "loop"]
Mailing(h, q, to) == [Passed(h) EXCEPT !.pc = "mail", !.at = q, !.to = to]
Asking(h, q) == [Passed(h) EXCEPT !.pc = "ex", !.at = q]

\* (mutant) any queue id is a first detection
IsReanalysisNever(event) == FALSE

IsReanalysis(event) == event.queue_id # Base(event.queue_id)

\* No queue id or recipient; no trigger match; a re-detection of no known case.
Ignored(event) ==
  \/ ~Complete(event)
  \/ IF IsReanalysis(event) THEN case[Base(event.queue_id)].state = "absent"
                            ELSE ~Matches(event)

\* (mutant) the mail is for the one who created the row
AsksIfCreated(before, row) == before.state = "absent"

\* The mail is sent for as long as the case is RECEIVED, whoever created it.
Asks(before, row) == row.state = "received"

\* handle_alert on a first-time detection: get_or_create_case, then the mail.
FirstDetection(h) ==
  LET event == Alert(h)  q == event.queue_id
      row == [state |-> IF case[q].state = "absent" THEN "received" ELSE case[q].state,
              recipient |-> MergeRecipients(case[q].recipient, event.recipients)]
  IN  /\ Taken(h)
      /\ Complete(event) /\ ~IsReanalysis(event) /\ Matches(event)
      /\ IF row = case[q] THEN NoWrite ELSE Write(q, row)
      /\ Becomes(h, IF Asks(case[q], row)
                    THEN Mailing(h, q, split_addrs(row.recipient)) ELSE Passed(h))
      /\ UNCHANGED <<mailed, ready, acked, unseen, poll, up, events>>

\* _classify_resubmission: ask again (or give up, which FlowEngine decides by
\* the attempts), confirm with EX, or leave the case alone.
Redetection(h) ==
  LET event == Alert(h)  q == Base(event.queue_id)
      pending == case[q].state \in RECHECKABLE
      done == case[q].state \in {"done_quarantined", "done_passed"}
  IN  /\ Taken(h)
      /\ Complete(event) /\ IsReanalysis(event) /\ case[q].state # "absent"
      /\ \/ /\ StillEncrypted(event) /\ (pending \/ done)
            /\ \/ SetState(q, "failed_max_retries") /\ Becomes(h, Passed(h))
               \/ /\ Write(q, case[q])    \* the count of the attempt
                  /\ Becomes(h, Mailing(h, q, split_addrs(case[q].recipient)))
         \/ /\ ~StillEncrypted(event) /\ pending
            /\ Becomes(h, Asking(h, q)) /\ NoWrite
         \/ /\ ~pending /\ ~(StillEncrypted(event) /\ done)
            /\ Becomes(h, Passed(h)) /\ NoWrite
      /\ UNCHANGED <<mailed, ready, acked, unseen, poll, up, events>>

\* (mutant) an alert without queue id or recipient is an error
AfterIgnoredOrError(h) == IF Complete(Alert(h)) THEN Passed(h) ELSE IdleHook

AfterIgnored(h) == Passed(h)

Skipped(h) ==
  /\ Taken(h)
  /\ Ignored(Alert(h))
  /\ Becomes(h, AfterIgnored(h))
  /\ UNCHANGED <<case, recent, mailed, ready, acked, unseen, poll, up, events>>

\* The confirmation: held or not, or an exception, which ends the request
\* with a 500.
ExReplies(h) ==
  /\ In(h, "ex")
  /\ \/ /\ \E verdict \in {"done_quarantined", "done_passed"} : SetState(hook[h].at, verdict)
        /\ Becomes(h, [hook[h] EXCEPT !.pc = "loop"])
        /\ UNCHANGED events
     \/ /\ Costs
        /\ Becomes(h, IdleHook)
        /\ NoWrite
  /\ UNCHANGED <<mailed, ready, acked, unseen, poll, up>>

\* The rest of _send_password_request.
MailerReplies(h) ==
  LET q == hook[h].at
  IN  /\ In(h, "mail")
      /\ \/ /\ SetState(q, "awaiting_password")
            /\ mailed' = [mailed EXCEPT ![q[1]] = @ \cup ToSet(hook[h].to)]
            /\ UNCHANGED events
         \/ /\ Costs
            /\ Write(q, [case[q] EXCEPT !.state = "notify_failed"])
            /\ UNCHANGED mailed
      /\ Becomes(h, [hook[h] EXCEPT !.pc = "loop"])
      /\ UNCHANGED <<ready, acked, unseen, poll, up>>

\* The loop is through: 200.
Acknowledge(h) ==
  /\ In(h, "loop")
  /\ hook[h].rest = <<>>
  /\ acked' = acked \cup {hook[h].payload}
  /\ Becomes(h, IdleHook)
  /\ UNCHANGED <<case, recent, mailed, ready, unseen, poll, up, events>>

-------------------------------------------------------------------------------
(* The flow as these two meet it *)

\* A password is submitted and the rescan accepted; the recheck concludes.
FlowGoesOn(q) ==
  /\ up
  /\ \/ case[q].state = "awaiting_password" /\ SetState(q, "resubmitted")
     \/ case[q].state = "resubmitted" /\ SetState(q, "done_passed")
  /\ Costs
  /\ UNCHANGED <<mailed, ready, hook, acked, unseen, poll, up>>

-------------------------------------------------------------------------------
(* bounce.py *)

\* A mail that was accepted fails later, and the report comes back.
Bounces(e, a) ==
  /\ a \in mailed[e]
  /\ Costs
  /\ unseen' = unseen \cup {[case |-> IF a \in Returning THEN e ELSE NoCase,
                              recipient |-> a]}
  /\ UNCHANGED <<case, recent, mailed, ready, hook, acked, poll, up>>

\* A report on a mail of another installation, or from before the database was
\* set up anew: its X-Case-Id is of no case here, its recipient may be.
StrayReport(a) ==
  /\ a \in Returning
  /\ Costs
  /\ unseen' = unseen \cup {[case |-> UnknownCase, recipient |-> a]}
  /\ UNCHANGED <<case, recent, mailed, ready, hook, acked, poll, up>>

Polling(pc) == up /\ poll.pc = pc

Search ==
  /\ Polling("idle")
  /\ unseen # {}
  /\ poll' = [IdlePoll EXCEPT !.pc = "fetch", !.found = unseen]
  /\ UNCHANGED <<case, recent, mailed, ready, hook, acked, unseen, up, events>>

\* The server sets \Seen as it delivers the message.
Fetch(m) ==
  /\ Polling("fetch")
  /\ m \in poll.found
  /\ unseen' = unseen \ {m}
  /\ poll' = [poll EXCEPT !.found = @ \ {m}, !.got = Append(@, m)]
  /\ UNCHANGED <<case, recent, mailed, ready, hook, acked, up, events>>

\* The connection breaks between two messages: _fetch_bounces raises and
\* returns nothing of what it has read.
FetchFails ==
  /\ Polling("fetch")
  /\ poll.found # {}
  /\ Costs
  /\ poll' = IdlePoll
  /\ UNCHANGED <<case, recent, mailed, ready, hook, acked, unseen, up>>

\* find_open_case_by_recipient
OpenCaseOf(a) ==
  LET open == {i \in DOMAIN recent : /\ case[recent[i]].state \notin TERMINAL
                                      /\ Contains(case[recent[i]].recipient, a)}
  IN  IF open = {} THEN NoCase ELSE recent[Min(open)]

\* get_case finds the row that the X-Case-Id names.
NamesCase(m) == m.case \in Emails /\ case[<<m.case, 0>>].state # "absent"

\* (mutant) a case that cannot bounce any more is looked for by recipient
CorrelatedUnlessTerminal(m) ==
  IF NamesCase(m) /\ case[<<m.case, 0>>].state \notin TERMINAL
  THEN <<m.case, 0>> ELSE OpenCaseOf(m.recipient)

\* handle_bounce: by X-Case-Id, and when that finds no case by recipient.
Correlated(m) == IF NamesCase(m) THEN <<m.case, 0>> ELSE OpenCaseOf(m.recipient)

\* (mutant) the loop ends with the first report
RemainingNone(got) == <<>>

\* The loop over the reports goes on whether or not one found its case.
Remaining(got) == Tail(got)

HandleBounce ==
  LET q == Correlated(Head(poll.got))
  IN  /\ Polling("fetch")
      /\ poll.found = {}
      /\ poll.got # <<>>
      /\ IF q # NoCase /\ case[q].state \notin TERMINAL
         THEN SetState(q, "bounced") ELSE NoWrite
      /\ poll' = [poll EXCEPT !.got = Remaining(@)]
      /\ UNCHANGED <<mailed, ready, hook, acked, unseen, up, events>>

\* The loop sleeps until the next poll.
PollEnds ==
  /\ Polling("fetch")
  /\ poll.found = {} /\ poll.got = <<>>
  /\ poll' = IdlePoll
  /\ UNCHANGED <<case, recent, mailed, ready, hook, acked, unseen, up, events>>

-------------------------------------------------------------------------------
Crash ==
  /\ up
  /\ Costs
  /\ up' = FALSE
  /\ hook' = [h \in Hooks |-> IdleHook]
  /\ poll' = IdlePoll
  /\ UNCHANGED <<case, recent, mailed, ready, acked, unseen>>

Restart ==
  /\ ~up
  /\ up' = TRUE
  /\ UNCHANGED <<case, recent, mailed, ready, hook, acked, unseen, poll, events>>

HookStep(h) == \/ FirstDetection(h) \/ Redetection(h) \/ Skipped(h)
               \/ ExReplies(h) \/ MailerReplies(h) \/ Acknowledge(h)
PollStep == Search \/ (\E m \in poll.found : Fetch(m)) \/ FetchFails \/ HandleBounce \/ PollEnds

Next ==
  \/ \E h \in Hooks : HookStep(h) \/ (\E p \in Payloads : Receive(h, p))
  \/ \E q \in QueueIds : FlowGoesOn(q)
  \/ \E a \in Addresses : StrayReport(a) \/ \E e \in Emails : Bounces(e, a)
  \/ PollStep
  \/ Configured \/ Crash \/ Restart

Spec == Init /\ [][Next]_vars

\* Waits end and the loop of the monitor goes on; the set-up is completed, EX
\* pushes again what was not acknowledged, the service is restarted.
FairSpec ==
  /\ Spec
  /\ \A h \in Hooks : WF_vars(HookStep(h))
  /\ \A p \in Payloads : WF_vars(\E h \in Hooks : Receive(h, p))
  /\ WF_vars(PollStep)
  /\ WF_vars(Configured)
  /\ WF_vars(Restart)

-------------------------------------------------------------------------------
\* Types; and a case has a recipient, none of them twice or empty.
TypeOK ==
  /\ case \in [QueueIds -> Row]
  /\ \A q \in QueueIds : (case[q].state = "absent") <=> (case[q].recipient = <<>>)
  /\ recent \in Seq(QueueIds) /\ IsInjective(recent)
  /\ ToSet(recent) = {q \in QueueIds : case[q].state # "absent"}
  /\ mailed \in [Emails -> SUBSET Addresses]
  /\ ready \in BOOLEAN
  /\ \A h \in Hooks : hook[h].pc \in {"idle", "loop", "mail", "ex"}
  /\ acked \subseteq Payloads
  /\ unseen \subseteq Report
  /\ poll.pc \in {"idle", "fetch"}
  /\ up \in BOOLEAN

\* A 200 means that the whole payload was handled: each first detection in it,
\* in whichever wire format, has its case with all its recipients, and that
\* case has left RECEIVED.  What failed half way is answered with an error
\* and pushed again.
AcknowledgedMeansHandled ==
  \A p \in acked : \A d \in Detections[p] :
    LET row == case[<<d.email, 0>>]
    IN  /\ row.state \notin {"absent", "received"}
        /\ d.to \subseteq ToSet(row.recipient)

\* "Never create a separate case for an _RA alert": also one that is pushed
\* before the case it belongs to exists, or that would match the triggers.
ReanalysisCreatesNoCase ==
  \A q \in QueueIds : q[2] > 0 => case[q].state = "absent"

\* Every payload gets its 200 in the end, whatever failed before and however
\* often the pushes before it were cut short.
EventuallyAcknowledged == <>(Payloads \subseteq acked)

\* q is an open case of this recipient, and none of theirs was updated later.
LatestOpenOf(q, a) ==
  \E i \in DOMAIN recent :
    /\ recent[i] = q
    /\ a \in ToSet(case[q].recipient)
    /\ \A j \in DOMAIN recent :
         j < i /\ case[recent[j]].state \notin TERMINAL
           => a \notin ToSet(case[recent[j]].recipient)

IsAbout(m, q) ==
  /\ case[q].state \notin TERMINAL
  /\ IF m.case \in Emails THEN q[1] = m.case ELSE LatestOpenOf(q, m.recipient)

\* A report that names a case ends no other one, also when the case it names
\* is settled and the recipient has another case open.  One that names none, or
\* one that this database does not have, ends only the case of its recipient
\* that was updated last; and no settled case is ended by either.
ReportEndsOwnCase ==
  [][\A q \in QueueIds :
       case[q].state # "bounced" /\ case'[q].state = "bounced"
         => IsAbout(Head(poll.got), q)]_vars

\* Once the mailbox and the process no longer fail, every report not yet seen
\* that names its case is acted on, also when it shares its poll with others
\* and whatever an earlier poll had read when it failed.
ReportsArrive ==
  \A e \in Emails :
    (/\ \E m \in unseen : m.case = e
     /\ events = MaxEvents)
      ~> (case[<<e, 0>>].state \in TERMINAL)
===============================================================================
