------------------------------ MODULE FlowEngine ------------------------------
(***************************************************************************)
(* The recovery flow of domain.FlowEngine over storage.CaseRepository and  *)
(* recheck.RecheckScheduler.                                               *)
(*                                                                         *)
(* The program is one asyncio process.  Every repository call is a short   *)
(* committed transaction and runs without yielding, so the unit of         *)
(* interleaving is the code between two awaits (a "segment").  A coroutine *)
(* that waits (for the mail server, for the EX appliance, for a timer) is  *)
(* a job; an action is the segment that runs when its wait ends, or the    *)
(* first segment of a handler.  A crash can fall between any two           *)
(* transactions, also inside a segment.                                    *)
(*                                                                         *)
(* The appliance, the mail server and the people are the environment: they *)
(* answer anything they may answer, whenever they want.  What a quarantine *)
(* query returns is therefore chosen when the coroutine resumes, which     *)
(* also covers an answer that was stale by then.                           *)
(***************************************************************************)
EXTENDS Integers, FlowStates

CONSTANTS
  Cases,                \* quarantined e-mails with a case of their own
  Slots,                \* coroutines that may be in flight on one case
  Passwords,            \* passwords a recipient may type
  NoPassword,           \* pwd_enc IS NULL
  Unreadable,           \* pwd_enc encrypted under a SECRET_KEY since replaced
  MaxPasswordAttempts,  \* settings.max_password_attempts
  NotifyMaxRetries,     \* settings.notify_max_retries
  ResubmitMaxRetries,   \* settings.resubmit_max_retries
  Polls,                \* polls of one recheck task: len(delays) in _poll
  Faults,               \* kinds of failure the environment may show
  MaxFaults, MaxCrashes, MaxPushes, MaxRequests   \* bounds of the exploration

FaultKinds == { "smtp", "list", "rescan", "bounce", "rekey" }

ASSUME PasswordsAssumption ==
  /\ NoPassword \notin Passwords
  /\ Unreadable \notin Passwords \cup {NoPassword}

ASSUME LimitsAssumption ==
  /\ MaxPasswordAttempts \in Nat \ {0}
  /\ NotifyMaxRetries \in Nat
  /\ ResubmitMaxRetries \in Nat
  /\ Polls \in Nat \ {0}

ASSUME EnvironmentAssumption ==
  /\ Faults \subseteq FaultKinds
  /\ {MaxFaults, MaxCrashes, MaxPushes, MaxRequests} \subseteq Nat

VARIABLES
  db,       \* the attachment_cases table, a row per case
  jobs,     \* jobs[c][s]: the coroutine in flight in slot s of case c
  todo,     \* case ids a background sweep has listed and not yet visited
  up,       \* the process is running
  crashes,  \* crashes the environment may still inject
  budget    \* failures, pushes and requests it may still make

vars == <<db, jobs, todo, up, crashes, budget>>

-------------------------------------------------------------------------------
(* Rows.  Each operator is one committed transaction of CaseRepository. *)

Held == Passwords \cup {Unreadable}

Row == [ state : FlowState \cup {"absent"},
         attempts : Nat, notify_attempts : Nat, resubmit_attempts : Nat,
         pwd_enc : Held \cup {NoPassword},
         hashes : Nat ]      \* rows of password_attempts for this case

NoCase == [ state |-> "absent",
            attempts |-> 0, notify_attempts |-> 0, resubmit_attempts |-> 0,
            pwd_enc |-> NoPassword, hashes |-> 0 ]

SetState(r, s) == [r EXCEPT !.state = s]
StorePassword(r, p) == [r EXCEPT !.pwd_enc = p]
ClearPassword(r) == [r EXCEPT !.pwd_enc = NoPassword]
RecordHash(r) == [r EXCEPT !.hashes = @ + 1]
IncrementAttempts(r) == [r EXCEPT !.attempts = @ + 1]
IncrementNotify(r) == [r EXCEPT !.notify_attempts = @ + 1]
IncrementResubmit(r) == [r EXCEPT !.resubmit_attempts = @ + 1]

-------------------------------------------------------------------------------
(* Writes.  What a segment does to a row: "done" is the row once all its   *)
(* transactions are committed, "half" the rows a crash between two of them *)
(* leaves behind.                                                          *)

Single(r) == [half |-> {}, done |-> r]

AskedAgain(r) == Single(SetState(r, "awaiting_password"))

SendFailed(r) ==
  LET counted == IncrementNotify(r)
  IN  [half |-> {counted}, done |-> SetState(counted, "notify_failed")]

PasswordAccepted(r, p) ==
  LET stored == StorePassword(r, p)
  IN  [half |-> {stored}, done |-> SetState(stored, "password_submitted")]

ResubmitFailed(r) ==
  LET counted == IncrementResubmit(r)
  IN  [half |-> {counted}, done |-> SetState(counted, "resubmit_failed")]

\* (mutant) the state is committed before the password is cleared
ResubmittedStateFirst(r) ==
  LET hashed == RecordHash(r)
      moved  == SetState(hashed, "resubmitted")
  IN  [half |-> {hashed, moved}, done |-> ClearPassword(moved)]

Resubmitted(r) ==
  LET hashed  == RecordHash(r)
      cleared == ClearPassword(hashed)
  IN  [half |-> {hashed, cleared}, done |-> SetState(cleared, "resubmitted")]

Finish(r, held) ==
  LET cleared == ClearPassword(r)
  IN  [half |-> {cleared},
       done |-> SetState(cleared, IF held THEN "done_quarantined"
                                          ELSE "done_passed")]

GivenUp(r) ==
  LET counted == IncrementAttempts(r)
  IN  [half |-> {counted}, done |-> SetState(counted, "failed_max_retries")]

-------------------------------------------------------------------------------
(* Coroutines.  pc names what the coroutine waits for:                     *)
(*   scheduled  its first turn of the event loop (create_task)             *)
(*   send       the mail server, in _send_password_request                 *)
(*   target     rescan_target, in resubmit_case                            *)
(*   rescan     the rescan request, in resubmit_case                       *)
(*   sleep      the timer of _poll                                         *)
(*   outcome    resubmission_outcome, in recheck                           *)
(*   confirm    has_resubmission_quarantine, in _confirm_outcome           *)

Waits == { "idle", "scheduled", "send", "target", "rescan",
           "sleep", "outcome", "confirm" }

Sweeps == { "notify", "resubmit" }

Job == [ pc : Waits,
         by : Sweeps \cup {"direct"},   \* the sweep that awaits it, if any
         pwd : Passwords \cup {NoPassword},  \* plaintext in resubmit_case
         left : 0 .. Polls ]            \* polls this task still has

NewJob(pc, by) == [pc |-> pc, by |-> by, pwd |-> NoPassword, left |-> 0]
Idle == NewJob("idle", "direct")
\* (mutant) one delay too many
PollerOneExtra(pc, left) == [NewJob(pc, "direct") EXCEPT !.left = left + 1]
Poller(pc, left) == [NewJob(pc, "direct") EXCEPT !.left = left]

Run(c, s, j) == [jobs EXCEPT ![c][s] = j]
End(c, s) == Run(c, s, Idle)
Waiting(c, s, pc) == up /\ jobs[c][s].pc = pc
Free(c, s) == Waiting(c, s, "idle")

NoJobs == [c \in Cases |-> [s \in Slots |-> Idle]]
NothingListed == [k \in Sweeps |-> {}]

Spend(b) == budget[b] > 0 /\ budget' = [budget EXCEPT ![b] = @ - 1]
Fault(kind) == kind \in Faults /\ Spend("fault")

\* Run the transactions w on case c and leave the coroutines as running, or
\* be killed between two of them.
Commit(c, w, running) ==
  \/ /\ db' = [db EXCEPT ![c] = w.done]
     /\ jobs' = running
     /\ UNCHANGED <<todo, up, crashes>>
  \/ /\ crashes > 0
     /\ \E r \in w.half : db' = [db EXCEPT ![c] = r]
     /\ jobs' = NoJobs
     /\ todo' = NothingListed
     /\ up' = FALSE
     /\ crashes' = crashes - 1

-------------------------------------------------------------------------------
(* Sending the link: _send_password_request, entered from five places.  It *)
(* tests nothing after the wait: the state it writes is the caller's plan. *)

\* handle_alert on a first-time detection (the webhook, or reconcile).  A row
\* that is absent already carries the column defaults (NoCase).
HandleAlert(c, s) ==
  /\ Free(c, s)
  /\ \/ /\ db[c].state = "absent"
        /\ db' = [db EXCEPT ![c] = SetState(@, "received")]
        /\ UNCHANGED budget
     \/ /\ db[c].state = "received"
        /\ Spend("request")
        /\ UNCHANGED db
  /\ jobs' = Run(c, s, NewJob("send", "direct"))
  /\ UNCHANGED <<todo, up, crashes>>

\* An operator's resend, or a recipient opening an expired link.
SendAgain(c, s, from) ==
  /\ Free(c, s)
  /\ db[c].state \in from
  /\ Spend("request")
  /\ jobs' = Run(c, s, NewJob("send", "direct"))
  /\ UNCHANGED <<db, todo, up, crashes>>

Resend(c, s) == SendAgain(c, s, Resendable)
ReissueExpiredLink(c, s) == SendAgain(c, s, {"awaiting_password"})

\* The mail server took the message, or the attempt failed.
MailerReplies(c, s) ==
  /\ Waiting(c, s, "send")
  /\ \/ UNCHANGED budget /\ Commit(c, AskedAgain(db[c]), End(c, s))
     \/ Fault("smtp") /\ Commit(c, SendFailed(db[c]), End(c, s))

\* (mutant) bounces are not held off settled cases
HandleBounceAnyState(c) ==
  /\ up
  /\ Fault("bounce")
  /\ db[c].state # "absent"
  /\ Commit(c, Single(SetState(db[c], "bounced")), jobs)

\* A delivery report.  Which case it belongs to is the monitor's affair.
HandleBounce(c) ==
  /\ up
  /\ Fault("bounce")
  /\ db[c].state \notin TERMINAL \cup {"absent"}
  /\ Commit(c, Single(SetState(db[c], "bounced")), jobs)

-------------------------------------------------------------------------------
(* The password and the rescan *)

HandlePassword(c, s, p) ==
  /\ Free(c, s)
  /\ db[c].state = "awaiting_password"
  /\ Commit(c, PasswordAccepted(db[c], p), Run(c, s, NewJob("scheduled", "direct")))
  /\ UNCHANGED budget

HasResubmitWork(r) == r.state \in ResubmitPending /\ r.pwd_enc # NoPassword

\* resubmit_case up to its first wait: nothing to do, a password that cannot
\* be decrypted any more, or the query for the entry to rescan.
BeginResubmit(c, s, by) ==
  \/ /\ ~HasResubmitWork(db[c])
     /\ jobs' = End(c, s)
     /\ UNCHANGED db
  \/ /\ HasResubmitWork(db[c])
     /\ db[c].pwd_enc = Unreadable
     /\ db' = [db EXCEPT ![c] = SetState(@, "resubmit_failed")]
     /\ jobs' = End(c, s)
  \/ /\ HasResubmitWork(db[c])
     /\ db[c].pwd_enc # Unreadable
     /\ jobs' = Run(c, s, [NewJob("target", by) EXCEPT !.pwd = db[c].pwd_enc])
     /\ UNCHANGED db

\* The task schedule_resubmit created gets its first turn.
ResubmitBegins(c, s) ==
  /\ Waiting(c, s, "scheduled")
  /\ BeginResubmit(c, s, "direct")
  /\ UNCHANGED <<todo, up, crashes, budget>>

\* The operator's rescan button, in the coroutine of the request.
RequestRescan(c, s) ==
  /\ Free(c, s)
  /\ db[c].state # "absent"
  /\ Spend("request")
  /\ BeginResubmit(c, s, "direct")
  /\ UNCHANGED <<todo, up, crashes>>

\* rescan_target returned an entry, or found none.
TargetFound(c, s) ==
  /\ Waiting(c, s, "target")
  /\ jobs' = Run(c, s, [jobs[c][s] EXCEPT !.pc = "rescan"])
  /\ UNCHANGED <<db, todo, up, crashes, budget>>

TargetMissing(c, s) ==
  /\ Waiting(c, s, "target")
  /\ Commit(c, ResubmitFailed(db[c]), End(c, s))
  /\ UNCHANGED budget

\* It raised; the exception ends the coroutine, and the sweep that awaits it.
TargetFails(c, s) ==
  /\ Waiting(c, s, "target")
  /\ Fault("list")
  /\ jobs' = End(c, s)
  /\ todo' = [k \in Sweeps |-> IF k = jobs[c][s].by THEN {} ELSE todo[k]]
  /\ UNCHANGED <<db, up, crashes>>

\* The rescan was accepted, and the new recheck task takes over the slot.
RescanAccepted(c, s) ==
  /\ Waiting(c, s, "rescan")
  /\ Commit(c, Resubmitted(db[c]), Run(c, s, Poller("sleep", Polls)))
  /\ UNCHANGED budget

\* EX refused it: the e-mail is not in its quarantine (any more).
RescanRefused(c, s) ==
  /\ Waiting(c, s, "rescan")
  /\ Commit(c, ResubmitFailed(db[c]), End(c, s))
  /\ UNCHANGED budget

\* It failed otherwise, or no answer came.
RescanFails(c, s) ==
  /\ Waiting(c, s, "rescan")
  /\ Fault("rescan")
  /\ Commit(c, ResubmitFailed(db[c]), End(c, s))

-------------------------------------------------------------------------------
(* The verdict: pushed _RA re-detections and the recheck task *)

\* (mutant) one attempt more than allowed
ExhaustedLate(r) == r.attempts > MaxPasswordAttempts

Exhausted(r) == r.attempts >= MaxPasswordAttempts

\* A push that says the attachment is still encrypted: count it and ask
\* again, or give up.  The count is committed before the mail is awaited.
HandleWrongPasswordPush(c, s) ==
  /\ Free(c, s)
  /\ db[c].state \in RECHECKABLE \cup Verdicts
  /\ Spend("push")
  /\ LET counted == IncrementAttempts(db[c])
     IN  IF Exhausted(counted)
         THEN Commit(c, GivenUp(db[c]), jobs)
         ELSE Commit(c, Single(counted), Run(c, s, NewJob("send", "direct")))

\* (mutant) any push about a known case is confirmed
HandleOtherPushAnyState(c, s) ==
  /\ Free(c, s)
  /\ db[c].state # "absent"
  /\ Spend("push")
  /\ jobs' = Run(c, s, NewJob("confirm", "direct"))
  /\ UNCHANGED <<db, todo, up, crashes>>

\* Any other re-detection: ask the quarantine list.
HandleOtherPush(c, s) ==
  /\ Free(c, s)
  /\ db[c].state \in RECHECKABLE
  /\ Spend("push")
  /\ jobs' = Run(c, s, NewJob("confirm", "direct"))
  /\ UNCHANGED <<db, todo, up, crashes>>

\* The timer of _poll fired: recheck up to its wait.
PollWakes(c, s) ==
  /\ Waiting(c, s, "sleep")
  /\ IF db[c].state \in RECHECKABLE
     THEN Commit(c, Single(SetState(db[c], "rechecking")),
                 Run(c, s, [jobs[c][s] EXCEPT !.pc = "outcome"]))
     ELSE jobs' = End(c, s) /\ UNCHANGED <<db, todo, up, crashes>>
  /\ UNCHANGED budget

\* (mutant) the poll counter is never decreased
NextPollForever(c, s) ==
  LET left == jobs[c][s].left
  IN  IF left > 1 THEN Run(c, s, Poller("sleep", left)) ELSE End(c, s)

\* Go round the loop of _poll, or leave it after the last poll.
NextPoll(c, s) ==
  LET left == jobs[c][s].left
  IN  IF left > 1 THEN Run(c, s, Poller("sleep", left - 1)) ELSE End(c, s)

\* resubmission_outcome answered; "pending" goes on polling, or on the last
\* poll to _confirm_outcome.
OutcomeIs(c, s, outcome) ==
  /\ Waiting(c, s, "outcome")
  /\ \/ /\ outcome # "pending"
        /\ Commit(c, Finish(db[c], outcome = "held"), End(c, s))
     \/ /\ outcome = "pending"
        /\ jobs' = IF jobs[c][s].left > 1 THEN NextPoll(c, s)
                                          ELSE Run(c, s, Poller("confirm", 1))
        /\ UNCHANGED <<db, todo, up, crashes>>
  /\ UNCHANGED budget

\* It raised; _poll goes on as after "pending", and ends after the last poll.
OutcomeFails(c, s) ==
  /\ Waiting(c, s, "outcome")
  /\ Fault("list")
  /\ jobs' = NextPoll(c, s)
  /\ UNCHANGED <<db, todo, up, crashes>>

\* has_resubmission_quarantine answered, for a push or for the last poll.
ConfirmIs(c, s, held) ==
  /\ Waiting(c, s, "confirm")
  /\ Commit(c, Finish(db[c], held), End(c, s))
  /\ UNCHANGED budget

\* It raised.
ConfirmFails(c, s) ==
  /\ Waiting(c, s, "confirm")
  /\ Fault("list")
  /\ jobs' = End(c, s)
  /\ UNCHANGED <<db, todo, up, crashes>>

-------------------------------------------------------------------------------
(* Background sweeps.  A loop lists its cases, visits the first in the     *)
(* same segment and the others one after the other, and lists again only   *)
(* after the last.  The segment that ends one visit begins the next; the   *)
(* two concern different cases and are kept as two steps.                  *)

\* (mutant) off by one at the cap
NotifyFailedIdsBelowCap ==
  {c \in Cases : /\ db[c].state = "notify_failed"
                 /\ db[c].notify_attempts + 1 < NotifyMaxRetries}

\* (mutant) whoever failed once is listed, whatever became of the case
NotifyFailedOnceIds ==
  {c \in Cases : db[c].notify_attempts \in 1 .. NotifyMaxRetries - 1}

NotifyFailedIds ==
  {c \in Cases : /\ db[c].state = "notify_failed"
                 /\ db[c].notify_attempts < NotifyMaxRetries}

\* (mutant) a submission stuck in PASSWORD_SUBMITTED is not swept up
ResubmitFailedIdsOnly ==
  {c \in Cases : /\ db[c].state = "resubmit_failed"
                 /\ db[c].pwd_enc # NoPassword
                 /\ db[c].resubmit_attempts < ResubmitMaxRetries}

ResubmitPendingIds ==
  {c \in Cases : /\ HasResubmitWork(db[c])
                 /\ db[c].resubmit_attempts < ResubmitMaxRetries}

Visiting(k) == \E c \in Cases, s \in Slots : jobs[c][s].by = k

Listed(k) == IF k = "notify" THEN NotifyFailedIds ELSE ResubmitPendingIds

\* The notify sweep sends without looking at the state again; the resubmit
\* sweep calls resubmit_case, which does.
Visit(k, c, s) ==
  /\ Free(c, s)
  /\ ~Visiting(k)
  /\ IF k = "notify" THEN jobs' = Run(c, s, NewJob("send", k)) /\ UNCHANGED db
                     ELSE BeginResubmit(c, s, k)
  /\ UNCHANGED <<up, crashes, budget>>

SweepBegins(k, c, s) ==
  /\ todo[k] = {}
  /\ c \in Listed(k)
  /\ Visit(k, c, s)
  /\ todo' = [todo EXCEPT ![k] = Listed(k) \ {c}]

SweepGoesOn(k, c, s) ==
  /\ c \in todo[k]
  /\ Visit(k, c, s)
  /\ todo' = [todo EXCEPT ![k] = @ \ {c}]

-------------------------------------------------------------------------------
(* Crash and restart *)

Crash ==
  /\ up
  /\ crashes > 0
  /\ up' = FALSE
  /\ crashes' = crashes - 1
  /\ jobs' = NoJobs
  /\ todo' = NothingListed
  /\ UNCHANGED <<db, budget>>

\* The stored passwords as a process sees them that was given a new
\* SECRET_KEY: none of them decrypts.
Rekeyed == [c \in Cases |-> IF db[c].pwd_enc = NoPassword THEN db[c]
                            ELSE StorePassword(db[c], Unreadable)]

\* (mutant) rechecks are not resumed
ResumedResubmitsOnly(s) ==
  [c \in Cases |-> [NoJobs[c] EXCEPT ![s] =
     IF c \in ResubmitPendingIds THEN NewJob("scheduled", "direct") ELSE Idle]]

\* resume_pending: a recheck task for every case still to be rechecked, a
\* resubmission for every held password under the cap.
Resumed(s) ==
  [c \in Cases |-> [NoJobs[c] EXCEPT ![s] =
     IF db'[c].state \in RECHECKABLE THEN Poller("sleep", Polls)
     ELSE IF c \in ResubmitPendingIds THEN NewJob("scheduled", "direct")
     ELSE Idle]]

Restart ==
  /\ ~up
  /\ up' = TRUE
  /\ \/ UNCHANGED <<db, budget>>
     \/ Fault("rekey") /\ db' = Rekeyed
  /\ \E s \in Slots : jobs' = Resumed(s)
  /\ UNCHANGED <<todo, crashes>>

-------------------------------------------------------------------------------
Init ==
  /\ db = [c \in Cases |-> NoCase]
  /\ jobs = NoJobs
  /\ todo = NothingListed
  /\ up = TRUE
  /\ crashes = MaxCrashes
  /\ budget = [fault |-> MaxFaults, push |-> MaxPushes, request |-> MaxRequests]

\* A coroutine in flight is resumed.
Resumes(c, s) ==
  \/ MailerReplies(c, s)
  \/ ResubmitBegins(c, s)
  \/ TargetFound(c, s) \/ TargetMissing(c, s) \/ TargetFails(c, s)
  \/ RescanAccepted(c, s) \/ RescanRefused(c, s) \/ RescanFails(c, s)
  \/ PollWakes(c, s)
  \/ (\E outcome \in ResubmissionOutcome : OutcomeIs(c, s, outcome))
  \/ OutcomeFails(c, s)
  \/ (\E held \in BOOLEAN : ConfirmIs(c, s, held))
  \/ ConfirmFails(c, s)

\* A handler is called from outside.
Called(c, s) ==
  \/ HandleAlert(c, s)
  \/ Resend(c, s)
  \/ ReissueExpiredLink(c, s)
  \/ \E p \in Passwords : HandlePassword(c, s, p)
  \/ RequestRescan(c, s)
  \/ HandleWrongPasswordPush(c, s)
  \/ HandleOtherPush(c, s)
  \/ HandleBounce(c)

Next ==
  \/ \E c \in Cases, s \in Slots : Called(c, s) \/ Resumes(c, s)
  \/ \E k \in Sweeps, c \in Cases, s \in Slots :
       SweepBegins(k, c, s) \/ SweepGoesOn(k, c, s)
  \/ Crash
  \/ Restart

Spec == Init /\ [][Next]_vars

-------------------------------------------------------------------------------
(* Fairness.  Every wait ends: the EX client and the SMTP client time out, *)
(* timers fire, the event loop runs ready coroutines, the sweeps loop for  *)
(* ever, and the service is started again after a crash.  Nothing obliges  *)
(* a person, the appliance or an operator to act.                          *)

Fairness ==
  /\ \A c \in Cases, s \in Slots : WF_vars(Resumes(c, s))
  /\ \A k \in Sweeps, c \in Cases :
       WF_vars(\E s \in Slots : SweepBegins(k, c, s) \/ SweepGoesOn(k, c, s))
  /\ WF_vars(Restart)

FairSpec == Spec /\ Fairness

-------------------------------------------------------------------------------
(* Properties *)

Budgets == [{"fault", "push", "request"} -> Nat]

\* Every variable has its type: rows with counters in Nat and a state of
\* FlowState (storage.AttachmentCase), jobs that wait for something known.
TypeOK ==
  /\ db \in [Cases -> Row]
  /\ jobs \in [Cases -> [Slots -> Job]]
  /\ todo \in [Sweeps -> SUBSET Cases]
  /\ up \in BOOLEAN
  /\ crashes \in Nat
  /\ budget \in Budgets

\* "Only the hash remains": once EX has accepted the rescan, and for as long
\* as the case is being rechecked, concluded or given up, no password is
\* stored.  It must survive overlapping resubmissions and a crash between
\* any two transactions, so it depends on clear_password preceding
\* set_state in resubmit_case and in _finish.
Rescanned == RECHECKABLE \cup Verdicts \cup {"failed_max_retries"}

PurgedOnceResubmitted ==
  \A c \in Cases : db[c].state \in Rescanned => db[c].pwd_enc = NoPassword

\* No case reaches a verdict, is given up, or has a wrong password counted,
\* and no coroutine asks the quarantine list for a verdict, unless EX took at
\* least one rescan for it (the audit row record_password_hash writes).
Asking(c) == \E s \in Slots : jobs[c][s].pc \in {"outcome", "confirm"}

VerdictFollowsRescan ==
  \A c \in Cases :
    db[c].state \in Rescanned \/ db[c].attempts > 0 \/ Asking(c)
      => db[c].hashes > 0

\* While the process runs, a case waiting for its verdict has a coroutine
\* that will read one: schedule_recheck is never missed, neither after a
\* rescan nor by resume_pending, and no poll leaves early.
Polling(c) == \E s \in Slots : jobs[c][s].pc \in {"sleep", "outcome", "confirm"}

BackstopArmed ==
  up => \A c \in Cases : db[c].state \in RECHECKABLE => Polling(c)

\* What may still write over a settled case: a coroutine whose answer is
\* outstanding (a mail, a rescan, a verdict), and a visit of the notify sweep,
\* which mails every case of the list it once read.
Outstanding(c) ==
  \/ \E s \in Slots : jobs[c][s].pc \notin {"idle", "scheduled", "sleep"}
  \/ c \in todo["notify"]

\* Once nothing of that is outstanding a settled case stays as it is, and
\* nothing is begun for it that could move it later: no late bounce, old
\* poller, new sweep, replayed form or restart does either.  Only a counted
\* wrong-password re-detection reopens a verdict, and nothing reopens
\* FAILED_MAX_RETRIES.
SettledStands ==
  [][\A c \in Cases :
       /\ db[c].state \in Verdicts \cup {"failed_max_retries"}
       /\ ~Outstanding(c)
       => \/ db'[c].state = db[c].state /\ ~Outstanding(c)'
          \/ /\ db[c].state \in Verdicts
             /\ db'[c].attempts = db[c].attempts + 1]_vars

\* A resubmitted case is concluded or reopened in the end, through crashes
\* and restarts, as long as EX answers the quarantine queries.
RecheckConcludes ==
  \A c \in Cases : db[c].state \in RECHECKABLE ~> db[c].state \notin RECHECKABLE

\* A password that is held, readable and under the cap is acted on in the end:
\* EX takes the rescan, the case is overtaken, or the failures it counts reach
\* the cap.  A query that raises is not counted and must be tried again.  The
\* cap is over the whole life of the case: in a later round a submission may
\* start at the cap, and nothing takes that one up again.
Retryable(r) ==
  /\ HasResubmitWork(r)
  /\ r.pwd_enc # Unreadable
  /\ r.resubmit_attempts < ResubmitMaxRetries

SubmissionSettles ==
  \A c \in Cases : Retryable(db[c]) ~> ~Retryable(db[c])

\* A failed e-mail is sent again in the end while retries are left.
NotificationRetried ==
  \A c \in Cases :
    db[c].state = "notify_failed" /\ db[c].notify_attempts < NotifyMaxRetries
      ~> db[c].state # "notify_failed" \/ db[c].notify_attempts >= NotifyMaxRetries

\* A coroutine of the case waits for one of these.
InFlight(c, waits) == \E s \in Slots : jobs[c][s].pc \in waits

Stage(r) ==
  CASE r.state = "absent" -> "unknown"
    [] r.state \in {"received", "notify_failed", "bounced", "expired"} -> "unasked"
    [] r.state = "awaiting_password" -> "asked"
    [] r.state \in ResubmitPending -> "answered"
    [] r.state \in RECHECKABLE -> "analysing"
    [] r.state \in Verdicts -> "settled"
    [] r.state = "failed_max_retries" -> "given_up"

ErrandsOf(c) ==
  {e \in {"retry", "link", "rescan", "verdict"} :
     \/ e = "retry" /\ c \in todo["notify"]
     \/ e = "link" /\ InFlight(c, {"send"})
     \/ e = "rescan" /\ InFlight(c, {"target", "rescan"})
     \/ e = "verdict" /\ InFlight(c, {"outcome", "confirm"})}

\* The flow is the lifecycle its users see: whatever coroutines overlap, and
\* however stale what they write, a case changes only by an errand that was
\* begun for a reason.  A bounce, a mail, a rescan or a verdict that comes
\* late may still move a case; an errand that nobody had a reason to begin
\* may not, no password is dropped before EX took a rescan, none is accepted
\* but while the recipient is asked, and none is counted wrong unseen.
Lifecycle == INSTANCE CaseLifecycle WITH
  MaxAttempts <- MaxPasswordAttempts,
  stage <- [c \in Cases |-> Stage(db[c])],
  secret <- [c \in Cases |-> db[c].pwd_enc # NoPassword],
  rescans <- [c \in Cases |-> db[c].hashes],
  wrong <- [c \in Cases |-> db[c].attempts],
  errands <- [c \in Cases |-> ErrandsOf(c)]
ImplementsCaseLifecycle == Lifecycle!Spec

===============================================================================
