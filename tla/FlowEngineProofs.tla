--------------------------- MODULE FlowEngineProofs ---------------------------
(***************************************************************************)
(* Machine-checked proofs about FlowEngine, for any number of cases,       *)
(* coroutines, passwords, retries, polls, crashes, failures and pushes.    *)
(***************************************************************************)
EXTENDS FlowEngine, TLAPS

(* What the transactions of a segment do to a row. *)

WriteOK(w) == w.done \in Row /\ w.half \subseteq Row

\* Every transaction of the repository turns a row into a row.
LEMMA TransactionsAreTyped ==
  ASSUME NEW r \in Row
  PROVE  /\ \A s \in FlowState : SetState(r, s) \in Row
         /\ \A p \in Held : StorePassword(r, p) \in Row
         /\ ClearPassword(r) \in Row
         /\ RecordHash(r) \in Row
         /\ IncrementAttempts(r) \in Row
         /\ IncrementNotify(r) \in Row
         /\ IncrementResubmit(r) \in Row
<1>1. \A s \in FlowState : SetState(r, s) \in Row
  BY DEF Row, SetState
<1>2. \A p \in Held : StorePassword(r, p) \in Row
  BY DEF Row, StorePassword
<1>3. ClearPassword(r) \in Row
  BY DEF Row, ClearPassword
<1>4. RecordHash(r) \in Row /\ IncrementAttempts(r) \in Row
  BY DEF Row, RecordHash, IncrementAttempts
<1>5. IncrementNotify(r) \in Row /\ IncrementResubmit(r) \in Row
  BY DEF Row, IncrementNotify, IncrementResubmit
<1> QED
  BY <1>1, <1>2, <1>3, <1>4, <1>5

\* Every segment writes rows, at its end and wherever it may be cut off.
LEMMA WritesAreTyped ==
  ASSUME NEW r \in Row
  PROVE  /\ \A s \in FlowState : WriteOK(Single(SetState(r, s)))
         /\ WriteOK(AskedAgain(r))
         /\ WriteOK(SendFailed(r))
         /\ \A p \in Held : WriteOK(PasswordAccepted(r, p))
         /\ WriteOK(ResubmitFailed(r))
         /\ WriteOK(Resubmitted(r))
         /\ \A held \in BOOLEAN : WriteOK(Finish(r, held))
         /\ WriteOK(GivenUp(r))
         /\ WriteOK(Single(IncrementAttempts(r)))
<1> USE DEF FlowState
<1>1. \A s \in FlowState : WriteOK(Single(SetState(r, s)))
  BY TransactionsAreTyped DEF WriteOK, Single
<1>2. WriteOK(AskedAgain(r))
  BY TransactionsAreTyped DEF WriteOK, Single, AskedAgain
<1>3. WriteOK(SendFailed(r))
  BY TransactionsAreTyped DEF WriteOK, SendFailed
<1>4. \A p \in Held : WriteOK(PasswordAccepted(r, p))
  BY TransactionsAreTyped DEF WriteOK, PasswordAccepted
<1>5. WriteOK(ResubmitFailed(r))
  BY TransactionsAreTyped DEF WriteOK, ResubmitFailed
<1>6. WriteOK(Resubmitted(r))
  BY TransactionsAreTyped DEF WriteOK, Resubmitted
<1>7. \A held \in BOOLEAN : WriteOK(Finish(r, held))
  BY TransactionsAreTyped DEF WriteOK, Finish
<1>8. WriteOK(GivenUp(r))
  BY TransactionsAreTyped DEF WriteOK, GivenUp
<1>9. WriteOK(Single(IncrementAttempts(r)))
  BY TransactionsAreTyped DEF WriteOK, Single
<1> QED
  BY <1>1, <1>2, <1>3, <1>4, <1>5, <1>6, <1>7, <1>8, <1>9

\* The jobs the actions start are jobs.
LEMMA JobsAreTyped ==
  /\ \A pc \in Waits, by \in Sweeps \cup {"direct"} : NewJob(pc, by) \in Job
  /\ Idle \in Job
  /\ \A pc \in Waits, left \in 0 .. Polls : Poller(pc, left) \in Job
  /\ NoJobs \in [Cases -> [Slots -> Job]]
  /\ NothingListed \in [Sweeps -> SUBSET Cases]
BY LimitsAssumption
   DEF Job, NewJob, Idle, Poller, NoJobs, NothingListed, Waits, Sweeps

\* A coroutine that goes on to its next wait is still a job.
LEMMA NextWaitIsTyped ==
  ASSUME NEW j \in Job, NEW pc \in Waits
  PROVE  [j EXCEPT !.pc = pc] \in Job /\ NewJob(pc, j.by) \in Job
<1>1. [j EXCEPT !.pc = pc] \in Job
  BY DEF Job
<1>2. j.by \in Sweeps \cup {"direct"}
  BY DEF Job
<1> QED
  BY <1>1, <1>2, JobsAreTyped

\* Starting or ending a coroutine keeps the table of coroutines typed.
LEMMA RunIsTyped ==
  ASSUME TypeOK, NEW c \in Cases, NEW s \in Slots
  PROVE  /\ \A j \in Job : Run(c, s, j) \in [Cases -> [Slots -> Job]]
         /\ End(c, s) \in [Cases -> [Slots -> Job]]
         /\ jobs \in [Cases -> [Slots -> Job]]
         /\ jobs[c][s] \in Job
BY JobsAreTyped DEF TypeOK, Run, End

\* Committing well-typed writes keeps every variable but budget typed.
LEMMA CommitIsTyped ==
  ASSUME TypeOK, NEW c \in Cases, NEW w, WriteOK(w),
         NEW running \in [Cases -> [Slots -> Job]], Commit(c, w, running)
  PROVE  /\ db' \in [Cases -> Row]
         /\ jobs' \in [Cases -> [Slots -> Job]]
         /\ todo' \in [Sweeps -> SUBSET Cases]
         /\ up' \in BOOLEAN
         /\ crashes' \in Nat
<1>1. CASE /\ db' = [db EXCEPT ![c] = w.done]
           /\ jobs' = running
           /\ UNCHANGED <<todo, up, crashes>>
  BY <1>1 DEF TypeOK, WriteOK
<1>2. CASE /\ crashes > 0
           /\ \E r \in w.half : db' = [db EXCEPT ![c] = r]
           /\ jobs' = NoJobs
           /\ todo' = NothingListed
           /\ up' = FALSE
           /\ crashes' = crashes - 1
  <2>1. PICK r \in w.half : db' = [db EXCEPT ![c] = r]
    BY <1>2
  <2>2. db' \in [Cases -> Row]
    BY <2>1 DEF TypeOK, WriteOK
  <2>3. crashes' \in Nat
    BY <1>2 DEF TypeOK
  <2>4. up' \in BOOLEAN
    BY <1>2, Zenon
  <2> QED
    BY <1>2, <2>2, <2>3, <2>4, JobsAreTyped
<1> QED
  BY <1>1, <1>2 DEF Commit

\* Nothing is ever taken from an empty budget.
LEMMA SpendIsTyped ==
  ASSUME TypeOK, NEW b \in {"fault", "push", "request"}, Spend(b)
  PROVE  budget' \in Budgets
BY DEF TypeOK, Spend, Budgets

LEMMA FaultIsTyped ==
  ASSUME TypeOK, NEW kind, Fault(kind)
  PROVE  budget' \in Budgets
BY SpendIsTyped DEF Fault

\* The first segment of resubmit_case, from wherever it is called.
LEMMA BeginIsTyped ==
  ASSUME TypeOK, NEW c \in Cases, NEW s \in Slots,
         NEW by \in Sweeps \cup {"direct"}, BeginResubmit(c, s, by)
  PROVE  db' \in [Cases -> Row] /\ jobs' \in [Cases -> [Slots -> Job]]
<1>1. CASE jobs' = End(c, s) /\ UNCHANGED db
  BY <1>1, RunIsTyped DEF TypeOK
<1>2. CASE /\ db' = [db EXCEPT ![c] = SetState(@, "resubmit_failed")]
           /\ jobs' = End(c, s)
  <2>1. SetState(db[c], "resubmit_failed") \in Row
    BY TransactionsAreTyped DEF TypeOK, FlowState
  <2> QED
    BY <1>2, <2>1, RunIsTyped DEF TypeOK
<1>3. CASE /\ HasResubmitWork(db[c])
           /\ db[c].pwd_enc # Unreadable
           /\ jobs' = Run(c, s, [NewJob("target", by) EXCEPT !.pwd = db[c].pwd_enc])
           /\ UNCHANGED db
  <2>1. db[c].pwd_enc \in Passwords
    BY <1>3 DEF TypeOK, Row, Held, HasResubmitWork
  <2>2. NewJob("target", by) \in Job
    BY JobsAreTyped DEF Waits
  <2>3. [NewJob("target", by) EXCEPT !.pwd = db[c].pwd_enc] \in Job
    BY <2>1, <2>2 DEF Job
  <2> QED
    BY <1>3, <2>3, RunIsTyped DEF TypeOK
<1> QED
  BY <1>1, <1>2, <1>3 DEF BeginResubmit

\* A visit of a sweep, first or later.
LEMMA VisitIsTyped ==
  ASSUME TypeOK, NEW k \in Sweeps, NEW c \in Cases, NEW s \in Slots, Visit(k, c, s)
  PROVE  db' \in [Cases -> Row] /\ jobs' \in [Cases -> [Slots -> Job]]
<1>1. NewJob("send", k) \in Job
  BY JobsAreTyped DEF Waits
<1> QED
  BY <1>1, BeginIsTyped, RunIsTyped DEF Visit, TypeOK

\* Going round the loop of _poll keeps the coroutines well typed.
LEMMA NextPollIsTyped ==
  ASSUME TypeOK, NEW c \in Cases, NEW s \in Slots
  PROVE  NextPoll(c, s) \in [Cases -> [Slots -> Job]]
<1>1. CASE jobs[c][s].left > 1
  <2>1. jobs[c][s].left - 1 \in 0 .. Polls
    BY <1>1, LimitsAssumption DEF TypeOK, Job
  <2> QED
    BY <1>1, <2>1, RunIsTyped, JobsAreTyped DEF NextPoll, Waits
<1>2. CASE ~(jobs[c][s].left > 1)
  BY <1>2, RunIsTyped DEF NextPoll
<1> QED
  BY <1>1, <1>2

\* Every action keeps every variable typed.
LEMMA TypeStep ==
  ASSUME TypeOK, [Next]_vars
  PROVE  TypeOK'
<1>1. ASSUME NEW c \in Cases, NEW s \in Slots,
             HandleAlert(c, s)
      PROVE  TypeOK'
  <2>1. db' \in [Cases -> Row]
    <3>1. SetState(db[c], "received") \in Row
      BY TransactionsAreTyped DEF TypeOK, FlowState
    <3> QED
      BY <1>1, <3>1 DEF HandleAlert, TypeOK
  <2>2. jobs' \in [Cases -> [Slots -> Job]]
    BY <1>1, RunIsTyped, JobsAreTyped DEF HandleAlert, Waits
  <2>3. budget' \in Budgets
    BY <1>1, SpendIsTyped DEF HandleAlert, TypeOK
  <2> QED
    BY <1>1, <2>1, <2>2, <2>3 DEF HandleAlert, TypeOK
<1>2. ASSUME NEW c \in Cases, NEW s \in Slots, NEW from,
             SendAgain(c, s, from)
      PROVE  TypeOK'
  BY <1>2, RunIsTyped, JobsAreTyped, SpendIsTyped
     DEF SendAgain, Waits, TypeOK
<1>3. ASSUME NEW c \in Cases, NEW s \in Slots,
             MailerReplies(c, s)
      PROVE  TypeOK'
  BY <1>3, RunIsTyped, JobsAreTyped, CommitIsTyped, WritesAreTyped, FaultIsTyped
     DEF MailerReplies, TypeOK
<1>4. ASSUME NEW c \in Cases, NEW s \in Slots,
             HandleBounce(c)
      PROVE  TypeOK'
  BY <1>4, RunIsTyped, JobsAreTyped, CommitIsTyped, WritesAreTyped, FaultIsTyped
     DEF HandleBounce, FlowState, TypeOK
<1>5. ASSUME NEW c \in Cases, NEW s \in Slots, NEW p \in Passwords,
             HandlePassword(c, s, p)
      PROVE  TypeOK'
  BY <1>5, RunIsTyped, JobsAreTyped, CommitIsTyped, WritesAreTyped
     DEF HandlePassword, Held, Waits, TypeOK
<1>6. ASSUME NEW c \in Cases, NEW s \in Slots,
             RequestRescan(c, s)
      PROVE  TypeOK'
  BY <1>6, BeginIsTyped, SpendIsTyped DEF RequestRescan, TypeOK
<1>7. ASSUME NEW c \in Cases, NEW s \in Slots,
             ResubmitBegins(c, s)
      PROVE  TypeOK'
  BY <1>7, BeginIsTyped DEF ResubmitBegins, TypeOK
<1>8a. ASSUME NEW c \in Cases, NEW s \in Slots,
             TargetFound(c, s)
      PROVE  TypeOK'
  <2>1. [jobs[c][s] EXCEPT !.pc = "rescan"] \in Job
    BY RunIsTyped, NextWaitIsTyped DEF Waits
  <2> QED
    BY <1>8a, <2>1, RunIsTyped DEF TargetFound, TypeOK
<1>8b. ASSUME NEW c \in Cases, NEW s \in Slots,
             TargetMissing(c, s)
      PROVE  TypeOK'
  BY <1>8b, RunIsTyped, CommitIsTyped, WritesAreTyped DEF TargetMissing, TypeOK
<1>8c. ASSUME NEW c \in Cases, NEW s \in Slots,
             TargetFails(c, s)
      PROVE  TypeOK'
  BY <1>8c, RunIsTyped, FaultIsTyped DEF TargetFails, TypeOK
<1>9a. ASSUME NEW c \in Cases, NEW s \in Slots,
             RescanAccepted(c, s)
      PROVE  TypeOK'
  <2>1. Poller("sleep", Polls) \in Job
    BY JobsAreTyped, LimitsAssumption DEF Waits
  <2> QED
    BY <1>9a, <2>1, RunIsTyped, CommitIsTyped, WritesAreTyped DEF RescanAccepted, TypeOK
<1>9b. ASSUME NEW c \in Cases, NEW s \in Slots,
             RescanRefused(c, s)
      PROVE  TypeOK'
  BY <1>9b, RunIsTyped, CommitIsTyped, WritesAreTyped DEF RescanRefused, TypeOK
<1>9c. ASSUME NEW c \in Cases, NEW s \in Slots,
             RescanFails(c, s)
      PROVE  TypeOK'
  BY <1>9c, RunIsTyped, CommitIsTyped, WritesAreTyped, FaultIsTyped
     DEF RescanFails, TypeOK
<1>10. ASSUME NEW c \in Cases, NEW s \in Slots,
             HandleWrongPasswordPush(c, s)
      PROVE  TypeOK'
  BY <1>10, RunIsTyped, JobsAreTyped, CommitIsTyped, WritesAreTyped, SpendIsTyped
     DEF HandleWrongPasswordPush, Waits, TypeOK
<1>11. ASSUME NEW c \in Cases, NEW s \in Slots,
             HandleOtherPush(c, s)
      PROVE  TypeOK'
  BY <1>11, RunIsTyped, JobsAreTyped, SpendIsTyped
     DEF HandleOtherPush, Waits, TypeOK
<1>12. ASSUME NEW c \in Cases, NEW s \in Slots,
             PollWakes(c, s)
      PROVE  TypeOK'
  <2>1. [jobs[c][s] EXCEPT !.pc = "outcome"] \in Job
    BY RunIsTyped, NextWaitIsTyped DEF Waits
  <2>2. CASE Commit(c, Single(SetState(db[c], "rechecking")),
                    Run(c, s, [jobs[c][s] EXCEPT !.pc = "outcome"]))
    BY <1>12, <2>1, <2>2, RunIsTyped, CommitIsTyped, WritesAreTyped
       DEF PollWakes, FlowState, TypeOK
  <2>3. CASE jobs' = End(c, s) /\ UNCHANGED <<db, todo, up, crashes>>
    BY <1>12, <2>3, RunIsTyped DEF PollWakes, TypeOK
  <2> QED
    BY <1>12, <2>2, <2>3 DEF PollWakes
<1>13a. ASSUME NEW c \in Cases, NEW s \in Slots, NEW outcome,
             OutcomeIs(c, s, outcome)
      PROVE  TypeOK'
  <2>1. NextPoll(c, s) \in [Cases -> [Slots -> Job]]
    BY NextPollIsTyped
  <2>2. Run(c, s, Poller("confirm", 1)) \in [Cases -> [Slots -> Job]]
    <3>1. 1 \in 0 .. Polls
      BY LimitsAssumption
    <3> QED
      BY <3>1, RunIsTyped, JobsAreTyped DEF Waits
  <2>3. CASE Commit(c, Finish(db[c], outcome = "held"), End(c, s))
    BY <1>13a, <2>3, RunIsTyped, CommitIsTyped, WritesAreTyped DEF OutcomeIs, TypeOK
  <2>4. CASE /\ jobs' = IF jobs[c][s].left > 1 THEN NextPoll(c, s)
                                              ELSE Run(c, s, Poller("confirm", 1))
             /\ UNCHANGED <<db, todo, up, crashes>>
    BY <1>13a, <2>1, <2>2, <2>4 DEF OutcomeIs, TypeOK
  <2> QED
    BY <1>13a, <2>3, <2>4 DEF OutcomeIs
<1>13b. ASSUME NEW c \in Cases, NEW s \in Slots,
             OutcomeFails(c, s)
      PROVE  TypeOK'
  BY <1>13b, NextPollIsTyped, FaultIsTyped DEF OutcomeFails, TypeOK
<1>14a. ASSUME NEW c \in Cases, NEW s \in Slots, NEW held \in BOOLEAN,
             ConfirmIs(c, s, held)
      PROVE  TypeOK'
  BY <1>14a, RunIsTyped, CommitIsTyped, WritesAreTyped DEF ConfirmIs, TypeOK
<1>14b. ASSUME NEW c \in Cases, NEW s \in Slots,
             ConfirmFails(c, s)
      PROVE  TypeOK'
  BY <1>14b, RunIsTyped, FaultIsTyped DEF ConfirmFails, TypeOK
<1>15. ASSUME NEW k \in Sweeps, NEW c \in Cases, NEW s \in Slots,
             SweepBegins(k, c, s)
      PROVE  TypeOK'
  <2>1. todo' \in [Sweeps -> SUBSET Cases]
    BY <1>15 DEF SweepBegins, Listed, NotifyFailedIds, ResubmitPendingIds, TypeOK
  <2> QED
    BY <1>15, <2>1, VisitIsTyped DEF SweepBegins, Visit, TypeOK
<1>16. ASSUME NEW k \in Sweeps, NEW c \in Cases, NEW s \in Slots,
             SweepGoesOn(k, c, s)
      PROVE  TypeOK'
  <2>1. todo' \in [Sweeps -> SUBSET Cases]
    BY <1>16 DEF SweepGoesOn, TypeOK
  <2> QED
    BY <1>16, <2>1, VisitIsTyped DEF SweepGoesOn, Visit, TypeOK
<1>17. ASSUME Crash
      PROVE  TypeOK'
  <2>1. crashes' \in Nat
    BY <1>17 DEF Crash, TypeOK
  <2>2. up' \in BOOLEAN
    BY <1>17, Zenon DEF Crash
  <2> QED
    BY <1>17, <2>1, <2>2, JobsAreTyped DEF Crash, TypeOK
<1>18. ASSUME Restart
      PROVE  TypeOK'
  <2>1. Rekeyed \in [Cases -> Row]
    BY TransactionsAreTyped DEF Rekeyed, TypeOK, Held
  <2>2. db' \in [Cases -> Row] /\ budget' \in Budgets
    BY <1>18, <2>1, FaultIsTyped DEF Restart, TypeOK
  <2>3. jobs' \in [Cases -> [Slots -> Job]]
    <3>1. PICK s \in Slots : jobs' = Resumed(s)
      BY <1>18 DEF Restart
    <3>2. Poller("sleep", Polls) \in Job /\ NewJob("scheduled", "direct") \in Job
      BY JobsAreTyped, LimitsAssumption DEF Waits
    <3>3. \A j \in Job, d \in Cases : [NoJobs[d] EXCEPT ![s] = j] \in [Slots -> Job]
      BY JobsAreTyped
    <3> QED
      BY <3>1, <3>2, <3>3, JobsAreTyped DEF Resumed
  <2>4. up' \in BOOLEAN
    BY <1>18, Zenon DEF Restart
  <2> QED
    BY <1>18, <2>2, <2>3, <2>4 DEF Restart, TypeOK
<1>19. CASE UNCHANGED vars
  BY <1>19 DEF vars, TypeOK
<1> QED
  BY <1>1, <1>2, <1>3, <1>4, <1>5, <1>6, <1>7, <1>8a, <1>8b, <1>8c, <1>9a, <1>9b, <1>9c,
     <1>10, <1>11, <1>12, <1>13a, <1>13b, <1>14a, <1>14b, <1>15, <1>16, <1>17, <1>18, <1>19
     DEF Next, Called, Resumes, Resend, ReissueExpiredLink

LEMMA TypeInit == Init => TypeOK
<1> SUFFICES ASSUME Init PROVE TypeOK
  OBVIOUS
<1>1. NoCase \in Row
  BY DEF NoCase, Row
<1>2. db \in [Cases -> Row]
  BY <1>1 DEF Init
<1>3. crashes \in Nat /\ budget \in Budgets
  BY EnvironmentAssumption DEF Init, Budgets
<1>4. up \in BOOLEAN
  BY Zenon DEF Init
<1> QED
  BY <1>2, <1>3, <1>4, JobsAreTyped DEF Init, TypeOK

\* Every variable keeps its type in every reachable state.
THEOREM TypeCorrect == Spec => []TypeOK
<1>1. Init => TypeOK
  BY TypeInit
<1>2. TypeOK /\ [Next]_vars => TypeOK'
  BY TypeStep
<1> QED
  BY <1>1, <1>2, PTL DEF Spec

-------------------------------------------------------------------------------
(***************************************************************************)
(* What one step of the program may do to one row, and which coroutine or  *)
(* state allows it.  Every property of rows follows from this relation.    *)
(***************************************************************************)

Writes(w, n) == n = w.done \/ n \in w.half

RowStep(c, r, n) ==
  \/ n = r
  \/ r.state = "absent" /\ n = SetState(r, "received")
  \/ InFlight(c, {"send"}) /\ (Writes(AskedAgain(r), n) \/ Writes(SendFailed(r), n))
  \/ r.state \notin TERMINAL /\ n = SetState(r, "bounced")
  \/ /\ r.state = "awaiting_password"
     /\ \E p \in Passwords : Writes(PasswordAccepted(r, p), n)
  \/ HasResubmitWork(r) /\ n = SetState(r, "resubmit_failed")
  \/ InFlight(c, {"target", "rescan"}) /\ Writes(ResubmitFailed(r), n)
  \/ /\ InFlight(c, {"rescan"}) /\ Writes(Resubmitted(r), n)
     /\ up' => Polling(c)'
  \/ /\ r.state \in RECHECKABLE \cup Verdicts
     /\ n = IncrementAttempts(r) \/ Writes(GivenUp(r), n)
  \/ r.state \in RECHECKABLE /\ n = SetState(r, "rechecking")
  \/ InFlight(c, {"outcome", "confirm"}) /\ \E held \in BOOLEAN : Writes(Finish(r, held), n)
  \/ r.pwd_enc # NoPassword /\ n = StorePassword(r, Unreadable)

\* A commit writes the row of its case and no other.
LEMMA CommitWrites ==
  ASSUME TypeOK, NEW c \in Cases, NEW w, NEW running, Commit(c, w, running)
  PROVE  /\ Writes(w, db'[c])
         /\ \A d \in Cases \ {c} : db'[d] = db[d]
BY DEF TypeOK, Commit, Writes

\* An action that leaves the table alone satisfies the relation.
LEMMA UnchangedRow ==
  ASSUME NEW d, UNCHANGED db
  PROVE  RowStep(d, db[d], db'[d])
BY DEF RowStep

\* The first segment of resubmit_case writes at most an unreadable password.
LEMMA BeginWrites ==
  ASSUME TypeOK, NEW c \in Cases, NEW s, NEW by, BeginResubmit(c, s, by),
         NEW d \in Cases
  PROVE  RowStep(d, db[d], db'[d])
BY DEF BeginResubmit, RowStep, TypeOK

\* Every step of the program is a RowStep on every row.
LEMMA EveryWrite ==
  ASSUME TypeOK, [Next]_vars, NEW d \in Cases
  PROVE  RowStep(d, db[d], db'[d])
<1> USE CommitWrites, UnchangedRow
<1>1. ASSUME NEW c \in Cases, NEW s \in Slots,
             HandleAlert(c, s)
      PROVE  RowStep(d, db[d], db'[d])
  BY <1>1 DEF HandleAlert, RowStep, TypeOK
<1>2. ASSUME NEW c \in Cases, NEW s \in Slots, NEW from,
             SendAgain(c, s, from)
      PROVE  RowStep(d, db[d], db'[d])
  BY <1>2 DEF SendAgain
<1>3. ASSUME NEW c \in Cases, NEW s \in Slots,
             MailerReplies(c, s)
      PROVE  RowStep(d, db[d], db'[d])
  BY <1>3 DEF MailerReplies, Waiting, InFlight, RowStep
<1>4. ASSUME NEW c \in Cases, NEW s \in Slots,
             HandleBounce(c)
      PROVE  RowStep(d, db[d], db'[d])
  BY <1>4 DEF HandleBounce, Single, Writes, RowStep
<1>5. ASSUME NEW c \in Cases, NEW s \in Slots, NEW p \in Passwords,
             HandlePassword(c, s, p)
      PROVE  RowStep(d, db[d], db'[d])
  BY <1>5 DEF HandlePassword, RowStep
<1>6. ASSUME NEW c \in Cases, NEW s \in Slots,
             RequestRescan(c, s)
      PROVE  RowStep(d, db[d], db'[d])
  BY <1>6, BeginWrites DEF RequestRescan
<1>7. ASSUME NEW c \in Cases, NEW s \in Slots,
             ResubmitBegins(c, s)
      PROVE  RowStep(d, db[d], db'[d])
  BY <1>7, BeginWrites DEF ResubmitBegins
<1>8a. ASSUME NEW c \in Cases, NEW s \in Slots,
             TargetFound(c, s)
      PROVE  RowStep(d, db[d], db'[d])
  BY <1>8a DEF TargetFound
<1>8b. ASSUME NEW c \in Cases, NEW s \in Slots,
             TargetMissing(c, s)
      PROVE  RowStep(d, db[d], db'[d])
  BY <1>8b DEF TargetMissing, Waiting, InFlight, RowStep
<1>8c. ASSUME NEW c \in Cases, NEW s \in Slots,
             TargetFails(c, s)
      PROVE  RowStep(d, db[d], db'[d])
  BY <1>8c DEF TargetFails
<1>9a. ASSUME NEW c \in Cases, NEW s \in Slots,
             RescanAccepted(c, s)
      PROVE  RowStep(d, db[d], db'[d])
  <2>1. CASE d = c
    <3>1. up' => jobs' = Run(c, s, Poller("sleep", Polls))
      BY <1>9a DEF RescanAccepted, Commit
    <3>2. up' => jobs'[c][s].pc = "sleep"
      BY <3>1 DEF Run, Poller, NewJob, TypeOK
    <3> QED
      BY <1>9a, <2>1, <3>2 DEF RescanAccepted, Waiting, InFlight, RowStep, Polling
  <2>2. CASE d # c
    BY <1>9a, <2>2 DEF RescanAccepted, RowStep
  <2> QED
    BY <2>1, <2>2
<1>9b. ASSUME NEW c \in Cases, NEW s \in Slots,
             RescanRefused(c, s) \/ RescanFails(c, s)
      PROVE  RowStep(d, db[d], db'[d])
  BY <1>9b DEF RescanRefused, RescanFails, Waiting, InFlight, RowStep
<1>10. ASSUME NEW c \in Cases, NEW s \in Slots,
             HandleWrongPasswordPush(c, s)
      PROVE  RowStep(d, db[d], db'[d])
  BY <1>10 DEF HandleWrongPasswordPush, Single, Writes, RowStep
<1>11. ASSUME NEW c \in Cases, NEW s \in Slots,
             HandleOtherPush(c, s)
      PROVE  RowStep(d, db[d], db'[d])
  BY <1>11 DEF HandleOtherPush
<1>12. ASSUME NEW c \in Cases, NEW s \in Slots,
             PollWakes(c, s)
      PROVE  RowStep(d, db[d], db'[d])
  BY <1>12 DEF PollWakes, Single, Writes, RowStep
<1>13a. ASSUME NEW c \in Cases, NEW s \in Slots, NEW outcome,
             OutcomeIs(c, s, outcome)
      PROVE  RowStep(d, db[d], db'[d])
  <2>1. (outcome = "held") \in BOOLEAN
    OBVIOUS
  <2> QED
    BY <1>13a, <2>1 DEF OutcomeIs, Waiting, InFlight, RowStep
<1>13b. ASSUME NEW c \in Cases, NEW s \in Slots,
             OutcomeFails(c, s)
      PROVE  RowStep(d, db[d], db'[d])
  BY <1>13b DEF OutcomeFails
<1>14a. ASSUME NEW c \in Cases, NEW s \in Slots, NEW held \in BOOLEAN,
             ConfirmIs(c, s, held)
      PROVE  RowStep(d, db[d], db'[d])
  BY <1>14a DEF ConfirmIs, Waiting, InFlight, RowStep
<1>14b. ASSUME NEW c \in Cases, NEW s \in Slots,
             ConfirmFails(c, s)
      PROVE  RowStep(d, db[d], db'[d])
  BY <1>14b DEF ConfirmFails
<1>15. ASSUME NEW k, NEW c \in Cases, NEW s \in Slots, SweepBegins(k, c, s)
      PROVE  RowStep(d, db[d], db'[d])
  BY <1>15, BeginWrites DEF SweepBegins, Visit
<1>16. ASSUME NEW k, NEW c \in Cases, NEW s \in Slots, SweepGoesOn(k, c, s)
      PROVE  RowStep(d, db[d], db'[d])
  BY <1>16, BeginWrites DEF SweepGoesOn, Visit
<1>17. ASSUME Crash
      PROVE  RowStep(d, db[d], db'[d])
  BY <1>17 DEF Crash
<1>18. ASSUME Restart
      PROVE  RowStep(d, db[d], db'[d])
  BY <1>18 DEF Restart, Rekeyed, RowStep, TypeOK
<1>19. CASE UNCHANGED vars
  BY <1>19 DEF vars
<1> QED
  BY <1>1, <1>2, <1>3, <1>4, <1>5, <1>6, <1>7, <1>8a, <1>8b, <1>8c, <1>9a, <1>9b, <1>10,
     <1>11, <1>12, <1>13a, <1>13b, <1>14a, <1>14b, <1>15, <1>16, <1>17, <1>18, <1>19
     DEF Next, Called, Resumes, Resend, ReissueExpiredLink

-------------------------------------------------------------------------------
(* Only the hash remains *)

Purged(r) == r.state \in Rescanned => r.pwd_enc = NoPassword

\* Whatever a segment does, and wherever it is cut off, it leaves no password
\* behind in a state in which the case has been rescanned.
LEMMA PurgedStep ==
  ASSUME NEW c, NEW r \in Row, NEW n, Purged(r), RowStep(c, r, n)
  PROVE  Purged(n)
<1> USE DEF Purged, Rescanned, RECHECKABLE, Verdicts, TERMINAL, Row, Writes
<1>1. CASE n = r
  BY <1>1
<1>2. CASE n = SetState(r, "received")
  BY <1>2 DEF SetState
<1>3. CASE Writes(AskedAgain(r), n) \/ Writes(SendFailed(r), n)
  BY <1>3 DEF AskedAgain, SendFailed, Single, SetState, IncrementNotify
<1>4. CASE n = SetState(r, "bounced")
  BY <1>4 DEF SetState
<1>5. CASE /\ r.state = "awaiting_password"
           /\ \E p \in Passwords : Writes(PasswordAccepted(r, p), n)
  BY <1>5 DEF PasswordAccepted, SetState, StorePassword
<1>6. CASE n = SetState(r, "resubmit_failed")
  BY <1>6 DEF SetState
<1>7. CASE Writes(ResubmitFailed(r), n)
  BY <1>7 DEF ResubmitFailed, SetState, IncrementResubmit
<1>8. CASE Writes(Resubmitted(r), n)
  BY <1>8 DEF Resubmitted, SetState, RecordHash, ClearPassword
<1>9. CASE /\ r.state \in RECHECKABLE \cup Verdicts
           /\ n = IncrementAttempts(r) \/ Writes(GivenUp(r), n)
  BY <1>9 DEF GivenUp, SetState, IncrementAttempts
<1>10. CASE r.state \in RECHECKABLE /\ n = SetState(r, "rechecking")
  BY <1>10 DEF SetState
<1>11. CASE \E held \in BOOLEAN : Writes(Finish(r, held), n)
  BY <1>11 DEF Finish, SetState, ClearPassword
<1>12. CASE r.pwd_enc # NoPassword /\ n = StorePassword(r, Unreadable)
  BY <1>12 DEF StorePassword
<1> QED
  BY <1>1, <1>2, <1>3, <1>4, <1>5, <1>6, <1>7, <1>8, <1>9, <1>10, <1>11, <1>12
     DEF RowStep

\* From the moment EX has accepted a rescan, through recheck, verdict and
\* giving up, no password is stored: for any overlap of coroutines and any
\* crash.  TypeOK /\ PurgedOnceResubmitted is inductive.
THEOREM OnlyTheHashRemains == Spec => []PurgedOnceResubmitted
<1>1. Init => PurgedOnceResubmitted
  BY DEF Init, PurgedOnceResubmitted, NoCase
<1>2. TypeOK /\ PurgedOnceResubmitted /\ [Next]_vars => PurgedOnceResubmitted'
  <2> SUFFICES ASSUME TypeOK, PurgedOnceResubmitted, [Next]_vars, NEW c \in Cases
               PROVE  db'[c].state \in Rescanned => db'[c].pwd_enc = NoPassword
    BY DEF PurgedOnceResubmitted
  <2>1. db[c] \in Row /\ Purged(db[c])
    BY DEF TypeOK, PurgedOnceResubmitted, Purged
  <2>2. Purged(db'[c])
    BY <2>1, EveryWrite, PurgedStep
  <2> QED
    BY <2>2 DEF Purged
<1> QED
  BY <1>1, <1>2, TypeCorrect, PTL DEF Spec

-------------------------------------------------------------------------------
(***************************************************************************)
(* What one step may do to one coroutine, and what the step does to its    *)
(* case at the same time.                                                  *)
(***************************************************************************)

PcStep(c, s) ==
  LET from == jobs[c][s].pc
      to   == jobs'[c][s].pc
  IN  \/ to = from
      \/ to = "idle" /\ ~up'
      \/ to \in {"idle", "scheduled", "sleep"} /\ ~up
      \/ from = "idle" /\ to \in {"send", "scheduled", "target"}
      \/ from = "idle" /\ to = "confirm" /\ db[c].state \in RECHECKABLE
      \/ from = "send" /\ to = "idle"
      \/ from = "scheduled" /\ to \in {"target", "idle"}
      \/ from = "target" /\ to \in {"rescan", "idle"}
      \/ from = "rescan" /\ to \in {"sleep", "idle"}
      \/ from = "sleep" /\ to = "outcome" /\ db[c].state \in RECHECKABLE
      \/ from = "sleep" /\ to = "idle" /\ db'[c].state \notin RECHECKABLE
      \/ from = "outcome" /\ to \in {"sleep", "confirm"}
      \/ /\ from \in {"outcome", "confirm"} /\ to = "idle"
         /\ db'[c].state \in Verdicts \/ "list" \in Faults

\* Starting a coroutine in a slot leaves every other slot alone.
LEMMA RunEffect ==
  ASSUME TypeOK, NEW c \in Cases, NEW s \in Slots, NEW j,
         NEW d \in Cases, NEW t \in Slots
  PROVE  Run(c, s, j)[d][t] = IF d = c /\ t = s THEN j ELSE jobs[d][t]
BY DEF TypeOK, Run

\* A commit leaves the coroutines as told, or the process is dead.
LEMMA CommitJobs ==
  ASSUME TypeOK, NEW c \in Cases, NEW w, NEW running, Commit(c, w, running),
         NEW d \in Cases, NEW t \in Slots
  PROVE  \/ jobs' = running /\ db'[c] = w.done
         \/ jobs'[d][t].pc = "idle" /\ ~up'
BY DEF Commit, NoJobs, Idle, NewJob, TypeOK

\* _finish concludes the case.
LEMMA FinishConcludes ==
  ASSUME NEW r \in Row, NEW held
  PROVE  Finish(r, held).done.state \in Verdicts
BY DEF Finish, SetState, ClearPassword, Row, Verdicts

\* The first segment of resubmit_case ends or queries the list.
LEMMA BeginJobs ==
  ASSUME TypeOK, NEW c \in Cases, NEW s \in Slots, NEW by, BeginResubmit(c, s, by),
         jobs[c][s].pc \in {"idle", "scheduled"},
         NEW d \in Cases, NEW t \in Slots
  PROVE  PcStep(d, t)
<1>1. CASE jobs' = End(c, s)
  BY <1>1, RunEffect DEF PcStep, End, Idle, NewJob
<1>2. CASE jobs' = Run(c, s, [NewJob("target", by) EXCEPT !.pwd = db[c].pwd_enc])
  <2>1. PICK j : j.pc = "target" /\ jobs' = Run(c, s, j)
    BY <1>2 DEF NewJob
  <2> QED
    BY <2>1, RunEffect DEF PcStep
<1> QED
  BY <1>1, <1>2 DEF BeginResubmit

\* Every step of the program is a PcStep of every coroutine.
LEMMA EveryJob ==
  ASSUME TypeOK, [Next]_vars, NEW d \in Cases, NEW t \in Slots
  PROVE  PcStep(d, t)
<1> USE RunEffect, CommitJobs DEF PcStep, End, Idle, NewJob, Poller
<1>1. ASSUME NEW c \in Cases, NEW s \in Slots,
             HandleAlert(c, s)
      PROVE  PcStep(d, t)
  BY <1>1 DEF HandleAlert, Free, Waiting
<1>2. ASSUME NEW c \in Cases, NEW s \in Slots, NEW from,
             SendAgain(c, s, from)
      PROVE  PcStep(d, t)
  BY <1>2 DEF SendAgain, Free, Waiting
<1>3. ASSUME NEW c \in Cases, NEW s \in Slots,
             MailerReplies(c, s)
      PROVE  PcStep(d, t)
  BY <1>3 DEF MailerReplies, Waiting
<1>4. ASSUME NEW c \in Cases, NEW s \in Slots,
             HandleBounce(c)
      PROVE  PcStep(d, t)
  BY <1>4 DEF HandleBounce
<1>5. ASSUME NEW c \in Cases, NEW s \in Slots, NEW p \in Passwords,
             HandlePassword(c, s, p)
      PROVE  PcStep(d, t)
  BY <1>5 DEF HandlePassword, Free, Waiting
<1>6. ASSUME NEW c \in Cases, NEW s \in Slots,
             RequestRescan(c, s)
      PROVE  PcStep(d, t)
  BY <1>6, BeginJobs DEF RequestRescan, Free, Waiting
<1>7. ASSUME NEW c \in Cases, NEW s \in Slots,
             ResubmitBegins(c, s)
      PROVE  PcStep(d, t)
  BY <1>7, BeginJobs DEF ResubmitBegins, Waiting
<1>8a. ASSUME NEW c \in Cases, NEW s \in Slots,
             TargetFound(c, s)
      PROVE  PcStep(d, t)
  <2>1. PICK j : j.pc = "rescan" /\ jobs' = Run(c, s, j)
    BY <1>8a, RunIsTyped DEF TargetFound, Job
  <2> QED
    BY <1>8a, <2>1 DEF TargetFound, Waiting
<1>8b. ASSUME NEW c \in Cases, NEW s \in Slots,
             TargetMissing(c, s)
      PROVE  PcStep(d, t)
  BY <1>8b DEF TargetMissing, Waiting
<1>8c. ASSUME NEW c \in Cases, NEW s \in Slots,
             TargetFails(c, s)
      PROVE  PcStep(d, t)
  BY <1>8c DEF TargetFails, Waiting
<1>9a. ASSUME NEW c \in Cases, NEW s \in Slots,
             RescanAccepted(c, s)
      PROVE  PcStep(d, t)
  BY <1>9a DEF RescanAccepted, Waiting
<1>9b. ASSUME NEW c \in Cases, NEW s \in Slots,
             RescanRefused(c, s) \/ RescanFails(c, s)
      PROVE  PcStep(d, t)
  BY <1>9b DEF RescanRefused, RescanFails, Waiting
<1>10. ASSUME NEW c \in Cases, NEW s \in Slots,
             HandleWrongPasswordPush(c, s)
      PROVE  PcStep(d, t)
  BY <1>10 DEF HandleWrongPasswordPush, Free, Waiting
<1>11. ASSUME NEW c \in Cases, NEW s \in Slots,
             HandleOtherPush(c, s)
      PROVE  PcStep(d, t)
  BY <1>11 DEF HandleOtherPush, Free, Waiting
<1>12. ASSUME NEW c \in Cases, NEW s \in Slots,
             PollWakes(c, s)
      PROVE  PcStep(d, t)
  <2>1. CASE /\ db[c].state \in RECHECKABLE
             /\ Commit(c, Single(SetState(db[c], "rechecking")),
                       Run(c, s, [jobs[c][s] EXCEPT !.pc = "outcome"]))
    <3>1. PICK j : /\ j.pc = "outcome"
                   /\ Commit(c, Single(SetState(db[c], "rechecking")), Run(c, s, j))
      BY <2>1, RunIsTyped DEF Job
    <3> QED
      BY <1>12, <2>1, <3>1 DEF PollWakes, Waiting
  <2>2. CASE /\ db[c].state \notin RECHECKABLE
             /\ jobs' = End(c, s)
             /\ UNCHANGED db
    BY <1>12, <2>2 DEF PollWakes, Waiting
  <2> QED
    BY <1>12, <2>1, <2>2 DEF PollWakes
<1>13a. ASSUME NEW c \in Cases, NEW s \in Slots, NEW outcome,
             OutcomeIs(c, s, outcome)
      PROVE  PcStep(d, t)
  <2>1. CASE Commit(c, Finish(db[c], outcome = "held"), End(c, s))
    <3>1. Finish(db[c], outcome = "held").done.state \in Verdicts
      BY FinishConcludes DEF TypeOK
    <3> QED
      BY <1>13a, <2>1, <3>1 DEF OutcomeIs, Waiting
  <2>2. CASE jobs' = NextPoll(c, s) /\ jobs[c][s].left > 1
    BY <1>13a, <2>2 DEF OutcomeIs, Waiting, NextPoll
  <2>3. CASE jobs' = Run(c, s, Poller("confirm", 1))
    BY <1>13a, <2>3 DEF OutcomeIs, Waiting
  <2> QED
    BY <1>13a, <2>1, <2>2, <2>3 DEF OutcomeIs
<1>13b. ASSUME NEW c \in Cases, NEW s \in Slots,
             OutcomeFails(c, s)
      PROVE  PcStep(d, t)
  BY <1>13b DEF OutcomeFails, Waiting, NextPoll, Fault
<1>14a. ASSUME NEW c \in Cases, NEW s \in Slots, NEW held \in BOOLEAN,
             ConfirmIs(c, s, held)
      PROVE  PcStep(d, t)
  <2>1. Finish(db[c], held).done.state \in Verdicts
    BY FinishConcludes DEF TypeOK
  <2> QED
    BY <1>14a, <2>1 DEF ConfirmIs, Waiting
<1>14b. ASSUME NEW c \in Cases, NEW s \in Slots,
             ConfirmFails(c, s)
      PROVE  PcStep(d, t)
  BY <1>14b DEF ConfirmFails, Waiting, Fault
<1>15. ASSUME NEW k, NEW c \in Cases, NEW s \in Slots, SweepBegins(k, c, s)
      PROVE  PcStep(d, t)
  BY <1>15, BeginJobs DEF SweepBegins, Visit, Free, Waiting
<1>16. ASSUME NEW k, NEW c \in Cases, NEW s \in Slots, SweepGoesOn(k, c, s)
      PROVE  PcStep(d, t)
  BY <1>16, BeginJobs DEF SweepGoesOn, Visit, Free, Waiting
<1>17. ASSUME Crash
      PROVE  PcStep(d, t)
  BY <1>17 DEF Crash, NoJobs
<1>18. ASSUME Restart
      PROVE  PcStep(d, t)
  BY <1>18 DEF Restart, Resumed, NoJobs
<1>19. CASE UNCHANGED vars
  BY <1>19 DEF vars
<1> QED
  BY <1>1, <1>2, <1>3, <1>4, <1>5, <1>6, <1>7, <1>8a, <1>8b, <1>8c, <1>9a, <1>9b, <1>10,
     <1>11, <1>12, <1>13a, <1>13b, <1>14a, <1>14b, <1>15, <1>16, <1>17, <1>18, <1>19
     DEF Next, Called, Resumes, Resend, ReissueExpiredLink

-------------------------------------------------------------------------------
(* No verdict without a rescan *)

Earned(c, r) == r.state \in Rescanned \/ r.attempts > 0 \/ Asking(c) => r.hashes > 0

\* A write that makes a case look rescanned comes from a rescan, or from a
\* state or a coroutine that already implied one; audit rows never go.
LEMMA EarnedStep ==
  ASSUME NEW c \in Cases, NEW r \in Row, NEW n, Earned(c, r), RowStep(c, r, n)
  PROVE  /\ n.state \in Rescanned \/ n.attempts > 0 => n.hashes > 0
         /\ r.hashes > 0 => n.hashes > 0
<1> USE DEF Earned, Rescanned, RECHECKABLE, Verdicts, TERMINAL, Row, Writes
<1>1. CASE n = r
  BY <1>1
<1>2. CASE r.state = "absent" /\ n = SetState(r, "received")
  BY <1>2 DEF SetState
<1>3. CASE Writes(AskedAgain(r), n) \/ Writes(SendFailed(r), n)
  BY <1>3 DEF AskedAgain, SendFailed, Single, SetState, IncrementNotify
<1>4. CASE n = SetState(r, "bounced")
  BY <1>4 DEF SetState
<1>5. CASE \E p \in Passwords : Writes(PasswordAccepted(r, p), n)
  BY <1>5 DEF PasswordAccepted, SetState, StorePassword
<1>6. CASE n = SetState(r, "resubmit_failed")
  BY <1>6 DEF SetState
<1>7. CASE Writes(ResubmitFailed(r), n)
  BY <1>7 DEF ResubmitFailed, SetState, IncrementResubmit
<1>8. CASE Writes(Resubmitted(r), n)
  <2>1. RecordHash(r) \in Row /\ RecordHash(r).hashes > 0
    BY DEF RecordHash
  <2>2. n.hashes = RecordHash(r).hashes
    BY <1>8, <2>1 DEF Resubmitted, SetState, ClearPassword
  <2> QED
    BY <2>1, <2>2
<1>9. CASE /\ r.state \in RECHECKABLE \cup Verdicts
           /\ n = IncrementAttempts(r) \/ Writes(GivenUp(r), n)
  BY <1>9 DEF GivenUp, SetState, IncrementAttempts
<1>10. CASE r.state \in RECHECKABLE /\ n = SetState(r, "rechecking")
  BY <1>10 DEF SetState
<1>11. CASE /\ InFlight(c, {"outcome", "confirm"})
            /\ \E held \in BOOLEAN : Writes(Finish(r, held), n)
  BY <1>11 DEF Finish, SetState, ClearPassword, InFlight, Asking
<1>12. CASE n = StorePassword(r, Unreadable)
  BY <1>12 DEF StorePassword
<1> QED
  BY <1>1, <1>2, <1>3, <1>4, <1>5, <1>6, <1>7, <1>8, <1>9, <1>10, <1>11, <1>12
     DEF RowStep

\* No case is rechecked, concluded, given up or counted against, and nobody
\* asks for its verdict, before EX took a rescan for it.
THEOREM VerdictIsEarned == Spec => []VerdictFollowsRescan
<1>1. Init => VerdictFollowsRescan
  BY DEF Init, VerdictFollowsRescan, NoCase, Rescanned, RECHECKABLE, Verdicts,
         Asking, NoJobs, Idle, NewJob
<1>2. TypeOK /\ VerdictFollowsRescan /\ [Next]_vars => VerdictFollowsRescan'
  <2> SUFFICES ASSUME TypeOK, VerdictFollowsRescan, [Next]_vars, NEW c \in Cases
               PROVE  db'[c].state \in Rescanned \/ db'[c].attempts > 0 \/ Asking(c)'
                        => db'[c].hashes > 0
    BY DEF VerdictFollowsRescan
  <2>1. db[c] \in Row /\ Earned(c, db[c]) /\ RowStep(c, db[c], db'[c])
    BY EveryWrite DEF TypeOK, VerdictFollowsRescan, Earned
  <2>2. CASE db'[c].state \in Rescanned \/ db'[c].attempts > 0
    BY <2>1, <2>2, EarnedStep
  <2>3. CASE Asking(c)'
    <3>1. PICK s \in Slots : jobs'[c][s].pc \in {"outcome", "confirm"}
      BY <2>3 DEF Asking
    <3>2. Asking(c) \/ db[c].state \in RECHECKABLE
      BY <3>1, EveryJob DEF PcStep, Asking
    <3>3. db[c].hashes > 0
      BY <2>1, <3>2 DEF Earned, Rescanned
    <3> QED
      BY <2>1, <3>3, EarnedStep
  <2> QED
    BY <2>2, <2>3
<1> QED
  BY <1>1, <1>2, TypeCorrect, PTL DEF Spec

-------------------------------------------------------------------------------
(* The recheck task backs every recheckable case *)

\* The only write that makes a case recheckable is that of an accepted rescan.
LEMMA BecomesRecheckable ==
  ASSUME NEW c \in Cases, NEW r \in Row, NEW n, RowStep(c, r, n),
         r.state \notin RECHECKABLE, n.state \in RECHECKABLE
  PROVE  up' => Polling(c)'
<1> USE DEF RECHECKABLE, Verdicts, Row, Writes
<1>1. CASE n = r \/ n = SetState(r, "received")
  BY <1>1 DEF SetState
<1>2. CASE Writes(AskedAgain(r), n) \/ Writes(SendFailed(r), n)
  BY <1>2 DEF AskedAgain, SendFailed, Single, SetState, IncrementNotify
<1>3. CASE n = SetState(r, "bounced") \/ n = SetState(r, "resubmit_failed")
  BY <1>3 DEF SetState
<1>4. CASE \E p \in Passwords : Writes(PasswordAccepted(r, p), n)
  BY <1>4 DEF PasswordAccepted, SetState, StorePassword
<1>5. CASE Writes(ResubmitFailed(r), n)
  BY <1>5 DEF ResubmitFailed, SetState, IncrementResubmit
<1>6. CASE n = IncrementAttempts(r) \/ Writes(GivenUp(r), n)
  BY <1>6 DEF GivenUp, SetState, IncrementAttempts
<1>7. CASE \E held \in BOOLEAN : Writes(Finish(r, held), n)
  BY <1>7 DEF Finish, SetState, ClearPassword
<1>8. CASE n = StorePassword(r, Unreadable)
  BY <1>8 DEF StorePassword
<1> QED
  BY <1>1, <1>2, <1>3, <1>4, <1>5, <1>6, <1>7, <1>8 DEF RowStep

\* A restart gives every recheckable case a recheck task.
LEMMA ResumedPolls ==
  ASSUME TypeOK, Restart, NEW c \in Cases, db'[c].state \in RECHECKABLE
  PROVE  Polling(c)'
<1>1. PICK s \in Slots : jobs' = Resumed(s)
  BY DEF Restart
<1>2. jobs'[c][s] = Poller("sleep", Polls)
  BY <1>1 DEF Resumed, NoJobs
<1> QED
  BY <1>2 DEF Polling, Poller, NewJob

\* The process comes up only by a restart.
LEMMA OnlyRestartRevives ==
  ASSUME [Next]_vars, ~up, up'
  PROVE  Restart
<1>1. ASSUME NEW c, NEW s, Called(c, s)
      PROVE  up
  BY <1>1, Zenon
     DEF Called, HandleAlert, Resend, ReissueExpiredLink, SendAgain, HandlePassword,
         RequestRescan, HandleWrongPasswordPush, HandleOtherPush, HandleBounce,
         Free, Waiting
<1>2. ASSUME NEW c, NEW s, Resumes(c, s)
      PROVE  up
  BY <1>2, Zenon
     DEF Resumes, MailerReplies, ResubmitBegins, TargetFound, TargetMissing,
         TargetFails, RescanAccepted, RescanRefused, RescanFails, PollWakes, OutcomeIs,
         OutcomeFails, ConfirmIs, ConfirmFails, Waiting
<1>3. ASSUME NEW k, NEW c, NEW s, SweepBegins(k, c, s)
      PROVE  up
  BY <1>3, Zenon DEF SweepBegins, Visit, Free, Waiting
<1>4. ASSUME NEW k, NEW c, NEW s, SweepGoesOn(k, c, s)
      PROVE  up
  BY <1>4, Zenon DEF SweepGoesOn, Visit, Free, Waiting
<1>5. ASSUME UNCHANGED vars
      PROVE  FALSE
  BY <1>5 DEF vars
<1> QED
  BY <1>1, <1>2, <1>3, <1>4, <1>5, Zenon DEF Next, Crash

\* As long as EX answers the quarantine queries, a running process has, for
\* every case that waits for its verdict, a coroutine that will read one.
THEOREM BackstopHolds ==
  ASSUME "list" \notin Faults
  PROVE  Spec => []BackstopArmed
<1>1. Init => BackstopArmed
  BY DEF Init, BackstopArmed, NoCase, RECHECKABLE
<1>2. TypeOK /\ BackstopArmed /\ [Next]_vars => BackstopArmed'
  <2> SUFFICES ASSUME TypeOK, BackstopArmed, [Next]_vars, NEW c \in Cases,
                      up', db'[c].state \in RECHECKABLE
               PROVE  Polling(c)'
    BY DEF BackstopArmed
  <2>1. CASE ~up
    BY <2>1, OnlyRestartRevives, ResumedPolls
  <2>2. CASE up /\ db[c].state \notin RECHECKABLE
    BY <2>2, EveryWrite, BecomesRecheckable DEF TypeOK
  <2>3. CASE up /\ db[c].state \in RECHECKABLE
    <3>1. PICK s \in Slots : jobs[c][s].pc \in {"sleep", "outcome", "confirm"}
      BY <2>3 DEF BackstopArmed, Polling
    <3>2. db'[c].state \notin Verdicts
      BY DEF RECHECKABLE, Verdicts
    <3>3. jobs'[c][s].pc \in {"sleep", "outcome", "confirm"}
      BY <2>3, <3>1, <3>2, EveryJob DEF PcStep
    <3> QED
      BY <3>3 DEF Polling
  <2> QED
    BY <2>1, <2>2, <2>3
<1> QED
  BY <1>1, <1>2, TypeCorrect, PTL DEF Spec

-------------------------------------------------------------------------------
(* Settled cases stand *)

\* With no answer outstanding, the writes that remain possible on a settled
\* row leave its state alone or count a wrong password against a verdict.
LEMMA SettledStep ==
  ASSUME NEW c \in Cases, NEW r \in Row, NEW n, RowStep(c, r, n),
         r.state \in Verdicts \cup {"failed_max_retries"}, ~Outstanding(c)
  PROVE  \/ n.state = r.state
         \/ r.state \in Verdicts /\ n.attempts = r.attempts + 1
<1> USE DEF Verdicts, RECHECKABLE, TERMINAL, Row
<1>1. ~InFlight(c, {"send"}) /\ ~InFlight(c, {"target", "rescan"})
  BY DEF InFlight, Outstanding
<1>2. ~InFlight(c, {"rescan"}) /\ ~InFlight(c, {"outcome", "confirm"})
  BY DEF InFlight, Outstanding
<1>3. CASE n = r
  BY <1>3
<1>4. CASE r.state \in Verdicts /\ n = IncrementAttempts(r)
  BY <1>4 DEF IncrementAttempts
<1>5. CASE r.state \in Verdicts /\ Writes(GivenUp(r), n)
  BY <1>5 DEF Writes, GivenUp, SetState, IncrementAttempts
<1>6. CASE n = StorePassword(r, Unreadable)
  BY <1>6 DEF StorePassword
<1> QED
  BY <1>1, <1>2, <1>3, <1>4, <1>5, <1>6
     DEF RowStep, HasResubmitWork, ResubmitPending

-------------------------------------------------------------------------------
(***************************************************************************)
(* The flow implements CaseLifecycle: what a step makes of the errands     *)
(* under way, what it makes of the row, and which step of the lifecycle    *)
(* that is.                                                                *)
(***************************************************************************)

\* The errand a coroutine is on while it waits.
ErrandsAt(pc) ==
  {e \in {"link", "rescan", "verdict"} :
     \/ e = "link" /\ pc = "send"
     \/ e = "rescan" /\ pc \in {"target", "rescan"}
     \/ e = "verdict" /\ pc \in {"outcome", "confirm"}}

\* The table of coroutines has no errands the present one has not, but for new
\* ones of c; and the step begins no others.
Adds(running, c, new) ==
  \A d \in Cases, t \in Slots :
    ErrandsAt(running[d][t].pc) \subseteq ErrandsOf(d) \cup (IF d = c THEN new ELSE {})
Started(c, new) ==
  \A d \in Cases : ErrandsOf(d)' \subseteq ErrandsOf(d) \cup (IF d = c THEN new ELSE {})

\* One row changes.
RowTo(c, n) == db[c] \in Row /\ n \in Row /\ db' = [db EXCEPT ![c] = n]

\* Errands of a case are those of its coroutines, and a mail listed for retry.
LEMMA ErrandsUnderWay ==
  ASSUME NEW d, NEW e
  PROVE  /\ e \in ErrandsOf(d) <=> \/ e = "retry" /\ d \in todo["notify"]
                                   \/ \E t \in Slots : e \in ErrandsAt(jobs[d][t].pc)
         /\ e \in ErrandsOf(d)' <=> \/ e = "retry" /\ d \in todo'["notify"]
                                    \/ \E t \in Slots : e \in ErrandsAt(jobs'[d][t].pc)
BY DEF ErrandsOf, ErrandsAt, InFlight

\* What waits for nothing of the kind is on no errand.
LEMMA NoErrands ==
  /\ ErrandsAt("idle") = {} /\ ErrandsAt("scheduled") = {} /\ ErrandsAt("sleep") = {}
  /\ ErrandsAt("send") = {"link"}
  /\ ErrandsAt("target") = {"rescan"} /\ ErrandsAt("rescan") = {"rescan"}
  /\ ErrandsAt("outcome") = {"verdict"} /\ ErrandsAt("confirm") = {"verdict"}
BY DEF ErrandsAt

\* Starting or ending a coroutine adds the errand of that coroutine at most.
LEMMA RunAdds ==
  ASSUME TypeOK, NEW c \in Cases, NEW s \in Slots, NEW j
  PROVE  /\ Adds(Run(c, s, j), c, ErrandsAt(j.pc))
         /\ Adds(End(c, s), c, {})
         /\ Adds(jobs, c, {})
         /\ Adds(NoJobs, c, {})
<1>1. \A d \in Cases, t \in Slots : ErrandsAt(jobs[d][t].pc) \subseteq ErrandsOf(d)
  BY ErrandsUnderWay
<1>2. \A i : Adds(Run(c, s, i), c, ErrandsAt(i.pc))
  BY <1>1, RunEffect DEF Adds
<1>3. Idle.pc = "idle"
  BY DEF Idle, NewJob
<1>4. Adds(End(c, s), c, {})
  BY <1>2, <1>3, NoErrands DEF End
<1>5. Adds(NoJobs, c, {})
  BY <1>3, NoErrands DEF Adds, NoJobs
<1> QED
  BY <1>1, <1>2, <1>4, <1>5 DEF Adds

\* A table that adds no errand starts none.
LEMMA AddsStarts ==
  ASSUME NEW c, NEW new, Adds(jobs', c, new), todo'["notify"] \subseteq todo["notify"]
  PROVE  Started(c, new)
<1> SUFFICES ASSUME NEW d \in Cases, NEW e, e \in ErrandsOf(d)'
             PROVE  e \in ErrandsOf(d) \cup (IF d = c THEN new ELSE {})
  BY DEF Started
<1> QED
  BY ErrandsUnderWay DEF Adds

\* A commit changes one row; cut short, it loses all errands.
LEMMA CommitMoves ==
  ASSUME TypeOK, NEW c \in Cases, NEW w, WriteOK(w), NEW running, Commit(c, w, running),
         NEW new, Adds(running, c, new)
  PROVE  \E n : /\ RowTo(c, n)
                /\ \/ n = w.done /\ Started(c, new)
                   \/ n \in w.half /\ Started(c, {})
<1>1. CASE /\ db' = [db EXCEPT ![c] = w.done]
           /\ jobs' = running
           /\ UNCHANGED <<todo, up, crashes>>
  <2>1. RowTo(c, w.done)
    BY <1>1 DEF RowTo, WriteOK, TypeOK
  <2>2. Started(c, new)
    BY <1>1, AddsStarts
  <2> QED
    BY <2>1, <2>2
<1>2. CASE /\ \E r \in w.half : db' = [db EXCEPT ![c] = r]
           /\ jobs' = NoJobs
           /\ todo' = NothingListed
  <2>1. PICK r \in w.half : db' = [db EXCEPT ![c] = r]
    BY <1>2
  <2>2. RowTo(c, r)
    BY <2>1 DEF RowTo, WriteOK, TypeOK
  <2>3. todo'["notify"] = {} /\ Adds(jobs', c, {})
    <3>1. \A t \in Slots, d \in Cases : NoJobs[d][t].pc = "idle"
      BY DEF NoJobs, Idle, NewJob
    <3> QED
      BY <1>2, <3>1, NoErrands DEF NothingListed, Sweeps, Adds
  <2>4. Started(c, {})
    BY <2>3, AddsStarts
  <2> QED
    BY <2>1, <2>2, <2>4
<1> QED
  BY <1>1, <1>2 DEF Commit

\* The stage of a row is that of its state.
LEMMA Stages ==
  ASSUME NEW r \in Row
  PROVE  /\ Stage(r) = "unknown" <=> r.state = "absent"
         /\ Stage(r) = "unasked"
              <=> r.state \in {"received", "notify_failed", "bounced", "expired"}
         /\ Stage(r) = "asked" <=> r.state = "awaiting_password"
         /\ Stage(r) = "answered" <=> r.state \in ResubmitPending
         /\ Stage(r) = "analysing" <=> r.state \in RECHECKABLE
         /\ Stage(r) = "settled" <=> r.state \in Verdicts
         /\ Stage(r) = "given_up" <=> r.state = "failed_max_retries"
BY DEF Stage, Row, FlowState, ResubmitPending, RECHECKABLE, Verdicts

\* A change of one row in the eyes of the lifecycle.
LEMMA RowMoves ==
  ASSUME TypeOK, NEW c \in Cases, NEW n, RowTo(c, n), NEW new, Started(c, new)
  PROVE  /\ Lifecycle!Begun(c, new)
         /\ Lifecycle!Becomes(c, Stage(n))
         /\ [d \in Cases |-> db'[d].pwd_enc # NoPassword]
              = [[d \in Cases |-> db[d].pwd_enc # NoPassword]
                   EXCEPT ![c] = n.pwd_enc # NoPassword]
         /\ [d \in Cases |-> db'[d].hashes]
              = [[d \in Cases |-> db[d].hashes] EXCEPT ![c] = n.hashes]
         /\ [d \in Cases |-> db'[d].attempts]
              = [[d \in Cases |-> db[d].attempts] EXCEPT ![c] = n.attempts]
<1>1. \A d \in Cases : db'[d] = IF d = c THEN n ELSE db[d]
  BY DEF RowTo, TypeOK
<1>2. Lifecycle!Begun(c, new)
  BY DEF Lifecycle!Begun, Started, ErrandsOf, Lifecycle!Errands
<1>3. Lifecycle!Becomes(c, Stage(n))
  BY <1>1 DEF Lifecycle!Becomes
<1> QED
  BY <1>1, <1>2, <1>3

\* What the change leaves as it was.
LEMMA RowKeeps ==
  ASSUME TypeOK, NEW c \in Cases, NEW n, RowTo(c, n)
  PROVE  /\ Stage(n) = Stage(db[c]) => UNCHANGED [d \in Cases |-> Stage(db[d])]
         /\ (n.pwd_enc # NoPassword <=> db[c].pwd_enc # NoPassword)
              => UNCHANGED [d \in Cases |-> db[d].pwd_enc # NoPassword]
         /\ n.hashes = db[c].hashes => UNCHANGED [d \in Cases |-> db[d].hashes]
         /\ n.attempts = db[c].attempts => UNCHANGED [d \in Cases |-> db[d].attempts]
<1>1. \A d \in Cases : db'[d] = IF d = c THEN n ELSE db[d]
  BY DEF RowTo, TypeOK
<1> QED
  BY <1>1

\* The lifecycle sees no difference between the rows.
Alike(r, n) ==
  /\ Stage(n) = Stage(r)
  /\ n.pwd_enc # NoPassword <=> r.pwd_enc # NoPassword
  /\ n.hashes = r.hashes /\ n.attempts = r.attempts

\* Rows that look alike, and errands that something calls for.
LEMMA Dispatches ==
  ASSUME \A d \in Cases : Alike(db[d], db'[d]),
         \A d \in Cases : \A e \in ErrandsOf(d)' \ ErrandsOf(d) : Lifecycle!CalledFor(d, e)
  PROVE  Lifecycle!Dispatch
<1>1. UNCHANGED [d \in Cases |-> Stage(db[d])]
  BY DEF Alike
<1>2. UNCHANGED [d \in Cases |-> db[d].pwd_enc # NoPassword]
  BY DEF Alike
<1>3. UNCHANGED [d \in Cases |-> db[d].hashes] /\ UNCHANGED [d \in Cases |-> db[d].attempts]
  BY DEF Alike
<1>4. [d \in Cases |-> ErrandsOf(d)]' \in [Cases -> SUBSET Lifecycle!Errands]
  BY DEF ErrandsOf, Lifecycle!Errands
<1> HIDE DEF Lifecycle!CalledFor
<1>5. \A c \in Cases : \A e \in ([d \in Cases |-> ErrandsOf(d)]'[c]) \ ([d \in Cases |-> ErrandsOf(d)][c]) :
        Lifecycle!CalledFor(c, e)
  OBVIOUS
<1> QED
  BY <1>1, <1>2, <1>3, <1>4, <1>5 DEF Lifecycle!Dispatch

\* One row that looks as before, and at most one errand that begins with it.
LEMMA RowDispatch ==
  ASSUME TypeOK, NEW c \in Cases, NEW n, RowTo(c, n), Alike(db[c], n),
         NEW new, Started(c, new), \A e \in new : Lifecycle!CalledFor(c, e)
  PROVE  Lifecycle!Dispatch
<1>1. \A d \in Cases : db'[d] = IF d = c THEN n ELSE db[d]
  BY DEF RowTo, TypeOK
<1>2. \A d \in Cases : Alike(db[d], db'[d])
  BY <1>1 DEF Alike
<1>3. \A d \in Cases : \A e \in ErrandsOf(d)' \ ErrandsOf(d) : Lifecycle!CalledFor(d, e)
  <2> HIDE DEF Lifecycle!CalledFor
  <2> QED
    BY DEF Started
<1> QED
  BY <1>2, <1>3, Dispatches

\* No row changes, and at most one errand begins.
LEMMA ErrandDispatch ==
  ASSUME TypeOK, UNCHANGED db, NEW c \in Cases, NEW new, Started(c, new),
         \A e \in new : Lifecycle!CalledFor(c, e)
  PROVE  Lifecycle!Dispatch
<1>1. RowTo(c, db[c]) /\ Alike(db[c], db[c])
  BY DEF RowTo, TypeOK, Alike
<1> QED
  BY <1>1, RowDispatch

\* The mail server answered.
LEMMA AsLinkEnds ==
  ASSUME TypeOK, NEW c \in Cases, NEW s \in Slots, MailerReplies(c, s)
  PROVE  Lifecycle!Next
<1>1. db[c] \in Row
  BY DEF TypeOK
<1>2. Adds(End(c, s), c, {})
  BY RunAdds
<1>3. "link" \in ErrandsOf(c)
  BY DEF MailerReplies, Waiting, ErrandsOf, InFlight
<1>4. PICK w \in {AskedAgain(db[c]), SendFailed(db[c])} : Commit(c, w, End(c, s))
  BY DEF MailerReplies
<1>5. WriteOK(w)
  BY <1>1, <1>4, WritesAreTyped
<1>6. PICK n : RowTo(c, n) /\ Started(c, {}) /\ Writes(w, n)
  BY <1>2, <1>4, <1>5, CommitMoves DEF Writes
<1>7. /\ n.pwd_enc = db[c].pwd_enc /\ n.hashes = db[c].hashes /\ n.attempts = db[c].attempts
      /\ n.state \in {"awaiting_password", "notify_failed", db[c].state}
  <2>1. CASE w = AskedAgain(db[c])
    <3>1. n = SetState(db[c], "awaiting_password")
      BY <1>6, <2>1 DEF Writes, AskedAgain, Single
    <3> QED
      BY <1>1, <3>1 DEF SetState, Row
  <2>2. CASE w = SendFailed(db[c])
    <3> DEFINE counted == IncrementNotify(db[c])
    <3>1. n \in {counted, SetState(counted, "notify_failed")}
      BY <1>6, <2>2 DEF Writes, SendFailed
    <3> QED
      BY <1>1, <3>1 DEF SetState, IncrementNotify, Row
  <2> QED
    BY <1>4, <2>1, <2>2
<1>8. CASE n.state = db[c].state
  <2>1. Alike(db[c], n)
    BY <1>7, <1>8 DEF Alike, Stage
  <2> QED
    BY <1>6, <2>1, RowDispatch DEF Lifecycle!Next
<1>9. CASE n.state \in {"awaiting_password", "notify_failed"}
  <2>1. Stage(n) \in {"asked", "unasked"}
    BY <1>6, <1>9, Stages DEF RowTo
  <2>2. Lifecycle!LinkEnds(c)
    BY <1>3, <1>6, <1>7, <2>1, RowMoves, RowKeeps DEF Lifecycle!LinkEnds, Lifecycle!NoneBegun
  <2> QED
    BY <2>2 DEF Lifecycle!Next
<1> QED
  BY <1>7, <1>8, <1>9

\* What each write leaves, cut short or not.
LEMMA WriteFacts ==
  ASSUME NEW r \in Row, NEW n
  PROVE  /\ Writes(ResubmitFailed(r), n) =>
              /\ n.pwd_enc = r.pwd_enc /\ n.hashes = r.hashes /\ n.attempts = r.attempts
              /\ n.state \in {r.state, "resubmit_failed"}
         /\ \A p \in Passwords : Writes(PasswordAccepted(r, p), n) =>
              /\ n.pwd_enc = p /\ n.hashes = r.hashes /\ n.attempts = r.attempts
              /\ n.state \in {r.state, "password_submitted"}
         /\ Writes(Resubmitted(r), n) =>
              /\ n.hashes = r.hashes + 1 /\ n.attempts = r.attempts
              /\ \/ n.pwd_enc = r.pwd_enc /\ n.state = r.state
                 \/ n.pwd_enc = NoPassword /\ n.state \in {r.state, "resubmitted"}
         /\ \A held \in BOOLEAN : Writes(Finish(r, held), n) =>
              /\ n.pwd_enc = NoPassword /\ n.hashes = r.hashes /\ n.attempts = r.attempts
              /\ n.state \in {r.state} \cup Verdicts
         /\ Writes(GivenUp(r), n) =>
              /\ n.pwd_enc = r.pwd_enc /\ n.hashes = r.hashes /\ n.attempts = r.attempts + 1
              /\ n.state \in {r.state, "failed_max_retries"}
<1> USE DEF Writes, Row, SetState
<1>1. Writes(ResubmitFailed(r), n) =>
        /\ n.pwd_enc = r.pwd_enc /\ n.hashes = r.hashes /\ n.attempts = r.attempts
        /\ n.state \in {r.state, "resubmit_failed"}
  <2> DEFINE counted == IncrementResubmit(r)
  <2> SUFFICES ASSUME n \in {counted, SetState(counted, "resubmit_failed")}
               PROVE  /\ n.pwd_enc = r.pwd_enc /\ n.hashes = r.hashes
                      /\ n.attempts = r.attempts /\ n.state \in {r.state, "resubmit_failed"}
    BY DEF ResubmitFailed
  <2> QED
    BY DEF IncrementResubmit
<1>2. ASSUME NEW p \in Passwords, Writes(PasswordAccepted(r, p), n)
      PROVE  /\ n.pwd_enc = p /\ n.hashes = r.hashes /\ n.attempts = r.attempts
             /\ n.state \in {r.state, "password_submitted"}
  <2> DEFINE stored == StorePassword(r, p)
  <2>1. n \in {stored, SetState(stored, "password_submitted")}
    BY <1>2 DEF PasswordAccepted
  <2> QED
    BY <2>1 DEF StorePassword
<1>3. ASSUME Writes(Resubmitted(r), n)
      PROVE  /\ n.hashes = r.hashes + 1 /\ n.attempts = r.attempts
             /\ \/ n.pwd_enc = r.pwd_enc /\ n.state = r.state
                \/ n.pwd_enc = NoPassword /\ n.state \in {r.state, "resubmitted"}
  <2> DEFINE hashed == RecordHash(r)
             cleared == ClearPassword(hashed)
  <2>1. n \in {hashed, cleared, SetState(cleared, "resubmitted")}
    BY <1>3 DEF Resubmitted
  <2> QED
    BY <2>1 DEF RecordHash, ClearPassword
<1>4. ASSUME NEW held \in BOOLEAN, Writes(Finish(r, held), n)
      PROVE  /\ n.pwd_enc = NoPassword /\ n.hashes = r.hashes /\ n.attempts = r.attempts
             /\ n.state \in {r.state} \cup Verdicts
  <2> DEFINE cleared == ClearPassword(r)
  <2>1. n \in {cleared, SetState(cleared, "done_quarantined"), SetState(cleared, "done_passed")}
    BY <1>4 DEF Finish
  <2> QED
    BY <2>1 DEF ClearPassword, Verdicts
<1>5. ASSUME Writes(GivenUp(r), n)
      PROVE  /\ n.pwd_enc = r.pwd_enc /\ n.hashes = r.hashes /\ n.attempts = r.attempts + 1
             /\ n.state \in {r.state, "failed_max_retries"}
  <2> DEFINE counted == IncrementAttempts(r)
  <2>1. n \in {counted, SetState(counted, "failed_max_retries")}
    BY <1>5 DEF GivenUp
  <2> QED
    BY <2>1 DEF IncrementAttempts
<1> HIDE DEF Writes
<1> QED
  BY <1>1, <1>2, <1>3, <1>4, <1>5

\* A commit that begins at most the errands new, whether or not it is cut short.
LEMMA CommitOne ==
  ASSUME TypeOK, NEW c \in Cases, NEW w, WriteOK(w), NEW running, Commit(c, w, running),
         NEW new, Adds(running, c, new)
  PROVE  \E n : RowTo(c, n) /\ Writes(w, n) /\ Started(c, new)
BY CommitMoves DEF Writes, Started

\* A row in the state it was in is in the stage it was in.
LEMMA SameStage ==
  ASSUME NEW r, NEW n, n.state = r.state
  PROVE  Stage(n) = Stage(r)
BY DEF Stage

LEMMA AsRegister ==
  ASSUME TypeOK, NEW c \in Cases, NEW s \in Slots, HandleAlert(c, s)
  PROVE  Lifecycle!Next
<1>1. Adds(jobs', c, {"link"}) /\ UNCHANGED todo /\ db[c] \in Row
  <2>1. NewJob("send", "direct").pc = "send"
    BY DEF NewJob
  <2>2. jobs' = Run(c, s, NewJob("send", "direct")) /\ UNCHANGED todo
    BY DEF HandleAlert
  <2>3. Adds(jobs', c, {"link"})
    BY <2>1, <2>2, RunAdds, NoErrands
  <2> QED
    BY <2>2, <2>3 DEF TypeOK
<1>2. Started(c, {"link"})
  BY <1>1, AddsStarts
<1>3. CASE db[c].state = "absent" /\ db' = [db EXCEPT ![c] = SetState(@, "received")]
  <2> DEFINE n == SetState(db[c], "received")
  <2>1. /\ n \in Row /\ n.state = "received" /\ n.pwd_enc = db[c].pwd_enc
        /\ n.hashes = db[c].hashes /\ n.attempts = db[c].attempts
    BY <1>1 DEF SetState, Row, FlowState
  <2>2. RowTo(c, n)
    BY <1>1, <1>3, <2>1 DEF RowTo
  <2> HIDE DEF n
  <2>3. Stage(n) = "unasked" /\ Stage(db[c]) = "unknown"
    BY <1>1, <1>3, <2>1, Stages
  <2>4. Lifecycle!Register(c)
    <3>1. Lifecycle!Becomes(c, Stage(n))
      BY <1>2, <2>2, RowMoves
    <3>2. Lifecycle!Becomes(c, "unasked")
      BY <2>3, <3>1
    <3> QED
      BY <1>2, <2>1, <2>2, <2>3, <3>2, RowMoves, RowKeeps DEF Lifecycle!Register
  <2> QED
    BY <2>4 DEF Lifecycle!Next
<1>4. CASE db[c].state = "received" /\ UNCHANGED db
  <2>1. Stage(db[c]) = "unasked"
    BY <1>1, <1>4, Stages
  <2>2. Lifecycle!CalledFor(c, "link")
    BY <2>1 DEF Lifecycle!CalledFor
  <2>3. Lifecycle!Dispatch
    BY <1>2, <1>4, <2>2, ErrandDispatch
  <2> QED
    BY <2>3 DEF Lifecycle!Next
<1> QED
  BY <1>3, <1>4 DEF HandleAlert

LEMMA AsLinkCalled ==
  ASSUME TypeOK, NEW c \in Cases, NEW s \in Slots, Resend(c, s) \/ ReissueExpiredLink(c, s)
  PROVE  Lifecycle!Next
<1>1. /\ jobs' = Run(c, s, NewJob("send", "direct")) /\ UNCHANGED <<db, todo>>
      /\ db[c].state \in Resendable /\ db[c] \in Row
  BY DEF Resend, ReissueExpiredLink, SendAgain, Resendable, TypeOK
<1>2. NewJob("send", "direct").pc = "send"
  BY DEF NewJob
<1>3. Adds(jobs', c, {"link"})
  <2>1. jobs' = Run(c, s, NewJob("send", "direct"))
    BY <1>1
  <2> QED
    BY <1>2, <2>1, RunAdds, NoErrands
<1>4. Stage(db[c]) \in {"asked", "unasked"}
  BY <1>1, Stages DEF Resendable
<1>5. Lifecycle!CalledFor(c, "link")
  BY <1>4 DEF Lifecycle!CalledFor
<1>6. Started(c, {"link"})
  BY <1>1, <1>3, AddsStarts
<1>7. Lifecycle!Dispatch
  BY <1>1, <1>5, <1>6, ErrandDispatch
<1> QED
  BY <1>7 DEF Lifecycle!Next

LEMMA AsBounce ==
  ASSUME TypeOK, NEW c \in Cases, NEW s \in Slots, HandleBounce(c)
  PROVE  Lifecycle!Next
<1> DEFINE w == Single(SetState(db[c], "bounced"))
<1>1. db[c] \in Row /\ WriteOK(w) /\ Commit(c, w, jobs) /\ Adds(jobs, c, {})
  BY WritesAreTyped, RunAdds DEF TypeOK, HandleBounce, FlowState
<1> HIDE DEF w
<1>2. PICK n : RowTo(c, n) /\ Writes(w, n) /\ Started(c, {})
  BY <1>1, CommitOne
<1>3. n = SetState(db[c], "bounced")
  BY <1>2 DEF Writes, Single, w
<1>4. /\ n.state = "bounced" /\ n.pwd_enc = db[c].pwd_enc
      /\ n.hashes = db[c].hashes /\ n.attempts = db[c].attempts
  BY <1>1, <1>3 DEF SetState, Row
<1>5. Stage(n) = "unasked" /\ n \in Row
  BY <1>2, <1>4, Stages DEF RowTo
<1>6. Stage(db[c]) \in {"unasked", "asked", "answered", "analysing"}
  <2>1. db[c].state \notin TERMINAL \cup {"absent"}
    BY DEF HandleBounce
  <2> QED
    BY <1>1, <2>1, Stages DEF Row, FlowState, TERMINAL, Verdicts, ResubmitPending, RECHECKABLE
<1>7. Lifecycle!Bounce(c)
  <2>1. Lifecycle!Becomes(c, Stage(n))
    BY <1>2, RowMoves
  <2>2. Lifecycle!Becomes(c, "unasked")
    BY <1>5, <2>1
  <2> QED
    BY <1>2, <1>4, <1>6, <2>2, RowMoves, RowKeeps
       DEF Lifecycle!Bounce, Lifecycle!NoneBegun
<1> QED
  BY <1>7 DEF Lifecycle!Next

LEMMA AsAnswer ==
  ASSUME TypeOK, NEW c \in Cases, NEW s \in Slots, NEW p \in Passwords, HandlePassword(c, s, p)
  PROVE  Lifecycle!Next
<1> DEFINE w == PasswordAccepted(db[c], p)
           running == Run(c, s, NewJob("scheduled", "direct"))
<1>1. db[c] \in Row /\ WriteOK(w) /\ Commit(c, w, running) /\ db[c].state = "awaiting_password"
  BY WritesAreTyped DEF TypeOK, HandlePassword, Held
<1>2. Adds(running, c, {})
  <2>1. NewJob("scheduled", "direct").pc = "scheduled"
    BY DEF NewJob
  <2> QED
    BY <2>1, RunAdds, NoErrands
<1> HIDE DEF w, running
<1>3. PICK n : RowTo(c, n) /\ Writes(w, n) /\ Started(c, {})
  BY <1>1, <1>2, CommitOne
<1>4. /\ n.pwd_enc = p /\ n.hashes = db[c].hashes /\ n.attempts = db[c].attempts
      /\ n.state \in {"awaiting_password", "password_submitted"} /\ n \in Row
  BY <1>1, <1>3, WriteFacts DEF w, RowTo
<1>5. Stage(n) \in {"asked", "answered"} /\ Stage(db[c]) = "asked"
  BY <1>1, <1>4, Stages DEF ResubmitPending
<1>6. n.pwd_enc # NoPassword
  BY <1>4, PasswordsAssumption
<1>7. Lifecycle!Answer(c)
  BY <1>3, <1>4, <1>5, <1>6, RowMoves, RowKeeps DEF Lifecycle!Answer, Lifecycle!NoneBegun
<1> QED
  BY <1>7 DEF Lifecycle!Next

\* The first segment of resubmit_case asks for the entry of an answered case,
\* or has nothing to do that anybody would see.
LEMMA AsBegin ==
  ASSUME TypeOK, NEW c \in Cases, NEW s \in Slots, NEW by, BeginResubmit(c, s, by),
         todo'["notify"] \subseteq todo["notify"]
  PROVE  Lifecycle!Next
<1>1. db[c] \in Row
  BY DEF TypeOK
<1>2. CASE jobs' = End(c, s) /\ UNCHANGED db
  <2>1. Adds(jobs', c, {})
    BY <1>2, RunAdds
  <2>2. Lifecycle!Dispatch
    BY <1>2, <2>1, AddsStarts, ErrandDispatch
  <2> QED
    BY <2>2 DEF Lifecycle!Next
<1>3. CASE /\ HasResubmitWork(db[c])
           /\ db' = [db EXCEPT ![c] = SetState(@, "resubmit_failed")]
           /\ jobs' = End(c, s)
  <2> DEFINE n == SetState(db[c], "resubmit_failed")
  <2>1. Adds(jobs', c, {})
    BY <1>3, RunAdds
  <2>2. /\ n \in Row /\ n.state = "resubmit_failed" /\ n.pwd_enc = db[c].pwd_enc
        /\ n.hashes = db[c].hashes /\ n.attempts = db[c].attempts
    BY <1>1 DEF SetState, Row, FlowState
  <2>3. RowTo(c, n)
    BY <1>1, <1>3, <2>2 DEF RowTo
  <2> HIDE DEF n
  <2>4. Stage(n) = "answered" /\ Stage(db[c]) = "answered"
    BY <1>1, <1>3, <2>2, Stages DEF HasResubmitWork, ResubmitPending
  <2>5. Alike(db[c], n) /\ Started(c, {})
    BY <2>1, <2>2, <2>4, AddsStarts DEF Alike
  <2>6. Lifecycle!Dispatch
    BY <2>3, <2>5, RowDispatch
  <2> QED
    BY <2>6 DEF Lifecycle!Next
<1>4. CASE /\ HasResubmitWork(db[c])
           /\ jobs' = Run(c, s, [NewJob("target", by) EXCEPT !.pwd = db[c].pwd_enc])
           /\ UNCHANGED db
  <2>1. PICK j : j.pc = "target" /\ jobs' = Run(c, s, j)
    BY <1>4 DEF NewJob
  <2>2. Adds(jobs', c, {"rescan"})
    BY <2>1, RunAdds, NoErrands
  <2>3. Stage(db[c]) = "answered" /\ db[c].pwd_enc # NoPassword
    BY <1>1, <1>4, Stages DEF HasResubmitWork
  <2>4. Lifecycle!CalledFor(c, "rescan")
    BY <2>3 DEF Lifecycle!CalledFor
  <2>5. Lifecycle!Dispatch
    BY <1>4, <2>2, <2>4, AddsStarts, ErrandDispatch
  <2> QED
    BY <2>5 DEF Lifecycle!Next
<1> QED
  BY <1>2, <1>3, <1>4 DEF BeginResubmit

\* A coroutine that goes on with its errand, or ends it, changes no row.
LEMMA AsGoesOn ==
  ASSUME TypeOK, UNCHANGED <<db, todo>>, NEW c \in Cases, NEW s \in Slots, NEW j,
         jobs' = Run(c, s, j), ErrandsAt(j.pc) \subseteq ErrandsAt(jobs[c][s].pc)
  PROVE  Lifecycle!Next
<1>1. ErrandsAt(j.pc) \subseteq ErrandsOf(c)
  BY ErrandsUnderWay
<1>2. Adds(jobs', c, ErrandsAt(j.pc))
  BY RunAdds
<1>3. Started(c, {})
  BY <1>1, <1>2, AddsStarts DEF Started
<1>4. Lifecycle!Dispatch
  BY <1>3, ErrandDispatch
<1> QED
  BY <1>4 DEF Lifecycle!Next

\* rescan_target raised, and the sweep that waits for it ends, too.
LEMMA AsTargetFails ==
  ASSUME TypeOK, NEW c \in Cases, NEW s \in Slots, TargetFails(c, s)
  PROVE  Lifecycle!Next
<1>1. jobs' = End(c, s) /\ UNCHANGED db /\ todo'["notify"] \subseteq todo["notify"]
  BY DEF TargetFails, Sweeps
<1>2. Adds(jobs', c, {})
  BY <1>1, RunAdds
<1>3. Lifecycle!Dispatch
  BY <1>1, <1>2, AddsStarts, ErrandDispatch
<1> QED
  BY <1>3 DEF Lifecycle!Next

\* No entry was found, or the rescan was refused.
LEMMA AsRescanFails ==
  ASSUME TypeOK, NEW c \in Cases, NEW s \in Slots,
         TargetMissing(c, s) \/ RescanRefused(c, s) \/ RescanFails(c, s)
  PROVE  Lifecycle!Next
<1>1. /\ db[c] \in Row /\ WriteOK(ResubmitFailed(db[c]))
      /\ Commit(c, ResubmitFailed(db[c]), End(c, s)) /\ Adds(End(c, s), c, {})
  BY WritesAreTyped, RunAdds DEF TypeOK, TargetMissing, RescanRefused, RescanFails
<1>2. "rescan" \in ErrandsOf(c)
  BY DEF TargetMissing, RescanRefused, RescanFails, Waiting, ErrandsOf, InFlight
<1>3. PICK n : RowTo(c, n) /\ Writes(ResubmitFailed(db[c]), n) /\ Started(c, {})
  BY <1>1, CommitOne
<1>4. /\ n.pwd_enc = db[c].pwd_enc /\ n.hashes = db[c].hashes /\ n.attempts = db[c].attempts
      /\ n.state \in {db[c].state, "resubmit_failed"} /\ n \in Row
  BY <1>1, <1>3, WriteFacts DEF RowTo
<1>5. CASE n.state = db[c].state
  <2>1. Alike(db[c], n)
    BY <1>4, <1>5, SameStage DEF Alike
  <2> QED
    BY <1>3, <2>1, RowDispatch DEF Lifecycle!Next
<1>6. CASE n.state = "resubmit_failed"
  <2>1. Stage(n) = "answered"
    BY <1>4, <1>6, Stages DEF ResubmitPending
  <2>2. Lifecycle!Becomes(c, Stage(n))
    BY <1>3, RowMoves
  <2>3. Lifecycle!Becomes(c, "answered")
    BY <2>1, <2>2
  <2>4. Lifecycle!RescanFails(c)
    BY <1>2, <1>3, <1>4, <2>3, RowMoves, RowKeeps
       DEF Lifecycle!RescanFails, Lifecycle!NoneBegun
  <2> QED
    BY <2>4 DEF Lifecycle!Next
<1> QED
  BY <1>4, <1>5, <1>6

\* EX took the rescan.
LEMMA AsRescanTaken ==
  ASSUME TypeOK, NEW c \in Cases, NEW s \in Slots, RescanAccepted(c, s)
  PROVE  Lifecycle!Next
<1> DEFINE running == Run(c, s, Poller("sleep", Polls))
<1>1. Adds(running, c, {})
  <2>1. Poller("sleep", Polls).pc = "sleep"
    BY DEF Poller, NewJob
  <2> QED
    BY <2>1, RunAdds, NoErrands
<1>2. /\ db[c] \in Row /\ WriteOK(Resubmitted(db[c]))
      /\ Commit(c, Resubmitted(db[c]), running)
  BY WritesAreTyped DEF TypeOK, RescanAccepted
<1> HIDE DEF running
<1>3. "rescan" \in ErrandsOf(c)
  BY DEF RescanAccepted, Waiting, ErrandsOf, InFlight
<1>4. PICK n : RowTo(c, n) /\ Writes(Resubmitted(db[c]), n) /\ Started(c, {})
  BY <1>1, <1>2, CommitOne
<1>5. /\ n.hashes = db[c].hashes + 1 /\ n.attempts = db[c].attempts /\ n \in Row
      /\ \/ n.pwd_enc = db[c].pwd_enc /\ n.state = db[c].state
         \/ n.pwd_enc = NoPassword /\ n.state \in {db[c].state, "resubmitted"}
  BY <1>2, <1>4, WriteFacts DEF RowTo
<1>6. Lifecycle!Begun(c, {}) /\ Lifecycle!Becomes(c, Stage(n))
  BY <1>4, RowMoves
<1>0. [d \in Cases |-> db[d].hashes]' = [[d \in Cases |-> db[d].hashes] EXCEPT ![c] = @ + 1]
      /\ UNCHANGED [d \in Cases |-> db[d].attempts]
  <2>1. \A d \in Cases : db'[d] = IF d = c THEN n ELSE db[d]
    BY <1>4 DEF RowTo, TypeOK
  <2> QED
    BY <1>5, <2>1
<1>7. CASE n.pwd_enc = db[c].pwd_enc /\ n.state = db[c].state
  <2>1. Stage(n) = Stage(db[c])
    BY <1>7, SameStage
  <2>2. /\ UNCHANGED [d \in Cases |-> Stage(db[d])]
        /\ UNCHANGED [d \in Cases |-> db[d].pwd_enc # NoPassword]
    BY <1>4, <1>7, <2>1, RowKeeps
  <2>3. Lifecycle!RescanTaken(c)
    BY <1>0, <1>3, <1>6, <2>2 DEF Lifecycle!RescanTaken, Lifecycle!NoneBegun
  <2> QED
    BY <2>3 DEF Lifecycle!Next
<1>8. CASE n.pwd_enc = NoPassword /\ n.state \in {db[c].state, "resubmitted"}
  <2>1. Stage(n) \in {Stage(db[c]), "analysing"}
    BY <1>5, <1>8, SameStage, Stages DEF RECHECKABLE
  <2>2. [d \in Cases |-> db[d].pwd_enc # NoPassword]'
          = [[d \in Cases |-> db[d].pwd_enc # NoPassword] EXCEPT ![c] = FALSE]
    <3>1. \A d \in Cases : db'[d] = IF d = c THEN n ELSE db[d]
      BY <1>4 DEF RowTo, TypeOK
    <3> QED
      BY <1>8, <3>1
  <2>3. \E stage \in {Stage(db[c]), "analysing"} : Lifecycle!Becomes(c, stage)
    BY <1>6, <2>1
  <2>4. [d \in Cases |-> Stage(db[d])][c] = Stage(db[c])
    OBVIOUS
  <2>5. Lifecycle!RescanTaken(c)
    BY <1>0, <1>3, <1>6, <2>2, <2>3, <2>4 DEF Lifecycle!RescanTaken, Lifecycle!NoneBegun
  <2> QED
    BY <2>5 DEF Lifecycle!Next
<1> QED
  BY <1>5, <1>7, <1>8

\* _finish, for a push or a poll.
LEMMA AsVerdictRead ==
  ASSUME TypeOK, NEW c \in Cases, NEW s \in Slots, NEW held \in BOOLEAN,
         Commit(c, Finish(db[c], held), End(c, s)), "verdict" \in ErrandsOf(c)
  PROVE  Lifecycle!Next
<1>1. db[c] \in Row /\ WriteOK(Finish(db[c], held)) /\ Adds(End(c, s), c, {})
  BY WritesAreTyped, RunAdds DEF TypeOK
<1>2. PICK n : RowTo(c, n) /\ Writes(Finish(db[c], held), n) /\ Started(c, {})
  BY <1>1, CommitOne
<1>3. /\ n.pwd_enc = NoPassword /\ n.hashes = db[c].hashes /\ n.attempts = db[c].attempts
      /\ n.state \in {db[c].state} \cup Verdicts /\ n \in Row
  BY <1>1, <1>2, WriteFacts DEF RowTo
<1>4. Stage(n) \in {Stage(db[c]), "settled"}
  BY <1>3, SameStage, Stages
<1>5. Lifecycle!Begun(c, {}) /\ Lifecycle!Becomes(c, Stage(n))
  BY <1>2, RowMoves
<1>6. /\ [d \in Cases |-> db[d].pwd_enc # NoPassword]'
           = [[d \in Cases |-> db[d].pwd_enc # NoPassword] EXCEPT ![c] = FALSE]
      /\ UNCHANGED [d \in Cases |-> db[d].hashes]
      /\ UNCHANGED [d \in Cases |-> db[d].attempts]
  <2>1. \A d \in Cases : db'[d] = IF d = c THEN n ELSE db[d]
    BY <1>2 DEF RowTo, TypeOK
  <2> QED
    BY <1>3, <2>1
<1>7. \E stage \in {Stage(db[c]), "settled"} : Lifecycle!Becomes(c, stage)
  BY <1>4, <1>5
<1>8. [d \in Cases |-> Stage(db[d])][c] = Stage(db[c])
  OBVIOUS
<1>9. Lifecycle!VerdictRead(c)
  BY <1>5, <1>6, <1>7, <1>8 DEF Lifecycle!VerdictRead, Lifecycle!NoneBegun
<1> QED
  BY <1>9 DEF Lifecycle!Next

\* A wrong password is counted.
LEMMA AsWrongPassword ==
  ASSUME TypeOK, NEW c \in Cases, NEW s \in Slots, HandleWrongPasswordPush(c, s)
  PROVE  Lifecycle!Next
<1> DEFINE counted == IncrementAttempts(db[c])
<1>0. db[c] \in Row /\ db[c].state \in RECHECKABLE \cup Verdicts
  BY DEF TypeOK, HandleWrongPasswordPush
<1>1. counted.attempts = db[c].attempts + 1 /\ counted.state = db[c].state
      /\ counted.pwd_enc = db[c].pwd_enc /\ counted.hashes = db[c].hashes
  BY <1>0 DEF IncrementAttempts, Row
<1>2. Stage(db[c]) \in {"analysing", "settled"}
  BY <1>0, Stages
<1>3. ASSUME NEW n, NEW new, RowTo(c, n), Started(c, new), n.attempts = db[c].attempts + 1,
             n.pwd_enc = db[c].pwd_enc, n.hashes = db[c].hashes,
             IF n.attempts >= MaxPasswordAttempts
             THEN new = {} /\ Stage(n) \in {Stage(db[c]), "given_up"}
             ELSE new = {"link"} /\ Stage(n) = Stage(db[c])
      PROVE  Lifecycle!Next
  <2>0. \A d \in Cases : db'[d] = IF d = c THEN n ELSE db[d]
    BY <1>3 DEF RowTo, TypeOK
  <2>1. /\ UNCHANGED [d \in Cases |-> db[d].pwd_enc # NoPassword]
        /\ UNCHANGED [d \in Cases |-> db[d].hashes]
        /\ [d \in Cases |-> db[d].attempts]'
             = [[d \in Cases |-> db[d].attempts] EXCEPT ![c] = @ + 1]
    BY <1>3, <2>0
  <2>2. [d \in Cases |-> db[d].attempts]'[c] = n.attempts
    BY <2>0
  <2>3. Lifecycle!Begun(c, new) /\ Lifecycle!Becomes(c, Stage(n))
    BY <1>3, RowMoves
  <2>4. [d \in Cases |-> Stage(db[d])][c] = Stage(db[c])
    OBVIOUS
  <2>5. CASE n.attempts >= MaxPasswordAttempts
    <3>1. /\ \E stage \in {Stage(db[c]), "given_up"} : Lifecycle!Becomes(c, stage)
          /\ Lifecycle!Begun(c, {})
      BY <1>3, <2>3, <2>5
    <3>2. Lifecycle!WrongPassword(c)
      BY <1>2, <2>1, <2>2, <2>4, <2>5, <3>1
         DEF Lifecycle!WrongPassword, Lifecycle!NoneBegun
    <3> QED
      BY <3>2 DEF Lifecycle!Next
  <2>6. CASE ~(n.attempts >= MaxPasswordAttempts)
    <3>1. Lifecycle!Begun(c, {"link"}) /\ UNCHANGED [d \in Cases |-> Stage(db[d])]
      BY <1>3, <2>3, <2>6, RowKeeps
    <3>2. Lifecycle!WrongPassword(c)
      BY <1>2, <2>1, <2>2, <2>4, <2>6, <3>1
         DEF Lifecycle!WrongPassword, Lifecycle!NoneBegun
    <3> QED
      BY <3>2 DEF Lifecycle!Next
  <2> QED
    BY <2>5, <2>6
<1> HIDE DEF counted
<1>4. CASE Exhausted(counted) /\ Commit(c, GivenUp(db[c]), jobs)
  <2>1. WriteOK(GivenUp(db[c])) /\ Adds(jobs, c, {})
    BY <1>0, WritesAreTyped, RunAdds
  <2>2. PICK n : RowTo(c, n) /\ Writes(GivenUp(db[c]), n) /\ Started(c, {})
    BY <1>4, <2>1, CommitOne
  <2>3. /\ n.pwd_enc = db[c].pwd_enc /\ n.hashes = db[c].hashes
        /\ n.attempts = db[c].attempts + 1
        /\ n.state \in {db[c].state, "failed_max_retries"} /\ n \in Row
    BY <1>0, <2>2, WriteFacts DEF RowTo
  <2>4. Stage(n) \in {Stage(db[c]), "given_up"}
    BY <2>3, SameStage, Stages
  <2>5. n.attempts >= MaxPasswordAttempts
    BY <1>1, <1>4, <2>3 DEF Exhausted
  <2> QED
    BY <1>3, <2>2, <2>3, <2>4, <2>5
<1>5. CASE /\ ~Exhausted(counted)
           /\ Commit(c, Single(counted), Run(c, s, NewJob("send", "direct")))
  <2> DEFINE running == Run(c, s, NewJob("send", "direct"))
  <2>1. Adds(running, c, {"link"})
    <3>1. NewJob("send", "direct").pc = "send"
      BY DEF NewJob
    <3> QED
      BY <3>1, RunAdds, NoErrands
  <2>2. WriteOK(Single(counted))
    BY <1>0, WritesAreTyped DEF counted
  <2> HIDE DEF running
  <2>3. PICK n : RowTo(c, n) /\ Writes(Single(counted), n) /\ Started(c, {"link"})
    BY <1>5, <2>1, <2>2, CommitOne DEF running
  <2>4. n = counted
    BY <2>3 DEF Writes, Single
  <2>5. Stage(n) = Stage(db[c])
    BY <1>1, <2>4, SameStage
  <2>6. ~(n.attempts >= MaxPasswordAttempts)
    BY <1>5, <2>4 DEF Exhausted
  <2> QED
    BY <1>1, <1>3, <2>3, <2>4, <2>5, <2>6
<1> QED
  BY <1>4, <1>5 DEF HandleWrongPasswordPush, counted

\* A query for a verdict begins while the case is under analysis.
LEMMA AsVerdictCalled ==
  ASSUME TypeOK, NEW c \in Cases, NEW s \in Slots, HandleOtherPush(c, s) \/ PollWakes(c, s)
  PROVE  Lifecycle!Next
<1>0. db[c] \in Row
  BY DEF TypeOK
<1>1. CASE /\ db[c].state \notin RECHECKABLE /\ jobs' = End(c, s)
           /\ UNCHANGED <<db, todo>>
  <2>1. Adds(jobs', c, {})
    BY <1>1, RunAdds
  <2>2. Lifecycle!Dispatch
    BY <1>1, <2>1, AddsStarts, ErrandDispatch
  <2> QED
    BY <2>2 DEF Lifecycle!Next
<1>2. CASE db[c].state \in RECHECKABLE
  <2>1. Stage(db[c]) = "analysing"
    BY <1>0, <1>2, Stages
  <2>2. Lifecycle!CalledFor(c, "verdict")
    BY <2>1 DEF Lifecycle!CalledFor
  <2>3. CASE HandleOtherPush(c, s)
    <3>1. PICK j : j.pc = "confirm" /\ jobs' = Run(c, s, j)
      BY <2>3 DEF HandleOtherPush, NewJob
    <3>2. Adds(jobs', c, {"verdict"})
      BY <3>1, RunAdds, NoErrands
    <3>3. Lifecycle!Dispatch
      BY <2>2, <2>3, <3>2, AddsStarts, ErrandDispatch DEF HandleOtherPush
    <3> QED
      BY <3>3 DEF Lifecycle!Next
  <2>4. CASE PollWakes(c, s)
    <3> DEFINE w == Single(SetState(db[c], "rechecking"))
    <3>1. PICK j : j.pc = "outcome" /\ Commit(c, w, Run(c, s, j))
      BY <1>2, <2>4, RunIsTyped DEF PollWakes, Job
    <3>2. Adds(Run(c, s, j), c, {"verdict"}) /\ WriteOK(w)
      BY <1>0, <3>1, RunAdds, NoErrands, WritesAreTyped DEF FlowState
    <3> HIDE DEF w
    <3>3. PICK n : RowTo(c, n) /\ Writes(w, n) /\ Started(c, {"verdict"})
      BY <3>1, <3>2, CommitOne
    <3>4. n = SetState(db[c], "rechecking")
      BY <3>3 DEF Writes, Single, w
    <3>5. /\ n.state = "rechecking" /\ n.pwd_enc = db[c].pwd_enc /\ n \in Row
          /\ n.hashes = db[c].hashes /\ n.attempts = db[c].attempts
      BY <1>0, <3>3, <3>4 DEF SetState, Row, RowTo
    <3>6. Stage(n) = "analysing"
      BY <3>5, Stages DEF RECHECKABLE
    <3>7. Alike(db[c], n)
      BY <2>1, <3>5, <3>6 DEF Alike
    <3>8. Lifecycle!Dispatch
      BY <2>2, <3>3, <3>7, RowDispatch
    <3> QED
      BY <3>8 DEF Lifecycle!Next
  <2> QED
    BY <2>3, <2>4
<1> QED
  BY <1>1, <1>2 DEF HandleOtherPush, PollWakes

\* An answer to a coroutine, or to none that anybody sees.
LEMMA AsAnswered ==
  ASSUME TypeOK, NEW c \in Cases, NEW s \in Slots,
         \/ TargetFound(c, s)
         \/ \E outcome \in ResubmissionOutcome : OutcomeIs(c, s, outcome)
         \/ OutcomeFails(c, s)
         \/ \E held \in BOOLEAN : ConfirmIs(c, s, held)
         \/ ConfirmFails(c, s)
  PROVE  Lifecycle!Next
<1> DEFINE pc == jobs[c][s].pc
<1>0. /\ \A waits : pc \in waits => InFlight(c, waits)
      /\ pc \in {"outcome", "confirm"} => "verdict" \in ErrandsOf(c)
  BY DEF InFlight, ErrandsOf
<1>1. CASE TargetFound(c, s)
  <2> DEFINE j == [jobs[c][s] EXCEPT !.pc = "rescan"]
  <2>1. j.pc = "rescan"
    BY DEF TypeOK, Job
  <2>2. ErrandsAt(j.pc) \subseteq ErrandsAt(pc)
    BY <1>1, <2>1, NoErrands DEF TargetFound, Waiting
  <2>3. jobs' = Run(c, s, j) /\ UNCHANGED <<db, todo>>
    BY <1>1 DEF TargetFound
  <2> HIDE DEF j
  <2> QED
    BY <2>2, <2>3, AsGoesOn
<1>2. \A held \in BOOLEAN : Commit(c, Finish(db[c], held), End(c, s))
                              /\ pc \in {"outcome", "confirm"} => Lifecycle!Next
  BY <1>0, AsVerdictRead
<1>3. ASSUME UNCHANGED <<db, todo>>,
             NEW j, jobs' = Run(c, s, j), j.pc \in {"idle", "sleep", pc}
                                            \/ (j.pc = "confirm" /\ pc = "outcome")
      PROVE  Lifecycle!Next
  <2>1. ErrandsAt(j.pc) \subseteq ErrandsAt(pc)
    BY <1>3, NoErrands
  <2> QED
    BY <1>3, <2>1, AsGoesOn
<1>4. ASSUME UNCHANGED <<db, todo>>, jobs' = NextPoll(c, s)
      PROVE  Lifecycle!Next
  <2>1. \A left : Poller("sleep", left).pc = "sleep"
    BY DEF Poller, NewJob
  <2>2. Idle.pc = "idle"
    BY DEF Idle, NewJob
  <2>3. PICK j : jobs' = Run(c, s, j) /\ j.pc \in {"idle", "sleep"}
    BY <1>4, <2>1, <2>2 DEF NextPoll, End
  <2> QED
    BY <1>3, <1>4, <2>3
<1>5. ASSUME NEW outcome \in ResubmissionOutcome, OutcomeIs(c, s, outcome)
      PROVE  Lifecycle!Next
  <2>0. pc = "outcome"
    BY <1>5 DEF OutcomeIs, Waiting
  <2>1. CASE outcome # "pending"
    BY <1>2, <1>5, <2>0, <2>1 DEF OutcomeIs
  <2>2. CASE outcome = "pending" /\ jobs[c][s].left > 1
    <3>1. UNCHANGED <<db, todo>> /\ jobs' = NextPoll(c, s)
      BY <1>5, <2>2 DEF OutcomeIs
    <3> QED
      BY <1>4, <3>1
  <2>3. CASE outcome = "pending" /\ ~(jobs[c][s].left > 1)
    <3>1. UNCHANGED <<db, todo>> /\ jobs' = Run(c, s, Poller("confirm", 1))
      BY <1>5, <2>3 DEF OutcomeIs
    <3>2. Poller("confirm", 1).pc = "confirm"
      BY DEF Poller, NewJob
    <3> QED
      BY <1>3, <2>0, <3>1, <3>2
  <2> QED
    BY <2>1, <2>2, <2>3
<1>6. CASE OutcomeFails(c, s)
  BY <1>4, <1>6 DEF OutcomeFails
<1>7. ASSUME NEW held \in BOOLEAN, ConfirmIs(c, s, held)
      PROVE  Lifecycle!Next
  BY <1>2, <1>7 DEF ConfirmIs, Waiting
<1>8. CASE ConfirmFails(c, s)
  <2>1. jobs' = Run(c, s, Idle) /\ UNCHANGED <<db, todo>> /\ Idle.pc = "idle"
    BY <1>8 DEF ConfirmFails, End, Idle, NewJob
  <2> QED
    BY <1>3, <2>1
<1> QED
  BY <1>1, <1>5, <1>6, <1>7, <1>8

\* A sweep lists the mails to be sent again while they have failed, and sends
\* those it has listed; it resubmits what still is to be.
LEMMA AsSweep ==
  ASSUME TypeOK, NEW k \in Sweeps, NEW c \in Cases, NEW s \in Slots,
         SweepBegins(k, c, s) \/ SweepGoesOn(k, c, s)
  PROVE  Lifecycle!Next
<1>1. CASE k = "resubmit"
  <2>1. BeginResubmit(c, s, k) /\ todo'["notify"] = todo["notify"]
    BY <1>1 DEF SweepBegins, SweepGoesOn, Visit, TypeOK, Sweeps
  <2> QED
    BY <2>1, AsBegin
<1>2. CASE k = "notify"
  <2>1. jobs' = Run(c, s, NewJob("send", k)) /\ UNCHANGED db /\ NewJob("send", k).pc = "send"
    BY <1>2 DEF SweepBegins, SweepGoesOn, Visit, NewJob
  <2>2. Adds(jobs', c, {"link"})
    BY <2>1, RunAdds, NoErrands
  <2>3. /\ todo'["notify"] \subseteq todo["notify"] \cup NotifyFailedIds
        /\ c \in todo["notify"] \cup NotifyFailedIds
    BY <1>2 DEF SweepBegins, SweepGoesOn, TypeOK, Sweeps, Listed
  <2>4. \A d \in NotifyFailedIds : Stage(db[d]) = "unasked"
    BY Stages DEF NotifyFailedIds, TypeOK
  <2>5. \A d \in Cases : Alike(db[d], db'[d])
    BY <2>1 DEF Alike
  <2>6. ASSUME NEW d \in Cases, NEW e, e \in ErrandsOf(d)', e \notin ErrandsOf(d)
        PROVE  Lifecycle!CalledFor(d, e)
    <3>1. CASE e = "retry" /\ d \in todo'["notify"]
      <4>1. d \notin todo["notify"]
        BY <2>6, <3>1, ErrandsUnderWay
      <4>2. Stage(db[d]) = "unasked"
        BY <2>3, <2>4, <3>1, <4>1
      <4> QED
        BY <3>1, <4>2 DEF Lifecycle!CalledFor
    <3>2. CASE \E t \in Slots : e \in ErrandsAt(jobs'[d][t].pc)
      <4>1. d = c /\ e = "link"
        BY <2>2, <2>6, <3>2 DEF Adds
      <4>2. Stage(db[c]) = "unasked" \/ "retry" \in ErrandsOf(c)
        BY <2>3, <2>4, ErrandsUnderWay
      <4> QED
        BY <4>1, <4>2 DEF Lifecycle!CalledFor
    <3> QED
      BY <2>6, <3>1, <3>2, ErrandsUnderWay
  <2>7. Lifecycle!Dispatch
    BY <2>5, <2>6, Dispatches
  <2> QED
    BY <2>7 DEF Lifecycle!Next
<1> QED
  BY <1>1, <1>2 DEF Sweeps

\* The process dies, or is started again: no errand survives, and none begins
\* before the event loop runs.
LEMMA AsCrash ==
  ASSUME TypeOK, Crash \/ Restart
  PROVE  Lifecycle!Next
<1>1. \A d \in Cases : Alike(db[d], db'[d])
  <2>1. CASE UNCHANGED db
    BY <2>1 DEF Alike
  <2>2. CASE db' = Rekeyed
    <3> SUFFICES ASSUME NEW d \in Cases
                 PROVE  Alike(db[d], db'[d])
      OBVIOUS
    <3>1. db'[d].state = db[d].state /\ db'[d].hashes = db[d].hashes
          /\ db'[d].attempts = db[d].attempts
          /\ (db'[d].pwd_enc # NoPassword <=> db[d].pwd_enc # NoPassword)
      BY <2>2, PasswordsAssumption DEF Rekeyed, StorePassword, TypeOK, Row
    <3> QED
      BY <3>1, SameStage DEF Alike
  <2> QED
    BY <2>1, <2>2 DEF Crash, Restart
<1>2. /\ \A d \in Cases, t \in Slots : jobs'[d][t].pc \in {"idle", "scheduled", "sleep"}
      /\ todo'["notify"] \subseteq todo["notify"]
  <2>1. CASE Crash
    BY <2>1 DEF Crash, NoJobs, Idle, NewJob, NothingListed, Sweeps
  <2>2. CASE Restart
    BY <2>2 DEF Restart, Resumed, NoJobs, Idle, NewJob, Poller
  <2> QED
    BY <2>1, <2>2
<1>3. \A d \in Cases : \A e \in ErrandsOf(d)' \ ErrandsOf(d) : Lifecycle!CalledFor(d, e)
  <2>1. \A d \in Cases, t \in Slots : ErrandsAt(jobs'[d][t].pc) = {}
    BY <1>2, NoErrands
  <2> QED
    BY <1>2, <2>1, ErrandsUnderWay
<1>4. Lifecycle!Dispatch
  BY <1>1, <1>3, Dispatches
<1> QED
  BY <1>4 DEF Lifecycle!Next

\* The variables of the lifecycle, as the flow has them.
Seen == <<[c \in Cases |-> Stage(db[c])],
          [c \in Cases |-> db[c].pwd_enc # NoPassword],
          [c \in Cases |-> db[c].hashes],
          [c \in Cases |-> db[c].attempts],
          [c \in Cases |-> ErrandsOf(c)]>>

\* Each step of the flow is a step of the lifecycle, or none.
LEMMA StepIsLifecycle ==
  ASSUME TypeOK, [Next]_vars
  PROVE  [Lifecycle!Next]_Seen
<1>1. CASE UNCHANGED vars
  BY <1>1 DEF vars, Seen, ErrandsOf, InFlight
<1>2. ASSUME NEW c \in Cases, NEW s \in Slots, Called(c, s)
      PROVE  Lifecycle!Next
  <2>1. CASE RequestRescan(c, s)
    BY <2>1, AsBegin DEF RequestRescan
  <2> QED
    BY <1>2, <2>1, AsRegister, AsLinkCalled, AsAnswer, AsWrongPassword, AsVerdictCalled,
       AsBounce
       DEF Called
<1>3. ASSUME NEW c \in Cases, NEW s \in Slots, Resumes(c, s)
      PROVE  Lifecycle!Next
  <2>1. CASE ResubmitBegins(c, s)
    BY <2>1, AsBegin DEF ResubmitBegins
  <2> QED
    BY <1>3, <2>1, AsLinkEnds, AsAnswered, AsRescanFails, AsTargetFails, AsRescanTaken,
       AsVerdictCalled
       DEF Resumes
<1> QED
  BY <1>1, <1>2, <1>3, AsSweep, AsCrash DEF Next

\* With nothing outstanding no errand of the case is under way.
LEMMA OutstandingErrands ==
  ASSUME TypeOK, NEW c \in Cases
  PROVE  ~Outstanding(c) <=> ErrandsOf(c) = {}
<1>1. \A s \in Slots : jobs[c][s].pc \in Waits
  BY DEF TypeOK, Job
<1> QED
  BY <1>1 DEF Outstanding, ErrandsOf, InFlight, Waits

\* Nothing calls for an errand of a settled case, except a wrong password that
\* is counted against a verdict.
LEMMA NothingCalledFor ==
  ASSUME TypeOK, [Next]_vars, NEW c \in Cases,
         Stage(db[c]) \in {"settled", "given_up"}, ErrandsOf(c) = {}
  PROVE  \/ ErrandsOf(c)' = {}
         \/ Stage(db[c]) = "settled" /\ db'[c].attempts = db[c].attempts + 1
<1>1. ASSUME NEW d \in Cases, NEW new, Lifecycle!Begun(d, new), d # c \/ new = {}
      PROVE  ErrandsOf(c)' = {}
  BY <1>1 DEF Lifecycle!Begun
<1>2. CASE Lifecycle!Dispatch
  BY <1>2 DEF Lifecycle!Dispatch, Lifecycle!CalledFor
<1>3. ASSUME NEW d \in Cases, Lifecycle!Register(d)
      PROVE  ErrandsOf(c)' = {}
  <2>1. d # c
    BY <1>3 DEF Lifecycle!Register
  <2> QED
    BY <1>1, <1>3, <2>1 DEF Lifecycle!Register
<1>4. ASSUME NEW d \in Cases,
             \/ Lifecycle!LinkEnds(d) \/ Lifecycle!Bounce(d) \/ Lifecycle!Answer(d)
             \/ Lifecycle!RescanFails(d) \/ Lifecycle!RescanTaken(d)
             \/ Lifecycle!VerdictRead(d)
      PROVE  ErrandsOf(c)' = {}
  BY <1>1, <1>4
     DEF Lifecycle!LinkEnds, Lifecycle!Bounce, Lifecycle!Answer, Lifecycle!RescanFails,
         Lifecycle!RescanTaken, Lifecycle!VerdictRead, Lifecycle!NoneBegun
<1>5. ASSUME NEW d \in Cases, Lifecycle!WrongPassword(d)
      PROVE  \/ ErrandsOf(c)' = {}
             \/ Stage(db[c]) = "settled" /\ db'[c].attempts = db[c].attempts + 1
  <2>1. CASE d # c
    BY <1>1, <1>5, <2>1 DEF Lifecycle!WrongPassword, Lifecycle!NoneBegun
  <2>2. CASE d = c
    <3>1. Stage(db[c]) \in {"analysing", "settled"}
      BY <1>5, <2>2 DEF Lifecycle!WrongPassword
    <3>2. db'[c].attempts = db[c].attempts + 1
      BY <1>5, <2>2 DEF Lifecycle!WrongPassword
    <3> QED
      BY <3>1, <3>2
  <2> QED
    BY <2>1, <2>2
<1>6. CASE UNCHANGED Seen
  BY <1>6 DEF Seen
<1> QED
  BY <1>2, <1>3, <1>4, <1>5, <1>6, StepIsLifecycle DEF Lifecycle!Next

\* A settled case without an outstanding answer, on no list of failed mails,
\* changes only by a counted wrong password, and then only from a verdict; a
\* given-up case never changes.  And nothing is begun that might move it.
THEOREM SettledIsStable == Spec => SettledStands
<1>1. TypeOK /\ TypeOK' /\ [Next]_vars =>
        [\A c \in Cases :
           /\ db[c].state \in Verdicts \cup {"failed_max_retries"}
           /\ ~Outstanding(c)
           => \/ db'[c].state = db[c].state /\ ~Outstanding(c)'
              \/ /\ db[c].state \in Verdicts
                 /\ db'[c].attempts = db[c].attempts + 1]_vars
  <2> SUFFICES ASSUME TypeOK, TypeOK', [Next]_vars, NEW c \in Cases,
                      db[c].state \in Verdicts \cup {"failed_max_retries"},
                      ~Outstanding(c)
               PROVE  \/ db'[c].state = db[c].state /\ ~Outstanding(c)'
                      \/ /\ db[c].state \in Verdicts
                         /\ db'[c].attempts = db[c].attempts + 1
    OBVIOUS
  <2>1. \/ db'[c].state = db[c].state
        \/ db[c].state \in Verdicts /\ db'[c].attempts = db[c].attempts + 1
    BY EveryWrite, SettledStep DEF TypeOK
  <2>2. db[c] \in Row
    BY DEF TypeOK
  <2>3. /\ Stage(db[c]) \in {"settled", "given_up"}
        /\ Stage(db[c]) = "settled" => db[c].state \in Verdicts
    BY <2>2, Stages
  <2>4. \/ ErrandsOf(c)' = {}
        \/ Stage(db[c]) = "settled" /\ db'[c].attempts = db[c].attempts + 1
    BY <2>3, OutstandingErrands, NothingCalledFor
  <2>5. ErrandsOf(c)' = {} => ~Outstanding(c)'
    <3>1. \A s \in Slots : jobs'[c][s].pc \in Waits
      BY DEF TypeOK, Job
    <3> QED
      BY <3>1 DEF Outstanding, ErrandsOf, InFlight, Waits
  <2> QED
    BY <2>1, <2>3, <2>4, <2>5
<1> QED
  BY <1>1, TypeCorrect, PTL DEF Spec, SettledStands

\* The flow of a case, with its coroutines, sweeps, crashes and restarts, is
\* the lifecycle the recipient and the operator see, for any number of cases
\* and of coroutines in flight on each: handlers, resumptions, sweeps and
\* resume_pending of domain.FlowEngine do nothing else to a case.
THEOREM FlowIsLifecycle == Spec => ImplementsCaseLifecycle
<1>1. Init => Lifecycle!Init
  <2> SUFFICES ASSUME Init PROVE Lifecycle!Init
    OBVIOUS
  <2>1. \A c \in Cases : db[c].state = "absent" /\ db[c].pwd_enc = NoPassword
                           /\ db[c].hashes = 0 /\ db[c].attempts = 0 /\ db[c] \in Row
    BY TypeInit DEF Init, NoCase, TypeOK
  <2>2. \A c \in Cases : Stage(db[c]) = "unknown"
    BY <2>1, Stages
  <2>3. \A c \in Cases : ErrandsOf(c) = {}
    BY DEF Init, NoJobs, Idle, NewJob, NothingListed, Sweeps, ErrandsOf, InFlight
  <2> QED
    BY <2>1, <2>2, <2>3 DEF Lifecycle!Init
<1>2. TypeOK /\ [Next]_vars => [Lifecycle!Next]_Seen
  BY StepIsLifecycle
<1> QED
  BY <1>1, <1>2, TypeCorrect, PTL
     DEF Spec, ImplementsCaseLifecycle, Lifecycle!Spec, Lifecycle!vars, Seen

\* What CaseLifecycleProofs says of the lifecycle, said of the flow.
LifecycleProofs == INSTANCE CaseLifecycleProofs WITH
  MaxAttempts <- MaxPasswordAttempts,
  stage <- [c \in Cases |-> Stage(db[c])],
  secret <- [c \in Cases |-> db[c].pwd_enc # NoPassword],
  rescans <- [c \in Cases |-> db[c].hashes],
  wrong <- [c \in Cases |-> db[c].attempts],
  errands <- [c \in Cases |-> ErrandsOf(c)]

\* The flow is a lifecycle under this mapping.
LEMMA FlowIsThisLifecycle == Spec => LifecycleProofs!Spec
<1>1. Lifecycle!Init => LifecycleProofs!Init
  BY DEF Lifecycle!Init, LifecycleProofs!Init
<1>2. [Lifecycle!Next]_(Lifecycle!vars) => [LifecycleProofs!Next]_(LifecycleProofs!vars)
  BY Zenon
     DEF Lifecycle!Next, Lifecycle!Dispatch, Lifecycle!CalledFor,
         Lifecycle!Register, Lifecycle!LinkEnds, Lifecycle!Bounce,
         Lifecycle!Answer, Lifecycle!RescanFails, Lifecycle!RescanTaken,
         Lifecycle!VerdictRead, Lifecycle!WrongPassword, Lifecycle!Becomes,
         Lifecycle!Begun, Lifecycle!NoneBegun, Lifecycle!Errands,
         Lifecycle!vars,
         LifecycleProofs!Next, LifecycleProofs!Dispatch,
         LifecycleProofs!CalledFor, LifecycleProofs!Register,
         LifecycleProofs!LinkEnds, LifecycleProofs!Bounce,
         LifecycleProofs!Answer, LifecycleProofs!RescanFails,
         LifecycleProofs!RescanTaken, LifecycleProofs!VerdictRead,
         LifecycleProofs!WrongPassword, LifecycleProofs!Becomes,
         LifecycleProofs!Begun, LifecycleProofs!NoneBegun,
         LifecycleProofs!Errands, LifecycleProofs!vars
<1> QED
  BY <1>1, <1>2, FlowIsLifecycle, PTL
     DEF ImplementsCaseLifecycle, Lifecycle!Spec, LifecycleProofs!Spec

\* The users of the flow may rely on what the lifecycle promises: the row of a
\* case given up counts at least settings.max_password_attempts wrong
\* passwords, and none of them, nor a verdict, is on record before a rescan.
THEOREM FlowKeepsPromise == Spec => []LifecycleProofs!Promise
BY FlowIsThisLifecycle, LifecycleProofs!PromiseKept, PTL

\* FAILED_MAX_RETRIES is the end: once no coroutine waits for the mail server
\* or for EX on behalf of the case, and no sweep has it listed for a mail, no
\* push, bounce, click, sweep or restart moves it or sends another link.
THEOREM FlowGivenUpIsFinal == Spec => \A c \in Cases :
  [](LifecycleProofs!Over(c) => []LifecycleProofs!Over(c))
BY FlowIsThisLifecycle, LifecycleProofs!GivenUpIsFinal, PTL
===============================================================================
