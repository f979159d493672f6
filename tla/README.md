# TrellixEXAttachmentDecrypt: formal model

The program watches a Trellix EX appliance for e-mails quarantined because an
attachment is encrypted, asks the recipient for the password by e-mail, hands
the password to EX for a rescan and follows the case to a verdict. This
directory holds its TLA+ model: what is modelled, what TLC checks on small
instances, and what TLAPS proves for instances of any size. Paths such as
`domain.py` are relative to `src/trellix_decrypt/`.

## 1. The system

| Component | Source | State it keeps | Operations |
|---|---|---|---|
| Flow engine | `domain.py` | none of its own; drives the case rows | `handle_alert`, `handle_password`, `resubmit_case`, `recheck`, `resend`, `reissue_expired_link`, `handle_bounce`, the two sweeps, `resume_pending` |
| Case repository | `storage.py` | `attachment_cases`, `password_attempts`, `event_log`, `settings` | one short committed transaction per call |
| Recheck scheduler | `recheck.py` | the set of asyncio tasks, in memory | `schedule_recheck`, `schedule_resubmit`, retry loops, reconcile loop, `_poll` |
| EX client | `ex_client.py` | the session token | log in, retry on 401, quarantine list and its three readings, rescan |
| Reconcile | `reconcile.py` | the `handled` set of one run | backfill of detections missed while the program was down |
| Webhook | `ingest.py`, `alerts.py` | none | authenticate, cap, parse, hand each alert to the engine |
| Bounce monitor | `bounce.py` | `\Seen` flags in the mailbox | fetch reports, parse, hand to the engine |
| Password page, operator API | `web/routes_password.py`, `web/routes_api.py` | none | form, submit, resend, rescan, settings |
| Rate limiter | `web/ratelimit.py` | timestamps per key, in memory | `allow`, `_sweep`, `reset` |
| Sessions and setup mode | `web/auth.py`, `web/routes_dashboard.py` | revoked session ids | login, logout, gate |
| Settings | `settings_store.py`, `context.py`, `config.py` | `settings` table, live engine | save, reload with a new engine |
| TLS files | `tls.py` | certificate and key files | import, self-sign, remove |
| Secret key | `config.resolve_secret_key` | `secret.key` | read or generate at the start |
| Wiring, mailer, crypto, check | `app.py`, `mailer.py`, `crypto.py`, `check.py` | none | build, render and send, encrypt |

How they interact: webhook, reconcile, bounce monitor, password page, operator
API and the scheduler all call the flow engine; the engine calls repository,
EX client and mailer, and asks the scheduler for new tasks. Everything runs in
one asyncio process on one thread. The only state that survives a restart is
the database (and, outside the program, the appliance and the mailbox).

### What makes it hard

* Every handler awaits something (mail server, appliance, timer) in its middle,
  and other handlers run on the same case meanwhile. Almost nothing is read
  again after a wait.
* A handler is several transactions; the process can be killed between them.
* Recheck tasks and sweeps live in memory and must be rebuilt at startup.
* Detections are pushed more than once, late, or never; EX may fail any query.
* Counters with caps decide who is retried and who is given up.
* All requests to EX share one token and one HTTP client; both are replaced
  while requests wait.
* A payload carries several alerts and is answered once; reports are marked
  seen before they are acted on.
* The key file, the settings table and the two TLS files must still fit
  together after a kill between any two writes, or the next start fails.

The full list, with the line where each one bites, is `hazards` in
`PROJECT.json`.

### What makes each component correct

* **Flow engine, repository, scheduler**: no password is kept after EX took
  it; no verdict without a rescan; a case waiting for a verdict is polled and
  concluded; a submitted password is acted on; a failed mail is retried; a
  settled case stands.
* **EX client**: the three readings of the quarantine list agree with what the
  appliance holds; a query succeeds if a fresh login would make it succeed.
* **Reconcile**: every held trigger e-mail gets its case, webhook or not, unless
  it leaves the quarantine first or an unreadable entry ends every run before
  it; mail delivered before a run is left alone. **Webhook**: an answer of 200
  means that the whole payload was handled, and every payload gets one in the
  end.
* **Bounce monitor**: a report ends the case it names or, if it names none that
  exists, the latest open one of its recipient; no report stays behind because
  of one it shares a poll with.
* **Rate limiter**: exactly a sliding window, memory bounded, no lockout for good.
* **Sessions**: a session that ended stays ended; setup mode never reopens.
* **Settings**: a save does what was asked or nothing; what runs is what is
  stored, or what could last be built; a start fails only for a stored setting
  that cannot be used, or for a certificate whose installation was cut short.

## 2. Modules

| Module | Models | Role |
|---|---|---|
| `FlowStates` | `FlowState`, `RECHECKABLE`, `TERMINAL` and the sets the guards use | shared definitions |
| `CaseLifecycle` | `FlowState` and the README's account of a case | what the people concerned see of a case |
| `FlowEngine` | `domain.FlowEngine` over `storage.CaseRepository` and `recheck.RecheckScheduler` | the core specification and its properties, shown to implement `CaseLifecycle` |
| `MCFlowEngine` | | symmetry for TLC |
| `FlowEngineClaims` | | statements of the documentation that do not hold |
| `CaseLifecycleProofs`, `FlowEngineProofs` | | theorems and proofs; that the flow is the lifecycle |
| `ExAppliance` | the readings of the quarantine list in `ex_client.EXClient`; the appliance itself is external | what the flow talks to |
| `FlowOnAppliance` | `FlowEngine` with `ExAppliance` in place of free answers | the composition |
| `MCFlowOnAppliance`, `ApplianceClaims` | | symmetry; claims |
| `FlowOnApplianceProofs` | | that the composition implements `FlowEngine`; the two theorems on verdicts |
| `Reconcile` | `reconcile.run_reconcile` beside the webhook (`ingest.py`) | the backfill |
| `MCReconcile`, `ReconcileProofs` | | the instance for TLC; theorems |
| `Alerts` | `alerts.py`, `domain.RiskwareRules`, `storage._merge_recipients` | pure operators: the two wire formats, triggers, recipients |
| `Intake` | the request of `ingest.py` and the poll of `bounce.py`, with the handlers they call | what reaches the flow from outside |
| `MCIntake`, `IntakeClaims`, `IntakeProofs` | | the payloads for TLC; a claim; theorems, also about the parsers |
| `SlidingWindow` | the docstring of `web/ratelimit.py` | what a limiter promises |
| `RateLimiter`, `RateLimiterProofs` | `web/ratelimit.py` | the limiter, shown to implement `SlidingWindow`; theorems |
| `EXSession`, `EXSessionProofs` | `EXClient._login`, `_request`; `AppContext.reload` | the shared token and client; theorems |
| `Preferences` | the docstring of `SettingsStore.update` | what saving settings promises |
| `SettingsStore` | `settings_store.py` | pure operators: overrides over the environment |
| `AdminConsole`, `AdminConsoleProofs` | the start (`app.py`, `config.py`, `context.py`), the settings routes, `web/auth.py`, `tls.py` | the installation around the flow, shown to implement `Preferences`; theorems |
| `MCAdminConsole`, `AdminClaims` | | settings and forms for TLC; a claim |

### FlowEngine: state

* `db[c]`: the row of case `c` (state, three counters, `pwd_enc`) and the
  number of its `password_attempts` rows (`hashes`). `state = "absent"` is the
  row that does not exist yet. The ciphertext is the password itself, or
  `Unreadable` once the process was given another `SECRET_KEY`.
* `jobs[c][s]`: the coroutine in flight in slot `s`: what it waits for (`pc`),
  which sweep awaits it (`by`), the plaintext `resubmit_case` holds (`pwd`),
  the polls its task has left (`left`). `_poll` and the handlers keep nothing
  else over a wait that they use afterwards: the `case` object is only used
  for its id and its immutable columns, except where the code reads
  `case.state`, which it does before the wait.
* `todo[k]`: ids listed by sweep `k` and not yet visited.
* `up`, `crashes`, `budget`: whether the process runs, and what the
  environment may still do.

### FlowEngine: steps

One action is one *segment*: the code from one `await` to the next. `Commit`
runs the transactions of a segment on a row; its second disjunct is a kill
between two of them, for which each write operator lists the intermediate
rows (`half`). `Crash` is a kill at a wait.

| Action | Code |
|---|---|
| `HandleAlert` | `handle_alert`, first-time detection, up to the mail |
| `Resend`, `ReissueExpiredLink` | `resend`, `reissue_expired_link`, up to the mail |
| `MailerReplies` | the rest of `_send_password_request` |
| `HandleBounce` | `handle_bounce` |
| `HandlePassword` | `handle_password` with `schedule_resubmit` |
| `ResubmitBegins`, `RequestRescan` | `resubmit_case` up to `rescan_target`, as a task or in the operator's request |
| `TargetFound`, `TargetMissing`, `TargetFails` | `resubmit_case` once `rescan_target` answered, or raised |
| `RescanAccepted`, `RescanRefused`, `RescanFails` | the rest of `resubmit_case`, with `schedule_recheck`: EX took the rescan, holds the e-mail no more (404), or failed |
| `HandleWrongPasswordPush` | `_classify_resubmission` and `_fail_extraction` up to the mail, or giving up |
| `HandleOtherPush`, `ConfirmIs`, `ConfirmFails` | `_classify_resubmission` and `_confirm_outcome` |
| `PollWakes`, `OutcomeIs`, `OutcomeFails` | `recheck` and the loop of `_poll` |
| `SweepBegins`, `SweepGoesOn` | `retry_failed_notifications`, `retry_failed_resubmissions` |
| `Crash`, `Restart` | a kill; `lifespan` with `resume_pending` |

Abstractions: a slot stands for a coroutine, so `Slots` bounds how many overlap
on one case (a slot is reused when its coroutine ends). Tokens are not modelled:
the token only names the case, and expired tokens are accepted by
`handle_password`. The event log is not modelled. Delays are not modelled, a
timer may fire at any time; the number of polls is. A sweep's two loops each run
as one coroutine, so `Visiting` keeps one visit per sweep at a time.
`rescan_target`, `resubmission_outcome` and `has_resubmission_quarantine` may
return anything (`FlowEngine` knows nothing of the appliance), and raise when
the fault kind `list` is spent. A 404 to the rescan is an answer and costs
nothing; any other failure of it is of the kind `rescan`.

### CaseLifecycle and how the flow implements it

A case has a stage, a password or none, and two counts. `errands` says what is
under way for it: a failed mail listed for another try, a link on its way to the
mail server, a rescan being requested, a verdict being asked for. An errand may
begin only in the stage that calls for it (`CalledFor`), and only an errand
under way may change the case when it ends, however late that is. That is the
promise of the code where it reads nothing again after a wait: it does not act
on the present state, but nothing happens to a case that had no reason when it
was begun. In particular, no errand is begun for a case that was given up, and
with none under way it stays so. One begun before may still reopen it, as it may
in the code: a link on its way, or a retry listed before, which sends a link
without looking at the case again (`domain.py:438`).

`Lifecycle` in `FlowEngine` is the mapping. Several states are one stage
(`Stage`): RECEIVED, NOTIFY_FAILED and BOUNCED are "unasked", PASSWORD_SUBMITTED
and RESUBMIT_FAILED are "answered". The password is mapped to whether there is
one, so a replaced key changes nothing. `ErrandsOf` reads the errands off the
waits of the coroutines and the list of the notify sweep: a case on that list
is mailed whatever became of it since. A timer and a task
not yet begun are no errands: they look at the state again when they wake. A
crash ends all errands, and `resume_pending` begins none.

### ExAppliance and FlowOnAppliance

`ExAppliance` holds the quarantine list (each e-mail's original, and the `_RA`
record once a rescan was detected again), the rescans accepted and not yet
analysed, what was pushed, which e-mails were detected again and which were
delivered. `RescanTargets`, `HasResubmissionQuarantine` and `Outcome` are
`rescan_target`, `has_resubmission_quarantine` and `resubmission_outcome` over
that list, all narrowed by sender and subject (`Siblings`: the e-mails share
both). Its steps are not in the repository. They assume what the code and its
comments rely on:

* a rescan is accepted at once and analysed later; rescans may end in any order;
* a detection is in the list before it is pushed; pushes come late or repeated;
* the `_RA` record stays as long as the e-mail is held;
* a clean e-mail is delivered and its entries leave the list, or linger
  (`ex_client.py` logs both cases); an alert that does not quarantine may be
  pushed too;
* a rescan of an e-mail it does not hold any more is answered with 404;
* nobody deletes or releases an entry by hand.

`FlowOnAppliance` restricts `FlowEngine` to the answers this list gives. A call
of EX takes two steps: EX answers from its list as it is then
(`AnswersTarget`, `AnswersRescan`, `AnswersQuery`, kept in `answer[c][s]`), and
later the coroutine reads the answer and writes (`FindTarget`, `CommandRescan`,
`ReadVerdict`). In between EX may analyse, record, deliver and push, other
coroutines may run on the case, and a failure or a crash may lose the answer.
`target` is the local variable `target` of `resubmit_case`. `covers` is a
history variable that states the one timing assumption: when the last poll of
a task comes, EX has analysed every rescan it accepted before the task started
(the window of `recheck_max_attempts` polls, about three minutes by default).
Earlier polls may come at any time. Every step of the system is a step of
`FlowEngine` or leaves its variables alone, which `FlowOnApplianceProofs` proves.

### Reconcile

`held` is what EX has in quarantine; e-mails leave it at any time
(`LeavesQuarantine`), and a run goes on with the list it got. `run[r]` is one
run: `pc` names its wait or loop, `rest` the entries or rows to come,
`candidates` and `handled` are `held_qids` and `handled`; `asked` is a history
variable, the quarantine when the run began. The counts of the summary are left
out. An e-mail in `Unreadable` is one whose alert EX fails to return each time:
it ends the run (`reconcile.py:46`). Of the flow only the first step is kept:
`case[e]`, `mails[e]` (links mailed), `hook[e]` (webhook handlers waiting for
the mail server). An e-mail stands for its queue id and all its alerts.
Entries and rows are taken one per step, in any order, also where the code
goes on without a wait; this allows every interleaving the code has, and more.
A row of the fallback may be complete or trimmed. A run ended by an exception
returns to `Starting`; the loop catches it and tries again at its next turn.

### Alerts and Intake

A raw alert is a function from the fields it has to their values, which are
sequences of items; an item of a recipients field is the sequence of what its
commas and semicolons separate. `MCIntake` writes every detection as a push
(hyphenated names, wrapped values) or as a query (camel case), so that
`ParseAlert` and the fields it tries are exercised, and states in `Detections`,
apart from the parser, what EX meant.

`hook[h]` is one webhook request: `payload`, the alerts left (`rest`), and what
it waits for (`mail` or `ex`, at the case `at`). `case[q]` is the row of a queue
id, `recent` the order of `updated_at`, which decides `OpenCaseOf`
(`find_open_case_by_recipient`). `poll` is the bounce monitor: the messages
found, and the reports read. `FirstDetection`, `Redetection` and `Skipped` are
one turn of the loop in `receive_alert` each; `ExReplies` and `MailerReplies` go
on after the wait of the handler; `Acknowledge` is the 200. A payload may be
pushed again while its first request is in flight, as EX does after its timeout.
A report may carry the X-Case-Id of no case here (`UnknownCase`, of another
installation or an earlier database); `Correlated` then goes by the recipient,
as for one without (`domain.py:447`). A state that was so before is not written,
so `recent` does not change. Of the flow only what these two meet is kept;
whether a re-detection is asked about again or given up is left open, since
`FlowEngine` has the counts.

### RateLimiter

Time is a tick, and a deque is how many of its timestamps have each age. That
loses nothing: `allow` only compares timestamps with the window and, in a sweep,
the newest of two deques with each other. `SlidingWindow` knows no deques, no
lazy trimming and no periodic sweep.

### EXSession

`req[r]` is a coroutine in `_request`: what it waits for, the client it began
with, the token in its `headers`, the token of its own login. `token[c]` is
`_token`. An action is what runs when an answer arrives. `live` are the
sessions EX accepts; EX may end any at any time. `Reload` replaces the client
and closes the old one without waiting for its requests.

### SettingsStore and AdminConsole

`rows` is the settings table, a function from the settings with an override. A
secret's row carries the key it is encrypted with; decrypting it with another
one raises. `pc` is the process, from `down` over reading or generating the key,
loading the settings and the self-signed certificate to `up`, or `failed` if an
exception ends it. `Unusable` are settings that pydantic accepts and whose use
raises: an `ex_base_url` that httpx cannot parse (`context.py:20`), a log file
in a directory that does not exist (`app.py:36`), a `public_base_url` that
`urlparse` refuses (`app.py:83`; `SelfSignFails`), a host or port that cannot be
bound (`__main__.py:26`; `Binds`). A save meets the first of them after its
commit: the settings are stored, the reload raises, and the engine before goes
on (`SaveSettings`). A start meets all of them. Two writes are not atomic, the
key file (opened, then written) and the TLS pair (certificate, then key);
`writing` is the file still to come. Everything else between two waits is one
step. The one wait inside a handler is between `guard_settings` and the body of
the request: `admitted` says that requests passed the guard at some time since
the start, and any of them may go on at any later time. A session is a cookie
with its issue time, password and key; a copy of it stays with its holder after
a sign-out. `RotateKey` is not part of the promise of a normal run; only
`RotatingSpec`, which `claim_new_key` checks, has it.

## 3. What TLC checks

| Run | Instance | Shows |
|---|---|---|
| `flow_overlap` | 1 case, 3 coroutines, 2 passwords, every fault kind; 1 fault, 1 crash, 2 pushes, 2 requests | `TypeOK`, `PurgedOnceResubmitted`, `VerdictFollowsRescan`, `SettledStands`, `ImplementsCaseLifecycle` |
| `flow_backstop` | 1 case, 2 coroutines, 2 polls, all faults but `list`; 1 fault, 1 crash, 2 pushes, 1 request | `BackstopArmed`, `RecheckConcludes` |
| `flow_sweeps` | 2 cases, 1 coroutine each, caps of 2 (mails) and 1 (rescans); 2 faults, 1 crash, 1 push, 1 request | `SubmissionSettles`, `NotificationRetried`, `SettledStands` |
| `appliance_rounds` | 1 harmless e-mail, 2 coroutines, a right and a wrong password, 2 polls; 1 lost rescan, 1 crash, 2 pushes, no request | `SystemTypeOK`, `PassedWhenReleased` |
| `appliance_siblings` | 2 e-mails of one sender and subject, one malicious, 1 coroutine each; 1 fault, 1 push | `QuarantinedWhenDetected` |
| `reconcile` | 3 held e-mails, 2 linked, one of these with an unreadable alert, 2 runs; 1 push, 1 fault, 1 crash, 1 release | `TypeOK`, `MailsOnlyHeld`, `ReceivedIsBeingMailed`, `MailedStartsNoOther`, `NothingMissed` |
| `intake` | 2 e-mails, 2 addresses, 2 payloads of 2 and 4 alerts in two wire formats, 2 requests at a time, of the same payload too; 2 events (failures, crashes, submissions, reports) | `TypeOK`, `AcknowledgedMeansHandled`, `ReanalysisCreatesNoCase`, `EventuallyAcknowledged`, `ReportEndsOwnCase`, `ReportsArrive` |
| `ex_session` | 2 requests at a time, 2 clients, 5 tokens; 2 faults (ended sessions, failed logins, broken connections), 2 reloads | `TypeOK`, `UnauthorizedOnlyAfterOwnLogin`, `ClosedOnlyIfReplaced`, `RequestsEnd`, `LoginsSettle` |
| `rate_limiter` | 3 keys, limit 2, window 3, sweep every 3 calls, cap 2; time unbounded | `TypeOK`, `MemoryBounded`, `ImplementsSlidingWindow`, `NoPermanentLockout` |
| `admin_console` | 9 settings (2 secret, 5 with a value that cannot be used), 7 forms, 4 removals, 2 sessions, 2 certificates; 2 keys, 2 saves, 1 crash, 3 ticks | `TypeOK`, `RunningIsStored`, `StartsUnlessCut`, `SetupNeverReopens`, `EndedStaysEnded`, `SavesAsAsked`, `ComesUp` |

Bounds. Actions of different cases touch different rows; they meet only in the
list of a sweep, so one case suffices for the first two runs and two for the
third. Three coroutines on one case are a poller, a handler and a second
handler, the smallest overlap in which every documented race shows; with two
pushes, two requests and `MaxPasswordAttempts = 2` a case is asked again, is
given up, and is reopened after a verdict. The polls are two, so that an
ordinary and a last poll occur. Two cases with two failed mails make a list the
notify sweep still works on while the second case goes on to a verdict. With a
cap of one on rescans a first failure uses it up, so that the push takes the
case into a later round at the cap; a cap of two on mails distinguishes the last
retry from the one before. `CHECK_DEADLOCK FALSE` is set since the system may
stop: once all cases are settled or wait for a person, and the environment has
used its budgets, nothing has to happen. In the symmetric runs only safety is
checked.

The appliance runs need two passwords to have a round with a wrong one before a
round with the right one, two coroutines for a poller of the first to meet the
second, and one lost answer for EX to hold a rescan the program does not know
of. A sibling matters only as an entry with the same sender and subject, so
two e-mails suffice. `reconcile` has one e-mail of each sort the loops
distinguish (linked, without linkage, linked and unreadable), all held at first
and one free to leave at any time; the fallback may list the rows of any of
them. The two runs are the loop and the button. It never deadlocks, because a run
can always begin. The fairness of `Reconcile` is the same as above: the
periodic loop runs for ever (that is `RECONCILE_INTERVAL` > 0), waits end, the
service is restarted.

`intake` has both payloads report the same e-mail, with an `_RA` ahead of the
alert it belongs to, an alert without recipients, one with two suffixes, and a
case the second payload adds a recipient to: every branch of the loop, in both
orders of the payloads, and two requests of either payload overlapping.
`ex_session` is small because requests differ only in what they wait for: two
overlapping logins and one that meets their leftovers are enough to overwrite
tokens in every order. `rate_limiter` has no bound on time at all; the cap and
the sweep period are small, so that sweeps at the cap and between caps both
happen. `admin_console` has a setting of each kind: a secret that guards setup,
a secret the environment has, ones that may fail to load, the one that decides
about TLS, and one for each use that may raise (components, log file,
certificate, the two ports); two saves suffice for a setting to be overridden
and put back, one crash for each pair of writes.

What the new properties leave out, by their wording, is as telling as what they
say. `ReportsArrive` speaks of reports not yet seen: a report that was fetched,
and then lost because the connection broke or the process was killed before the
loop reached it, is lost (`bounce.py:104` marks it seen). `EndedStaysEnded`
excepts the last second of a cookie: a revocation is dropped when its time has
come (`auth.py:81`), the signature is refused only after it. It also asks for
the same password: setting the old password again revives the sessions under it.
`StartsUnlessCut` names the two things that keep a process down: a certificate
and a key that do not belong together, left by a kill between `tls.py:73` and
`:74`, while HTTPS is enabled; and a stored setting that cannot be used
(`Startable`), which an operator can save like any other. For the same reason
`RunningIsStored` says "or what was last built": a form with a password and a
bad `ex_base_url` stores the password while the process stays in setup mode.
`ClosedOnlyIfReplaced` tells who pays for a settings change: requests in flight
fail, and their callers treat it as an EX failure, which the flow retries.

`SettledStands` speaks of a case once nothing is outstanding for it. A
coroutine that waits for an answer is outstanding, and so is a place on the
list of the notify sweep: the sweep mails a case listed before, whatever became
of it, and writes AWAITING_PASSWORD (`domain.py:438`, `:473`). So the property
does not say that a list read long ago moves no settled case; it says that it
moves only those it names, and that a case that was settled is not put on one.
`SubmissionSettles` speaks of submissions under the cap. `resubmit_attempts` is
never reset (`storage.py:200`), so that the password of a later round may find
it at the cap; if `rescan_target` raises then (`domain.py:313`), the case stays
PASSWORD_SUBMITTED and no sweep lists it (`storage.py:211`). So does one killed
between the purge and the new state (`ClaimCrash`).

`MailsOnlyHeld` speaks of the quarantine when the run began: an e-mail that
leaves while the run goes on may still be mailed. `NothingMissed` excepts
e-mails that leave, and the time during which a linked entry that cannot be read
has no case (`Blocked`): each run ends there, before the entries after it.
`ReportEndsOwnCase` lets a report that names no case here end the latest open
case of its recipient, which may be about another mail.

What the properties of the appliance runs mean: `PassedWhenReleased` is the
direction the code calls dangerous, and it holds only because of the window
above and the `_RA` record. `QuarantinedWhenDetected` is weaker than "still
held", which does not hold (`claim_still_held`): it asks for a detection of a
rescan of this e-mail at some time before. If EX took one rescan only, it also
asks that its analysis is over and did not deliver the e-mail, also at the time
the verdict is written, which may be long after the answer was given.

Fairness (`FairSpec`) of the flow: a coroutine that waits is resumed (HTTP and
SMTP calls have timeouts, timers fire, the event loop runs every ready task), a
sweep with work listed or to list goes on (`_notify_loop` and `_resubmit_loop`
never end), and the process is started again after a crash. Nothing is assumed
of people, of pushes or of the appliance's answers; failures are finite because
of the budget, which is the assumption "EX and the mail server do not fail for
ever".

`Intake`: waits end and both loops go on; the set-up is completed; EX pushes
again what it got no 200 for; the service is restarted. Failures, crashes and
reports share a budget. `EXSession`: a request gets its answer or times out;
nothing is assumed of new requests. `RateLimiter`: time passes, nothing else.
`AdminConsole`: the process is started again after a crash and its start does
not hang; the operator need not do anything.

Each property of these runs is paired with a plausible mistake in the code
(`mutants` in `PROJECT.json`), written beside the definition it would replace
and marked `(mutant)`, and the mistake breaks it.

### Where the code and its documentation disagree

The modules `*Claims` state what a document, a comment or a docstring says, and
each `claim_*` run finds a counterexample of a few steps:

| Run | Said | Done |
|---|---|---|
| `claim_still_held` | `_RA` present means still held | the `_RA` of an earlier wrong password concludes the next round before EX analysed it |
| `claim_new_key` | after a change of `SECRET_KEY`, stored settings secrets must be re-entered | the process does not start: `InvalidToken` from `settings_store.py:88` is caught nowhere |

Not in the list of runs, but kept as configurations; `tlc -config <cfg> <module>`
finds the counterexample:

| Configuration, module | Said | Done |
|---|---|---|
| `ClaimWrongWins`, `FlowEngineClaims` | the still-encrypted marker wins over any verdict | a confirmation already under way overwrites the re-ask (`domain.py:241`) |
| `ClaimSingleUse`, `FlowEngineClaims` | once submitted, the case leaves AWAITING_PASSWORD and the link is dead | a mail still under way puts it back (`domain.py:473`) |
| `ClaimTerminal`, `FlowEngineClaims` | at a terminal outcome only the hash remains | a bounce during a round keeps the password (`domain.py:453`) |
| `ClaimCrash`, `FlowEngineClaims` | work left mid-flight is rescheduled on startup | not after a kill between `clear_password` and `set_state` (`domain.py:344`) |
| `ClaimTarget`, `ApplianceClaims` | `rescan_target` returns the entry of this e-mail | of another one with the same sender and subject, if this one left the list (`ex_client.py:194`) |
| `ClaimRecipients`, `IntakeClaims` | every recipient is asked | one that only a second alert of the e-mail names is merged into the case (`storage.py:127`) and mailed no link, unless the case is still RECEIVED |

Met while modelling, and not kept:

* a second push of one re-detection is counted again while the mail of the
  first is still being sent (`domain.py:358`; "repeat pushes count as one
  attempt");
* two overlapping resubmissions, one accepted and one failed, leave
  RESUBMIT_FAILED without the password it is said to hold (`domain.py:341`);
* an EX error on the last poll ends the polling instead of going on
  (`recheck.py:135`): this is why `BackstopArmed` excludes the fault `list`;
* the notify sweep mails cases that left NOTIFY_FAILED since they were listed
  (`domain.py:438`);
* a push between a run's look for a case and its `handle_alert` mails the link
  twice (`reconcile.py:63`): `MailedStartsNoOther` says what remains true;
* a case killed in RECEIVED counts as known to every later run and is not
  resumed at startup (`reconcile.py:63`): this is why `ReceivedIsBeingMailed`
  ends at a crash;
* one held e-mail whose alert EX cannot return ends every run there
  (`reconcile.py:46`), so entries after it may never be reached (`Blocked`);
* the components are built after a save was committed (`context.py:49`), so
  that one which cannot be built is stored, answered with a 500, and keeps the
  next start from coming up;
* a bounce report whose X-Case-Id is of no case here ends one of its recipient
  (`domain.py:447`), although it is about a mail of somebody else;
* `FAILED_MAX_RETRIES` is in `TERMINAL` (`domain.py:67`) while a note of the
  documentation says it is not; nothing ever sets `EXPIRED`; `notify_attempts`
  and `resubmit_attempts` are never reset between rounds; concurrent pushes may
  put a case that was just given up back to AWAITING_PASSWORD (the mail of an
  earlier push answers after `set_state(FAILED_MAX_RETRIES)`).

## 4. What TLAPS proves

The theorems are in the eight modules `*Proofs`, for every value of the
constants that satisfies the named assumptions. Those of `FlowEngine`: the
passwords are not the two markers, the limits are naturals, the password cap
and the number of polls positive. Those of `Reconcile`: the e-mails are
finitely many and at least one, the runs finitely many, the budgets naturals.
Those of `RateLimiter`: finitely many keys, a natural limit, positive window,
sweep period and cap. Those of `EXSession`: "no token" is not a session, there
is a client. Those of `AdminConsole`: the admin password is a secret setting,
the environment loads, the settings the start uses are editable ones
(`UsedAssumption`), the markers are not keys or certificates. Those of
`Intake`: the markers are neither addresses, queue ids nor e-mails
(`IntakeAssumption`), and `Detections` is a true account of the payloads
(`PayloadAssumption`): each detection it lists has an e-mail and recipients and
is written in some alert of the payload, with one of the names the code knows
for each field. What else is in a payload is not restricted.

| Theorem | Statement |
|---|---|
| `TypeCorrect` | `Spec => []TypeOK` |
| `OnlyTheHashRemains` | `Spec => []PurgedOnceResubmitted` |
| `VerdictIsEarned` | `Spec => []VerdictFollowsRescan` |
| `BackstopHolds` | if `"list" \notin Faults`, `Spec => []BackstopArmed` |
| `SettledIsStable` | `Spec => SettledStands` |
| `FlowIsLifecycle` | `Spec => ImplementsCaseLifecycle`: the flow implements `CaseLifecycle` |
| `PromiseKept` of `CaseLifecycle` | `Spec => []Promise`: no verdict and no blame before a rescan, no password past it, nobody given up early |
| `FlowKeepsPromise` | the same of `FlowEngine`, by the refinement |
| `GivenUpIsFinal` of `CaseLifecycle`, `FlowGivenUpIsFinal` | a case given up with nothing under way stays so for ever |
| `SystemIsFlow` | `SystemSpec => Spec`: the composition implements the flow engine |
| `SystemKeepsInvariants` | `SystemSpec => [](TypeOK /\ PurgedOnceResubmitted /\ VerdictFollowsRescan)` |
| `SystemIsLifecycle` | `SystemSpec => ImplementsCaseLifecycle` |
| `SystemTypeCorrect` | `SystemSpec => []SystemTypeOK` |
| `RescansReachTheirEmail` | a case rescans its own e-mail until EX delivered it; an audit row means EX took a rescan of it, or delivered it |
| `NoEarlyRelease` | `SystemSpec => PassedWhenReleased` |
| `NoUnfoundedQuarantine` | `SystemSpec => QuarantinedWhenDetected` |
| `RunsStayGood` | `Spec => [](TypeOK /\ RunsGood)` of `Reconcile` |
| `MailsOnlyHeldHolds` | `Spec => []MailsOnlyHeld` |
| `ReceivedHasSender` | `Spec => []ReceivedIsBeingMailed` |
| `MailedStaysMailed` | `Spec => MailedStartsNoOther` |
| `TypeCorrect`, `MemoryStaysBounded` of `RateLimiter` | `Spec => []TypeOK`, `Spec => []MemoryBounded` |
| `LimiterIsSlidingWindow` | `Spec => ImplementsSlidingWindow`: the limiter implements `SlidingWindow` |
| `TypeCorrect` of `EXSession` | `Spec => []TypeOK` |
| `UnauthorizedIsFinal` | `Spec => UnauthorizedOnlyAfterOwnLogin` |
| `OnlyReplacedClientsAreClosed` | `Spec => ClosedOnlyIfReplaced` |
| `TypeCorrect` of `AdminConsole` | `Spec => []TypeOK` |
| `RunsWhatIsStored`, `StartNeedsNoHelp` | `Spec => []RunningIsStored`, `Spec => []StartsUnlessCut` |
| `SetupStaysClosed`, `EndedSessionsStayEnded` | `Spec => SetupNeverReopens`, `Spec => EndedStaysEnded` |
| `StoreKeepsPromise` | `Spec => SavesAsAsked`: the table implements `Preferences` |
| `MergeKeepsRecipients` | `MergeRecipients` of any two lists: their union without repeats, those on file in their places |
| `ParserReads` | `ParseAlert` of any alert that reports a first detection: its queue id, its recipients exactly, a trigger match |
| `IntakeTypeCorrect`, `ReanalysisFilesNothing` | `Spec => []TypeOK`, `Spec => []ReanalysisCreatesNoCase` of `Intake` |
| `AcknowledgedIsHandled` | `Spec => []AcknowledgedMeansHandled` |
| `ReportsEndTheirCase` | `Spec => ReportEndsOwnCase` |
| `CasesGoOn` | no step unmakes a case, puts one back to RECEIVED or takes a recipient off it |

Argument. The proofs about the flow do not go through the actions property by
property. Two lemmas list once what a step can do: `EveryWrite` says that each
row is left alone or changed by one of the transactions of the code, with the
guard it runs under (the relation `RowStep`), and `EveryJob` says how the
program counter of a coroutine may move and what that implies for its row
(`PcStep`). Each invariant is then a short case analysis over these relations.

* `PurgedOnceResubmitted` is inductive given types: the only way into
  `Rescanned` clears the password first, and `store_password` runs only in
  AWAITING_PASSWORD, which is outside.
* `VerdictFollowsRescan` is inductive because of its third conjunct: a
  coroutine that asks for a verdict was created for a case that had its
  rescan. Without it nothing would justify `Finish`, which does not look at
  the state.
* `BackstopArmed` needs that whoever makes a case RECHECKABLE polls it, that
  a poller leaves only after it concluded or found the case resolved, and that
  a restart polls all of them. The hypothesis on `list` is necessary: section 3
  says what an EX error on the last poll does.
* `FlowIsLifecycle` needs types only. `Adds` and `Started` say which errands a
  table of coroutines adds (`RunAdds`), `RowTo` that one row changes; both hold
  of a segment that ran and of one cut short by a crash (`CommitMoves`,
  `CommitOne`), which loses all errands and leaves one of the intermediate
  rows. Each intermediate row of `WriteFacts` must be a row the lifecycle
  allows: this is where the order of the transactions enters, such as counting
  before giving up. One lemma per kind of segment (`AsRegister` to `AsCrash`)
  then names the step of the lifecycle; if the row looks as before, the step is
  `Dispatch`, and what it begins has to be called for.
* `PromiseKept` argues about stages and errands alone. It is inductive with
  `VerdictsAreDue`: a query for a verdict under way was begun after a rescan.
  `GivenUpIsFinal` adds that no errand is called for once a case is given up, so
  with none under way there is nothing left that could move it; one under way
  can (section 3), which is why the theorem excludes it. `FlowKeepsPromise` and
  `FlowGivenUpIsFinal` instantiate both with the mapping.
* `SystemIsFlow` has one step per action of `SystemNext`: each names the action
  of `FlowEngine` it contains, or leaves `vars` alone. `FlowEngine` has no
  hidden variables, so the mapping is the identity; the invariants carry over.

* `NoEarlyRelease` rests on `ReleaseInv`, which is inductive given types and
  `VerdictFollowsRescan`. `RecordsKept`: an e-mail stays in the list until it is
  delivered, and once a rescan was taken its first analysis is under way or
  what it found is on record. `TargetsOwn`: a case rescans its own entry unless
  the e-mail was delivered. `HashesTaken`: an audit row means that EX took a
  rescan, which is what a poller resumed at startup relies on. `PollersOK`: a
  poller covers at least one rescan; after the window of the last poll that
  one is decided; so whoever asks `has_resubmission_quarantine` asks about a
  decided e-mail, and "no" means delivered. The proof shows where each piece is
  needed: the guard of `PollInWindow` (the schedule of polls outlasts the
  analysis) only in `WindowDecides`, the `_RA` record only in `PassedStep`.
  `AnswersTrue` covers the time between an answer and its use: "released" and
  "absent" were given of a delivered e-mail, and a delivery is not undone.
* `NoUnfoundedQuarantine` rests on `DetectionInv`. `Numbered`: analyses are
  numbered per e-mail and no number is used twice, so a detection and a
  delivery of one e-mail come from two rescans (`RecordsEarned`).
  `HeldDetected`: a record in the list, and an answer "held" not yet read, are
  of an e-mail that was detected. The record itself may be gone by the time the
  answer is used, which is why the property is about `detected`.
* `Reconcile` is proved along the same lines: `Moves` says what a step makes of
  the run that takes it, `Effect` what it does to the cases. `RunGood` is the
  strengthening: candidates were in quarantine when the run began, what is
  handled and what the loop has left are apart and candidates both, and the
  e-mail in hand is one of them that is neither before its case is looked for.
  A release in between keeps it, since it speaks of `asked`; that the list is
  read after the run began is where `asked` and the list meet (`held` only
  shrinks). `Watched` is the strengthening of `ReceivedIsBeingMailed` (some
  sender exists), and `MailedStays` that of `MailedStartsNoOther` (what was
  mailed does not become unmailed).
* `LimiterIsSlidingWindow` maps a deque to what it holds within the window
  (`InWindow`). Trimming and dropping idle keys then map to nothing, because
  they touch only what the window left behind; a sweep at the cap maps to
  forgetting, because the busy keys are the keys in use and `HitBefore` is
  "not later than" read through the mapping. `MemoryBounded` is inductive
  given types: a call adds one key, and a sweep at the cap leaves at most
  nine tenths of it, which is less than the cap.
* The invariant of `EXSession` adds two facts to types: a request that sends
  again does so with the session of its own login (`OwnInv`), and the engine's
  client is open (`OpenInv`).
* The invariant of `AdminConsole` says how the pieces on disk fit together.
  `KeyInv`: a running process has the key that is on disk, and every stored
  secret is encrypted with it; so it matters that the key is written before it
  is used. `PairInv`: the two TLS files match unless one is just being written
  or a crash cut that short, and nobody is between the two in a process that does
  not run. `StoredLoads`: what is stored loads, which the validation before the
  commit ensures; hence `Effective` never falls back, and a reload that does
  not raise runs what is stored. `RunningIsStored` and `StartsUnlessCut` are
  inductive with these. `RevokedLongEnough`: a revocation outlives its
  cookie. Neither the assumptions nor the invariant mention the requests that
  passed the guard: the theorems hold whenever those go on.

* `Intake` has two layers. The parsers are loops over sequences, defined by
  recursion: `UpTo` is induction along `0 .. N` (a least counterexample, from
  the library's theorem on finite sets ordered by inclusion), `Iterate` shows
  that the recursion of a loop has the solution its definition names, and
  `DedupeRounds` is the loop invariant of `split_addrs`. From these follow what
  `Dedupe`, `TextList`, `MergeRecipients` and `ParseAlert` return for every input.
  Above them, `Written` says how a step may change the rows, and `HookUpdate`
  what a request may become. `IntakeInv` strengthens `AcknowledgedMeansHandled`
  by `NoneSkipped`: each first detection of a payload on its way is still among
  the alerts left, or has its case filed and its mail under way in this very
  request, or is handled. The middle part is why an error on the mail may not
  leave a case in RECEIVED. `HooksHaveCases` and `ReportsHaveCases` say that
  nobody waits over, was mailed about or reports a case there is not, so that
  no write of a state creates a row. TLC checks each part as an invariant.

Only model-checked: the liveness properties, since fairness, `ENABLED` and
leads-to under it are beyond the prover. What the theorems say of the appliance
they say of `ExAppliance`: a model of a product seen from its client. Its
assumptions are listed at the head of that module and in section 3.

## 5. Not modelled

Listed with the reason in `components` of `PROJECT.json`. Presentation
(templates, style sheets, browser scripts), logging, the connectivity check
and packaging have no state worth checking. Rendering and sending a mail, and
the two calls that encrypt, have no state of their own: the modules that use
them see a success, an exception, or an unreadable ciphertext. Within the
modelled components the following is left out:

* the age of a link: `handle_password` accepts an expired one, and the page
  only decides whether to mail a new link first (`ReissueExpiredLink`);
* the length of delays; timers may fire at any time, and the one timing
  assumption is `covers` in `FlowOnAppliance`;
* the race on the unique queue id in `get_or_create_case`: without a wait
  between look and insert it cannot happen on one thread;
* spelling in alerts (case, hyphens, white space), and the structure of MIME
  messages;
* releasing and deleting from the quarantine, which no flow calls, and the
  display of alert details;
* the dashboard's reads and the event log, which nothing reads back to decide.

## 6. Plan

Done: the flow engine, the lifecycle it implements and the appliance, the
backfill, what reaches the flow from outside, the session with EX, the rate
limiter, and the installation with its settings, sessions and files.
Next, in this order:

1. A bound on the counted attempts by the mails under way (`domain.py:358`).
2. `EXSession` beneath `FlowOnAppliance`, in place of its free failures.
