------------------------------- MODULE Reconcile -------------------------------
(***************************************************************************)
(* reconcile.run_reconcile: the backfill of detections missed while the    *)
(* program was down, running beside the webhook and beside itself (the     *)
(* periodic loop and the operator's button).                               *)
(*                                                                         *)
(* Of the flow only its first step matters here: handle_alert creates the  *)
(* case, and mails the link if the case is RECEIVED.  What follows is      *)
(* FlowEngine's.  A step is the code between two waits, except that the    *)
(* loops over entries and rows take one step per element also where the    *)
(* code does not wait.  Meanwhile e-mails leave the quarantine, and a run  *)
(* goes on with the list it got.  The counts it returns are left out.      *)
(***************************************************************************)
EXTENDS Integers, FiniteSets

CONSTANTS
  Emails,      \* e-mails EX has alerts for
  Held,        \* those it holds at first (the others were delivered)
  Triggers,    \* those whose alerts match the trigger rules and name a recipient
  Linked,      \* those whose quarantine record carries alert_uuids
  Unreadable,  \* those whose alert EX fails to return every time
  Runs,        \* reconcile runs that may be in progress at a time
  MaxPushes, MaxFaults, MaxCrashes, MaxReleases    \* bounds of the exploration

ASSUME EmailsAssumption ==
  /\ Held \cup Triggers \cup Linked \cup Unreadable \subseteq Emails
  /\ IsFiniteSet(Emails) /\ Emails # {}
ASSUME RunsAssumption == IsFiniteSet(Runs)
ASSUME BoundsAssumption == {MaxPushes, MaxFaults, MaxCrashes, MaxReleases} \subseteq Nat

VARIABLES
  held,     \* the e-mails in EX's quarantine
  case,     \* case[e]: how far the first step of the flow has come
  mails,    \* mails[e]: links mailed for e
  run,      \* run[r]: a reconcile run
  hook,     \* hook[e]: webhook handlers waiting for the mail server
  up,
  budget    \* what the environment may still do of each of the bounded kinds

vars == <<held, case, mails, run, hook, up, budget>>

CaseStates == { "absent", "received", "awaiting_password", "notify_failed" }

\* pc names what the run waits for, or the loop it is in; pass is the loop it
\* returns to after a wait.
RunStates == [ pc : {"idle", "list", "entries", "alert", "alerts", "rows", "send"},
               pass : {"entries", "rows"},
               rest : SUBSET Emails,         \* entries or rows to come
               asked : SUBSET Emails,        \* in quarantine when the run began
               candidates : SUBSET Emails,   \* held_qids
               handled : SUBSET Emails,
               at : Emails ]                 \* the e-mail of the current wait

Starting == [ pc |-> "idle", pass |-> "entries", rest |-> {}, asked |-> {},
              candidates |-> {}, handled |-> {},
              at |-> CHOOSE e \in Emails : TRUE ]

\* Back in the loop after a wait.
Back(j) == [j EXCEPT !.pc = j.pass, !.at = Starting.at]

Set(r, j) == run' = [run EXCEPT ![r] = j]
Spend(b) == budget[b] > 0 /\ budget' = [budget EXCEPT ![b] = @ - 1]
In(r, pc) == up /\ run[r].pc = pc

-------------------------------------------------------------------------------
(* The first step of the flow *)

Unmailed(e) == case[e] \in {"absent", "received"}

\* Every new mail or failure ends with a state that is not RECEIVED.
MailerReplies(e) ==
  \/ /\ case' = [case EXCEPT ![e] = "awaiting_password"]
     /\ mails' = [mails EXCEPT ![e] = @ + 1]
     /\ UNCHANGED budget
  \/ /\ Spend("fault")
     /\ case' = [case EXCEPT ![e] = "notify_failed"]
     /\ UNCHANGED mails

\* A detection is pushed: handle_alert for a trigger e-mail.
WebhookPush(e) ==
  /\ up
  /\ e \in Triggers
  /\ Spend("push")
  /\ IF Unmailed(e)
     THEN /\ case' = [case EXCEPT ![e] = "received"]
          /\ hook' = [hook EXCEPT ![e] = @ + 1]
     ELSE UNCHANGED <<case, hook>>
  /\ UNCHANGED <<held, mails, run, up>>

WebhookMailed(e) ==
  /\ up
  /\ hook[e] > 0
  /\ MailerReplies(e)
  /\ hook' = [hook EXCEPT ![e] = @ - 1]
  /\ UNCHANGED <<held, run, up>>

-------------------------------------------------------------------------------
(* One run *)

Begin(r) ==
  /\ In(r, "idle")
  /\ Set(r, [Starting EXCEPT !.pc = "list", !.asked = held])
  /\ UNCHANGED <<held, case, mails, hook, up, budget>>

\* (mutant) an entry without a queue id is a candidate too
CandidatesUnfiltered(listed) == listed \cup {"none"}

\* The queue ids listed, without the _RA records and those that have none.
Candidates(listed) == listed

\* list_held answered; a failure counts as an empty list.  The run may get the
\* answer later, which is as if it went on later.
ListReplies(r) ==
  /\ In(r, "list")
  /\ \/ /\ Set(r, [run[r] EXCEPT !.pc = "entries", !.rest = held,
                                  !.candidates = Candidates(held)])
        /\ UNCHANGED budget
     \/ /\ Spend("fault")
        /\ Set(r, [run[r] EXCEPT !.pc = "entries"])
  /\ UNCHANGED <<held, case, mails, hook, up>>

Remaining(j) == j.candidates \ j.handled

\* (mutant) an entry without linkage ends the loop instead of being skipped
NextEntryOrStop(r, e) ==
  LET j == [run[r] EXCEPT !.rest = @ \ {e}]
  IN  /\ In(r, "entries")
      /\ e \in run[r].rest
      /\ \/ /\ case[e] # "absent"
            /\ Set(r, [j EXCEPT !.handled = @ \cup {e}])
         \/ /\ case[e] = "absent" /\ e \notin Linked
            /\ Set(r, [j EXCEPT !.rest = {}])
         \/ /\ case[e] = "absent" /\ e \in Linked
            /\ Set(r, [j EXCEPT !.pc = "alert", !.at = e])
      /\ UNCHANGED <<held, case, mails, hook, up, budget>>

\* An entry of the list: known already, without linkage, or to be confirmed.
NextEntry(r, e) ==
  LET j == [run[r] EXCEPT !.rest = @ \ {e}]
  IN  /\ In(r, "entries")
      /\ e \in run[r].rest
      /\ \/ /\ case[e] # "absent"
            /\ Set(r, [j EXCEPT !.handled = @ \cup {e}])
         \/ /\ case[e] = "absent" /\ e \notin Linked
            /\ Set(r, j)
         \/ /\ case[e] = "absent" /\ e \in Linked
            /\ Set(r, [j EXCEPT !.pc = "alert", !.at = e])
      /\ UNCHANGED <<held, case, mails, hook, up, budget>>

\* After the last entry: the fallback over the alerts, or the end of the run if
\* nothing remains.
EntriesDone(r) ==
  /\ In(r, "entries")
  /\ run[r].rest = {}
  /\ Set(r, IF Remaining(run[r]) # {} THEN [run[r] EXCEPT !.pc = "alerts"] ELSE Starting)
  /\ UNCHANGED <<held, case, mails, hook, up, budget>>

\* (mutant) the fallback is not constrained to the held set
RowsOfAnyEmail(j) == Emails \ j.handled

\* Rows of the alerts query that the fallback looks at.
RowsOfInterest(j) == Remaining(j)

\* get_alerts answered (any alerts may lie in its window), or both tries
\* failed and the exception ends the run.
AlertsReply(r) ==
  /\ In(r, "alerts")
  /\ \/ /\ \E rows \in SUBSET RowsOfInterest(run[r]) :
             Set(r, [run[r] EXCEPT !.pc = "rows", !.pass = "rows", !.rest = rows])
        /\ UNCHANGED budget
     \/ Spend("fault") /\ Set(r, Starting)
  /\ UNCHANGED <<held, case, mails, hook, up>>

\* (mutant) a case that another handler created is left to it
ConfirmCreatesOnly(r, j, e) ==
  LET noted == [j EXCEPT !.handled = @ \cup {e}]
  IN  /\ Set(r, Back(noted))
      /\ case' = [case EXCEPT ![e] = IF Unmailed(e) THEN "received" ELSE @]

\* (mutant) the state of an existing case is not looked at
ConfirmSendsAlways(r, j, e) ==
  /\ case' = [case EXCEPT ![e] = "received"]
  /\ Set(r, [j EXCEPT !.handled = @ \cup {e}, !.pc = "send", !.at = e])

\* A matching alert: note the e-mail as handled and call handle_alert.
Confirm(r, j, e) ==
  LET noted == [j EXCEPT !.handled = @ \cup {e}]
  IN  IF Unmailed(e)
      THEN /\ case' = [case EXCEPT ![e] = "received"]
           /\ Set(r, [noted EXCEPT !.pc = "send", !.at = e])
      ELSE /\ Set(r, Back(noted))
           /\ UNCHANGED case

\* get_alert_by_uuid answered: a trigger, something else or nothing; or it
\* raised, which ends the run.
AlertReplies(r) ==
  LET e == run[r].at
  IN  /\ In(r, "alert")
      /\ \/ /\ e \notin Unreadable
            /\ IF e \in Triggers THEN Confirm(r, run[r], e)
                                 ELSE /\ Set(r, Back(run[r]))
                                      /\ UNCHANGED case
            /\ UNCHANGED budget
         \/ /\ e \notin Unreadable
            /\ Spend("fault")
            /\ Set(r, Starting)
            /\ UNCHANGED case
         \/ /\ e \in Unreadable
            /\ Set(r, Starting)
            /\ UNCHANGED <<case, budget>>
      /\ UNCHANGED <<held, mails, hook, up>>

\* A row of the fallback: complete, or trimmed and to be fetched by UUID.
NextRow(r, e) ==
  LET j == [run[r] EXCEPT !.rest = @ \ {e}]
  IN  /\ In(r, "rows")
      /\ e \in run[r].rest
      /\ \/ e \in Triggers /\ Confirm(r, j, e)
         \/ e \notin Triggers /\ Set(r, j) /\ UNCHANGED case
         \/ Set(r, [j EXCEPT !.pc = "alert", !.at = e]) /\ UNCHANGED case
      /\ UNCHANGED <<held, mails, hook, up, budget>>

RowsDone(r) ==
  /\ In(r, "rows")
  /\ run[r].rest = {}
  /\ Set(r, Starting)
  /\ UNCHANGED <<held, case, mails, hook, up, budget>>

RunMailed(r) ==
  /\ In(r, "send")
  /\ MailerReplies(run[r].at)
  /\ Set(r, Back(run[r]))
  /\ UNCHANGED <<held, hook, up>>

-------------------------------------------------------------------------------
(* EX and its operators: an e-mail is released, deleted or expires. *)

LeavesQuarantine(e) ==
  /\ e \in held
  /\ Spend("release")
  /\ held' = held \ {e}
  /\ UNCHANGED <<case, mails, run, hook, up>>

-------------------------------------------------------------------------------
(* Crash and restart: runs and handlers are gone, the cases stay. *)

Crash ==
  /\ up
  /\ Spend("crash")
  /\ up' = FALSE
  /\ run' = [r \in Runs |-> Starting]
  /\ hook' = [e \in Emails |-> 0]
  /\ UNCHANGED <<held, case, mails>>

Restart ==
  /\ ~up
  /\ up' = TRUE
  /\ UNCHANGED <<held, case, mails, run, hook, budget>>

Init ==
  /\ held = Held
  /\ case = [e \in Emails |-> "absent"]
  /\ mails = [e \in Emails |-> 0]
  /\ run = [r \in Runs |-> Starting]
  /\ hook = [e \in Emails |-> 0]
  /\ up = TRUE
  /\ budget = [push |-> MaxPushes, fault |-> MaxFaults, crash |-> MaxCrashes,
                release |-> MaxReleases]

RunStep(r) ==
  \/ Begin(r)
  \/ ListReplies(r)
  \/ \E e \in Emails : NextEntry(r, e) \/ NextRow(r, e)
  \/ EntriesDone(r)
  \/ AlertsReply(r)
  \/ AlertReplies(r)
  \/ RowsDone(r)
  \/ RunMailed(r)

Next ==
  \/ \E r \in Runs : RunStep(r)
  \/ \E e \in Emails : WebhookPush(e) \/ WebhookMailed(e) \/ LeavesQuarantine(e)
  \/ Crash
  \/ Restart

Spec == Init /\ [][Next]_vars

\* The periodic loop runs for ever and every wait ends; the service is
\* started again.
FairSpec ==
  /\ Spec
  /\ \A r \in Runs : WF_vars(RunStep(r))
  /\ \A e \in Emails : WF_vars(WebhookMailed(e))
  /\ WF_vars(Restart)

-------------------------------------------------------------------------------
(* Properties *)

TypeOK ==
  /\ held \subseteq Emails
  /\ case \in [Emails -> CaseStates]
  /\ mails \in [Emails -> Nat]
  /\ run \in [Runs -> RunStates]
  /\ hook \in [Emails -> Nat]
  /\ up \in BOOLEAN
  /\ budget \in [{"push", "fault", "crash", "release"} -> Nat]

\* "Quarantine-first": what a run mails is a trigger e-mail that EX still held
\* when the run began.  One that was delivered before, by whatever way, is
\* mailed by no run, also if its alerts lie in the window of the fallback; one
\* that is delivered while the run goes on may be.
MailsOnlyHeld ==
  \A r \in Runs : run[r].pc = "send" => run[r].at \in run[r].asked \cap Triggers

\* A case is left RECEIVED only as long as somebody is mailing its link, by
\* whichever of the overlapping handlers created it; until a crash, after
\* which nothing does.
Senders(e) == hook[e] + Cardinality({r \in Runs : run[r].pc = "send" /\ run[r].at = e})

ReceivedIsBeingMailed ==
  \A e \in Emails :
    case[e] = "received" /\ budget.crash = MaxCrashes => Senders(e) > 0

\* Idempotence, as far as it goes: once a link was mailed for an e-mail, no
\* push and no run starts to mail another.  Two that started before may both
\* finish.
MailedStartsNoOther ==
  [][\A e \in Emails : mails[e] > 0 => Senders(e)' <= Senders(e)]_vars

\* A listed entry without a case whose alert EX fails to return: fetching it
\* raises, and the run ends before the entries after it.
Blocked == \E e \in held \cap Linked \cap Unreadable : case[e] = "absent"

\* Every held trigger e-mail with linkage gets its case in the end, although
\* nobody pushed it, runs are aborted by exceptions, the process crashes and
\* other e-mails leave the quarantine; unless it leaves itself, or an entry
\* that cannot be read blocks every run.  Once a push has filed that entry, or
\* it has left, the next runs make up for it.
NothingMissed ==
  \A e \in (Held \cap Triggers \cap Linked) \ Unreadable :
    case[e] = "absent" /\ e \in held
      ~> (case[e] # "absent" \/ e \notin held \/ Blocked)
===============================================================================
