---------------------------- MODULE FlowOnAppliance ----------------------------
(***************************************************************************)
(* The flow engine with the appliance it talks to: answers of EX are read  *)
(* from the quarantine list instead of chosen freely.  Every step of this  *)
(* system is a step of FlowEngine, or a step of the appliance alone.       *)
(***************************************************************************)
EXTENDS FlowEngine

CONSTANTS Harmful, Siblings, RightPasswords

ASSUME RightPasswordsAssumption == RightPasswords \subseteq Passwords

VARIABLES
  quarantine, analyses, taken, pushed, detected, released,   \* the appliance
  target,   \* target[c][s]: the e-mail the coroutine is about to rescan
  answer,   \* answer[c][s]: what EX has answered, and the coroutine not yet read
  covers    \* covers[c][s]: rescans accepted before the poller started

EX == INSTANCE ExAppliance WITH Emails <- Cases

exVars == <<quarantine, analyses, taken, pushed, detected, released>>
allVars == <<vars, exVars, target, answer, covers>>

\* rescan_target, rescan, resubmission_outcome and has_resubmission_quarantine.
Answers == {"none", "found", "missing", "taken", "refused"}
             \cup ResubmissionOutcome \cup {"absent"}

PerSlot(x) == [c \in Cases |-> [s \in Slots |-> x[c]]]

SystemInit ==
  /\ Init
  /\ EX!ExInit
  /\ target = PerSlot([c \in Cases |-> c])
  /\ answer = PerSlot([c \in Cases |-> "none"])
  /\ covers = PerSlot([c \in Cases |-> 0])

\* Each is forgotten with the wait or the coroutine it belongs to.
Forgets ==
  /\ target' = [c \in Cases |-> [s \in Slots |->
                  IF jobs'[c][s].pc \in {"target", "rescan"}
                  THEN target[c][s] ELSE c]]
  /\ answer' = [c \in Cases |-> [s \in Slots |->
                  IF jobs'[c][s].pc = jobs[c][s].pc THEN answer[c][s] ELSE "none"]]

OnlyPollersCover ==
  covers' = [c \in Cases |-> [s \in Slots |->
               IF jobs'[c][s].pc \in {"sleep", "outcome"} THEN covers[c][s] ELSE 0]]

-------------------------------------------------------------------------------
(* The appliance answers.  The coroutine reads the answer later: between   *)
(* the two EX may deliver the e-mail or record a detection, and other      *)
(* coroutines may change the case.                                         *)

Unanswered(c, s, pc) == Waiting(c, s, pc) /\ answer[c][s] = "none"
Answered(c, s, a) == answer' = [answer EXCEPT ![c][s] = a]

AnswersTarget(c, s) ==
  /\ Unanswered(c, s, "target")
  /\ \/ \E x \in EX!RescanTargets(c) :
          /\ target' = [target EXCEPT ![c][s] = x.email]
          /\ Answered(c, s, "found")
     \/ /\ EX!RescanTargets(c) = {}
        /\ Answered(c, s, "missing")
        /\ UNCHANGED target
  /\ UNCHANGED <<vars, exVars, covers>>

Right(c, s) == jobs[c][s].pwd \in RightPasswords

AnswersRescan(c, s) ==
  /\ Unanswered(c, s, "rescan")
  /\ \/ /\ EX!TakeRescan(target[c][s], Right(c, s))
        /\ Answered(c, s, "taken")
     \/ /\ EX!RefusesRescan(target[c][s])
        /\ Answered(c, s, "refused")
        /\ UNCHANGED exVars
  /\ UNCHANGED <<vars, target, covers>>

AnswersQuery(c, s) ==
  /\ \/ Unanswered(c, s, "outcome") /\ Answered(c, s, EX!Outcome(c))
     \/ /\ Unanswered(c, s, "confirm")
        /\ Answered(c, s, IF EX!HasResubmissionQuarantine(c) THEN "held" ELSE "absent")
  /\ UNCHANGED <<vars, exVars, target, covers>>

-------------------------------------------------------------------------------
(* The program reads the answer, or goes on without one *)

FindTarget(c, s) ==
  /\ \/ answer[c][s] = "found" /\ TargetFound(c, s)
     \/ answer[c][s] = "missing" /\ TargetMissing(c, s)
  /\ Forgets
  /\ UNCHANGED <<exVars, covers>>

CommandRescan(c, s) ==
  /\ \/ /\ answer[c][s] = "taken"
        /\ RescanAccepted(c, s)
        /\ covers' = [covers EXCEPT ![c][s] = taken[c]]
     \/ /\ answer[c][s] = "refused"
        /\ RescanRefused(c, s)
        /\ UNCHANGED covers
  /\ Forgets
  /\ UNCHANGED exVars

\* A poll that is not the last may come at any time; the last one comes when
\* EX has had the whole window to analyse what it took before the first.
PollInWindow(c, s) ==
  /\ PollWakes(c, s)
  /\ jobs[c][s].left = 1 =>
       \A a \in analyses : a.email = c => a.id > covers[c][s]
  /\ OnlyPollersCover
  /\ Forgets
  /\ UNCHANGED exVars

\* EX pushes a re-detection.
IsPushed(c, s) ==
  /\ \/ "encrypted" \in pushed[c] /\ HandleWrongPasswordPush(c, s)
     \/ "other" \in pushed[c] /\ HandleOtherPush(c, s)
  /\ OnlyPollersCover
  /\ Forgets
  /\ UNCHANGED exVars

\* The verdict is written from the answer, whatever the list holds by now.
ReadVerdict(c, s) ==
  /\ \/ \E outcome \in ResubmissionOutcome :
          answer[c][s] = outcome /\ OutcomeIs(c, s, outcome)
     \/ \E held \in BOOLEAN :
          /\ answer[c][s] = IF held THEN "held" ELSE "absent"
          /\ ConfirmIs(c, s, held)
  /\ OnlyPollersCover
  /\ Forgets
  /\ UNCHANGED exVars

\* What needs no answer: handlers, sweeps, the mail server, and the failures,
\* which lose an answer that EX may have given.
Apart(c, s) ==
  /\ \/ HandleAlert(c, s)
     \/ Resend(c, s)
     \/ ReissueExpiredLink(c, s)
     \/ \E p \in Passwords : HandlePassword(c, s, p)
     \/ RequestRescan(c, s)
     \/ HandleBounce(c)
     \/ MailerReplies(c, s)
     \/ ResubmitBegins(c, s)
     \/ TargetFails(c, s)
     \/ RescanFails(c, s)
     \/ OutcomeFails(c, s)
     \/ ConfirmFails(c, s)
     \/ \E k \in Sweeps : SweepBegins(k, c, s) \/ SweepGoesOn(k, c, s)
  /\ OnlyPollersCover
  /\ Forgets
  /\ UNCHANGED exVars

\* A resumed poller has the whole window before it again.
CrashOrRestart ==
  /\ \/ Crash /\ OnlyPollersCover
     \/ Restart /\ covers' = PerSlot(taken)
  /\ Forgets
  /\ UNCHANGED exVars

ApplianceStep == EX!Analyse /\ UNCHANGED <<vars, target, answer, covers>>

SystemNext ==
  \/ \E c \in Cases, s \in Slots :
       \/ AnswersTarget(c, s) \/ AnswersRescan(c, s) \/ AnswersQuery(c, s)
       \/ FindTarget(c, s)
       \/ CommandRescan(c, s)
       \/ PollInWindow(c, s)
       \/ IsPushed(c, s)
       \/ ReadVerdict(c, s)
       \/ Apart(c, s)
  \/ CrashOrRestart
  \/ ApplianceStep

SystemSpec == SystemInit /\ [][SystemNext]_allVars

-------------------------------------------------------------------------------
(* Properties *)

\* The variables of the composition have their types.
SystemTypeOK ==
  /\ TypeOK
  /\ quarantine \subseteq EX!Entry
  /\ analyses \subseteq EX!Analysis
  /\ taken \in [Cases -> Nat]
  /\ pushed \in [Cases -> SUBSET EX!PushKinds]
  /\ detected \subseteq Cases
  /\ released \subseteq Cases
  /\ target \in [Cases -> [Slots -> Cases]]
  /\ answer \in [Cases -> [Slots -> Answers]]
  /\ covers \in [Cases -> [Slots -> Nat]]

Becomes(c, state) == db[c].state # state /\ db'[c].state = state

\* The dangerous direction: a case is declared released only when EX delivered
\* the e-mail, whatever rounds, pollers, pushes and lost answers overlapped.
\* It rests on the window of the last poll, and on EX keeping the record of a
\* re-detection for as long as it keeps the e-mail.
PassedWhenReleased ==
  [][\A c \in Cases : Becomes(c, "done_passed") => c \in released]_allVars

\* A case is declared quarantined only when EX detected a rescan of that very
\* e-mail again: not for a sibling's record, not while its only rescan is still
\* analysed, and not when that rescan delivered it, however old the answer is
\* by the time it is written.  (Of which round the detection was is another
\* matter.)
QuarantinedWhenDetected ==
  [][\A c \in Cases :
       Becomes(c, "done_quarantined")
         => /\ c \in detected
            /\ taken[c] = 1 => /\ c \notin released
                               /\ \A a \in analyses : a.email # c]_allVars
===============================================================================
