------------------------- MODULE FlowOnApplianceProofs -------------------------
(***************************************************************************)
(* The flow engine on the appliance is a flow engine: what is proved of    *)
(* FlowEngine for any answers holds for the answers the appliance gives.   *)
(* What depends on these answers, the two verdicts, follows below.         *)
(***************************************************************************)
EXTENDS FlowOnAppliance, FlowEngineProofs

\* Every step of the composition is a step of FlowEngine or leaves it alone.
LEMMA SystemStepIsFlowStep ==
  ASSUME [SystemNext]_allVars
  PROVE  [Next]_vars
<1>1. ASSUME NEW c \in Cases, NEW s \in Slots, FindTarget(c, s)
      PROVE  Next
  BY <1>1 DEF FindTarget, Next, Resumes
<1>2. ASSUME NEW c \in Cases, NEW s \in Slots, CommandRescan(c, s)
      PROVE  Next
  BY <1>2 DEF CommandRescan, Next, Resumes
<1>3. ASSUME NEW c \in Cases, NEW s \in Slots, PollInWindow(c, s)
      PROVE  Next
  BY <1>3 DEF PollInWindow, Next, Resumes
<1>4. ASSUME NEW c \in Cases, NEW s \in Slots, IsPushed(c, s) \/ ReadVerdict(c, s)
      PROVE  Next
  BY <1>4 DEF IsPushed, ReadVerdict, Next, Resumes, Called
<1>5. ASSUME NEW c \in Cases, NEW s \in Slots, Apart(c, s)
      PROVE  Next
  BY <1>5 DEF Apart, Next, Resumes, Called
<1>6. ASSUME CrashOrRestart
      PROVE  Next
  BY <1>6 DEF CrashOrRestart, Next
<1>7. ASSUME NEW c \in Cases, NEW s \in Slots,
             AnswersTarget(c, s) \/ AnswersRescan(c, s) \/ AnswersQuery(c, s)
      PROVE  UNCHANGED vars
  BY <1>7 DEF AnswersTarget, AnswersRescan, AnswersQuery
<1>8. ASSUME ApplianceStep \/ UNCHANGED allVars
      PROVE  UNCHANGED vars
  BY <1>8 DEF ApplianceStep, allVars
<1> QED
  BY <1>1, <1>2, <1>3, <1>4, <1>5, <1>6, <1>7, <1>8 DEF SystemNext

\* The composition implements FlowEngine.
THEOREM SystemIsFlow == SystemSpec => Spec
<1>1. SystemInit => Init
  BY DEF SystemInit
<1>2. [SystemNext]_allVars => [Next]_vars
  BY SystemStepIsFlowStep
<1> QED
  BY <1>1, <1>2, PTL DEF SystemSpec, Spec

\* So no password outlives its rescan, and no verdict is unearned, whatever
\* the appliance does.
THEOREM SystemKeepsInvariants ==
  SystemSpec => [](TypeOK /\ PurgedOnceResubmitted /\ VerdictFollowsRescan)
BY SystemIsFlow, TypeCorrect, OnlyTheHashRemains, VerdictIsEarned, PTL

\* And the flow on the appliance is the lifecycle its users see.
THEOREM SystemIsLifecycle == SystemSpec => ImplementsCaseLifecycle
BY SystemIsFlow, FlowIsLifecycle, PTL

-------------------------------------------------------------------------------
(***************************************************************************)
(* Steps that concern neither a poller nor a verdict.                      *)
(***************************************************************************)

\* The waits of a poller, and of whoever asks for a verdict.
PollWaits == {"sleep", "outcome", "confirm"}

\* No coroutine starts, ends or goes on with such a wait.
Quiet ==
  \A d \in Cases, t \in Slots :
    jobs'[d][t] = jobs[d][t] \/ jobs'[d][t].pc \notin PollWaits

\* No audit row is added, and no verdict is written.
Plain(r, n) == n.hashes = r.hashes /\ (n.state = r.state \/ n.state \notin Verdicts)
AllPlain == \A d \in Cases : Plain(db[d], db'[d])

\* Every transaction but those of a rescan and a verdict is plain.
LEMMA PlainWrites ==
  ASSUME NEW r \in Row
  PROVE  /\ \A s \in FlowState \ Verdicts : \A n : Writes(Single(SetState(r, s)), n) => Plain(r, n)
         /\ \A n : Writes(AskedAgain(r), n) => Plain(r, n)
         /\ \A n : Writes(SendFailed(r), n) => Plain(r, n)
         /\ \A p, n : Writes(PasswordAccepted(r, p), n) => Plain(r, n)
         /\ \A n : Writes(ResubmitFailed(r), n) => Plain(r, n)
         /\ \A n : Writes(GivenUp(r), n) => Plain(r, n)
         /\ \A n : Writes(Single(IncrementAttempts(r)), n) => Plain(r, n)
         /\ \A held, n : Writes(Finish(r, held), n) => n.hashes = r.hashes
<1> USE DEF Row, Writes, Plain, Single, SetState, Verdicts
<1>1. \A s \in FlowState \ Verdicts : \A n : Writes(Single(SetState(r, s)), n) => Plain(r, n)
  OBVIOUS
<1>2. \A n : Writes(AskedAgain(r), n) => Plain(r, n)
  BY DEF AskedAgain
<1>3. \A n : Writes(SendFailed(r), n) => Plain(r, n)
  BY DEF SendFailed, IncrementNotify
<1>4. \A p, n : Writes(PasswordAccepted(r, p), n) => Plain(r, n)
  BY DEF PasswordAccepted, StorePassword
<1>5. \A n : Writes(ResubmitFailed(r), n) => Plain(r, n)
  BY DEF ResubmitFailed, IncrementResubmit
<1>6. \A n : Writes(GivenUp(r), n) => Plain(r, n)
  BY DEF GivenUp, IncrementAttempts
<1>7. \A n : Writes(Single(IncrementAttempts(r)), n) => Plain(r, n)
  BY DEF IncrementAttempts
<1>8. \A held, n : Writes(Finish(r, held), n) => n.hashes = r.hashes
  BY DEF Finish, ClearPassword
<1> QED
  BY <1>1, <1>2, <1>3, <1>4, <1>5, <1>6, <1>7, <1>8

\* A commit of a plain write is plain.
LEMMA CommitPlain ==
  ASSUME TypeOK, NEW c \in Cases, NEW w, NEW running, Commit(c, w, running),
         \A n : Writes(w, n) => Plain(db[c], n)
  PROVE  AllPlain
BY CommitWrites DEF AllPlain, Plain

\* So is a step without a write.
LEMMA UnchangedPlain == UNCHANGED db => AllPlain
BY DEF AllPlain, Plain

\* Starting or ending a coroutine that asks for no verdict is quiet.
LEMMA RunQuiet ==
  ASSUME TypeOK, NEW c \in Cases, NEW s \in Slots, NEW j, j.pc \notin PollWaits,
         jobs' = Run(c, s, j)
  PROVE  Quiet
BY RunEffect DEF Quiet

\* Ending one is, whatever it was.
LEMMA EndQuiet ==
  ASSUME TypeOK, NEW c \in Cases, NEW s \in Slots, jobs' = End(c, s)
  PROVE  Quiet
BY RunQuiet DEF End, Idle, NewJob, PollWaits

\* A commit is quiet, also when it is cut off.
LEMMA CommitQuiet ==
  ASSUME TypeOK, NEW c \in Cases, NEW s \in Slots, NEW w, NEW running,
         Commit(c, w, running),
         \/ running = jobs
         \/ running = End(c, s)
         \/ \E j : j.pc \notin PollWaits /\ running = Run(c, s, j)
  PROVE  Quiet
<1>1. CASE jobs' = NoJobs
  BY <1>1 DEF Quiet, NoJobs, Idle, NewJob, PollWaits
<1>2. CASE jobs' = running
  BY <1>2, RunQuiet, EndQuiet DEF Quiet
<1> QED
  BY <1>1, <1>2 DEF Commit

\* The first segment of resubmit_case.
LEMMA BeginQuiet ==
  ASSUME TypeOK, NEW c \in Cases, NEW s \in Slots, NEW by, BeginResubmit(c, s, by)
  PROVE  Quiet /\ AllPlain
<1>1. Quiet
  <2>1. CASE jobs' = End(c, s)
    BY <2>1, EndQuiet
  <2>2. CASE jobs' = Run(c, s, [NewJob("target", by) EXCEPT !.pwd = db[c].pwd_enc])
    <3>1. PICK j : j.pc = "target" /\ jobs' = Run(c, s, j)
      BY <2>2 DEF NewJob
    <3> QED
      BY <3>1, RunQuiet DEF PollWaits
  <2> QED
    BY <2>1, <2>2 DEF BeginResubmit
<1>2. AllPlain
  <2>1. CASE db' = [db EXCEPT ![c] = SetState(@, "resubmit_failed")]
    BY <2>1 DEF AllPlain, Plain, SetState, TypeOK, Row, Verdicts
  <2> QED
    BY <2>1, UnchangedPlain DEF BeginResubmit
<1> QED
  BY <1>1, <1>2

\* Of the steps apart from the appliance only a failed poll concerns a poller.
LEMMA ApartQuiet ==
  ASSUME TypeOK, NEW c \in Cases, NEW s \in Slots, Apart(c, s), ~OutcomeFails(c, s)
  PROVE  Quiet /\ AllPlain
<1>0. db[c] \in Row
  BY DEF TypeOK
<1> USE CommitPlain, CommitQuiet, PlainWrites, UnchangedPlain, RunQuiet, EndQuiet
<1>a. \A pc \in {"send", "scheduled", "target"} : \A by : NewJob(pc, by).pc \notin PollWaits
  BY DEF NewJob, PollWaits
<1>1. CASE HandleAlert(c, s)
  <2>1. AllPlain
    <3>1. CASE db' = [db EXCEPT ![c] = SetState(@, "received")]
      BY <3>1 DEF AllPlain, Plain, SetState, TypeOK, Row, Verdicts
    <3> QED
      BY <1>1, <3>1 DEF HandleAlert
  <2> QED
    BY <1>1, <1>a, <2>1 DEF HandleAlert
<1>2. CASE Resend(c, s) \/ ReissueExpiredLink(c, s)
  BY <1>2, <1>a DEF Resend, ReissueExpiredLink, SendAgain
<1>3. ASSUME NEW p \in Passwords, HandlePassword(c, s, p)
      PROVE  Quiet /\ AllPlain
  BY <1>0, <1>3, <1>a DEF HandlePassword
<1>4. CASE RequestRescan(c, s) \/ ResubmitBegins(c, s)
  BY <1>4, BeginQuiet DEF RequestRescan, ResubmitBegins
<1>5. CASE HandleBounce(c)
  BY <1>0, <1>5 DEF HandleBounce, FlowState, Verdicts
<1>6. CASE MailerReplies(c, s)
  BY <1>0, <1>6 DEF MailerReplies
<1>7. CASE TargetFails(c, s) \/ RescanFails(c, s) \/ ConfirmFails(c, s)
  BY <1>0, <1>7 DEF TargetFails, RescanFails, ConfirmFails
<1>8. ASSUME NEW k \in Sweeps, SweepBegins(k, c, s) \/ SweepGoesOn(k, c, s)
      PROVE  Quiet /\ AllPlain
  BY <1>8, <1>a, BeginQuiet DEF SweepBegins, SweepGoesOn, Visit
<1> QED
  BY <1>1, <1>2, <1>3, <1>4, <1>5, <1>6, <1>7, <1>8 DEF Apart

-------------------------------------------------------------------------------
(***************************************************************************)
(* The two verdicts: no case is declared released before EX delivered its  *)
(* e-mail (PassedWhenReleased), and none quarantined without a             *)
(* re-detection of it (QuarantinedWhenDetected), for any set of e-mails,   *)
(* siblings or not, and any overlap of rounds, pollers, pushes, lost       *)
(* answers and crashes.                                                    *)
(***************************************************************************)

\* EX recorded a re-detection of the e-mail, or delivered it.
Decided(c) == EX!Reanalysis(c) \in quarantine \/ c \in released

\* The list keeps an undelivered e-mail, and a rescan it took is under
\* analysis until there is a record of what it found.
RecordsKept ==
  \A c \in Cases :
    /\ EX!Original(c) \in quarantine \/ c \in released
    /\ taken[c] > 0 => Decided(c) \/ \E a \in analyses : a.email = c /\ a.id <= 1
    /\ "other" \in pushed[c] => Decided(c)

\* An undelivered e-mail is the one its own case rescans.
TargetsOwn == \A c \in Cases, s \in Slots : target[c][s] = c \/ c \in released

\* The audit row of a rescan is no older than the rescan.
HashesTaken == \A c \in Cases : db[c].hashes > 0 => taken[c] > 0 \/ c \in released

\* What a coroutine that waits for a verdict may rely on.
PollerOK(c, s) ==
  LET j == jobs[c][s]
  IN  /\ j.pc \in {"sleep", "outcome"}
           => j.left > 0 /\ (covers[c][s] > 0 \/ c \in released)
      /\ j.pc = "outcome" /\ j.left <= 1 => Decided(c)
      /\ j.pc = "confirm" => Decided(c)

CoversTaken == \A c \in Cases, s \in Slots : covers[c][s] <= taken[c]
PollersOK == \A c \in Cases, s \in Slots : PollerOK(c, s)

\* An answer stays true while it waits to be read, as far as it matters.
AnswersTrue ==
  \A c \in Cases, s \in Slots :
    /\ answer[c][s] \in {"released", "absent"} => c \in released
    /\ answer[c][s] = "taken" => taken[c] > 0 \/ c \in released

ReleaseInv ==
  RecordsKept /\ TargetsOwn /\ AnswersTrue /\ HashesTaken /\ CoversTaken /\ PollersOK

-------------------------------------------------------------------------------
(* Types *)

\* Whatever the appliance does, its variables keep their types.
LEMMA ExTypes ==
  ASSUME SystemTypeOK,
         \/ \E e \in Cases, right \in BOOLEAN : EX!TakeRescan(e, right)
         \/ EX!Analyse
         \/ UNCHANGED exVars
  PROVE  /\ quarantine' \subseteq EX!Entry
         /\ analyses' \subseteq EX!Analysis
         /\ taken' \in [Cases -> Nat]
         /\ pushed' \in [Cases -> SUBSET EX!PushKinds]
         /\ detected' \subseteq Cases
         /\ released' \subseteq Cases
<1>1. ASSUME NEW e \in Cases, NEW right \in BOOLEAN, EX!TakeRescan(e, right)
      PROVE  /\ analyses' \subseteq EX!Analysis
             /\ taken' \in [Cases -> Nat]
             /\ UNCHANGED <<quarantine, pushed, detected, released>>
  <2>1. taken[e] + 1 \in Nat \ {0}
    BY DEF SystemTypeOK
  <2> QED
    BY <1>1, <2>1 DEF EX!TakeRescan, EX!Analysis, EX!Results, SystemTypeOK
<1>2. ASSUME NEW a \in analyses,
             EX!Detect(a) \/ EX!Release(a) \/ EX!Delivered(a)
      PROVE  /\ quarantine' \subseteq EX!Entry
             /\ pushed' \in [Cases -> SUBSET EX!PushKinds]
             /\ detected' \subseteq Cases
             /\ released' \subseteq Cases
  <2>0. a.email \in Cases
    BY DEF SystemTypeOK, EX!Analysis
  <2>1. CASE EX!Detect(a)
    <3>1. EX!Reanalysis(a.email) \in EX!Entry
      BY <2>0 DEF EX!Reanalysis, EX!Entry
    <3> QED
      BY <2>0, <2>1, <3>1 DEF EX!Detect, SystemTypeOK
  <2>2. CASE EX!Release(a)
    <3>1. quarantine' \subseteq EX!Entry
      BY <2>2 DEF EX!Release, SystemTypeOK
    <3> QED
      BY <2>0, <2>2, <3>1 DEF EX!Release, EX!PushKinds, SystemTypeOK
  <2>3. CASE EX!Delivered(a)
    BY <2>3 DEF EX!Delivered, SystemTypeOK
  <2> QED
    BY <1>2, <2>1, <2>2, <2>3
<1>3. CASE EX!Analyse
  <2>1. /\ analyses' \subseteq EX!Analysis
        /\ taken' \in [Cases -> Nat]
    BY <1>3 DEF EX!Analyse, SystemTypeOK
  <2> QED
    BY <1>2, <1>3, <2>1 DEF EX!Analyse
<1>4. CASE UNCHANGED exVars
  BY <1>4 DEF exVars, SystemTypeOK
<1> QED
  BY <1>1, <1>3, <1>4 DEF SystemTypeOK

\* The appliance takes a rescan, analyses one, or is left alone.
LEMMA ExSteps ==
  ASSUME SystemTypeOK, [SystemNext]_allVars
  PROVE  \/ \E e \in Cases, right \in BOOLEAN : EX!TakeRescan(e, right)
         \/ EX!Analyse
         \/ UNCHANGED exVars
<1>1. ASSUME NEW c \in Cases, NEW s \in Slots, AnswersRescan(c, s)
      PROVE  \/ \E e \in Cases, right \in BOOLEAN : EX!TakeRescan(e, right)
             \/ UNCHANGED exVars
  <2>1. target[c][s] \in Cases /\ Right(c, s) \in BOOLEAN
    BY DEF SystemTypeOK, Right
  <2> QED
    BY <1>1, <2>1 DEF AnswersRescan
<1>2. ASSUME NEW c \in Cases, NEW s \in Slots,
             \/ AnswersTarget(c, s) \/ AnswersQuery(c, s) \/ FindTarget(c, s)
             \/ CommandRescan(c, s) \/ PollInWindow(c, s) \/ IsPushed(c, s)
             \/ ReadVerdict(c, s) \/ Apart(c, s)
      PROVE  UNCHANGED exVars
  BY <1>2 DEF AnswersTarget, AnswersQuery, FindTarget, CommandRescan, PollInWindow,
              IsPushed, ReadVerdict, Apart
<1>3. CASE CrashOrRestart \/ ApplianceStep \/ UNCHANGED allVars
  BY <1>3 DEF CrashOrRestart, ApplianceStep, allVars
<1> QED
  BY <1>1, <1>2, <1>3 DEF SystemNext

\* The appliance answers a coroutine.
AnswerStep(c, s) == AnswersTarget(c, s) \/ AnswersRescan(c, s) \/ AnswersQuery(c, s)

\* Only an answer to rescan_target sets a target,
LEMMA TargetSorts ==
  ASSUME [SystemNext]_allVars
  PROVE  \/ Forgets \/ UNCHANGED target
         \/ \E c \in Cases, s \in Slots : AnswersTarget(c, s)
BY DEF SystemNext, AnswersRescan, AnswersQuery, FindTarget, CommandRescan, PollInWindow,
       IsPushed, ReadVerdict, Apart, CrashOrRestart, ApplianceStep, allVars

\* and only an answer is an answer.
LEMMA AnswerSorts ==
  ASSUME [SystemNext]_allVars
  PROVE  \/ Forgets \/ UNCHANGED answer
         \/ \E c \in Cases, s \in Slots : AnswerStep(c, s)
BY DEF SystemNext, AnswerStep, FindTarget, CommandRescan, PollInWindow,
       IsPushed, ReadVerdict, Apart, CrashOrRestart, ApplianceStep, allVars

\* Every step keeps every variable typed.
LEMMA SystemTypeStep ==
  ASSUME SystemTypeOK, [SystemNext]_allVars
  PROVE  SystemTypeOK'
<1>1. TypeOK'
  BY SystemStepIsFlowStep, TypeStep DEF SystemTypeOK
<1>2. /\ quarantine' \subseteq EX!Entry
      /\ analyses' \subseteq EX!Analysis
      /\ taken' \in [Cases -> Nat]
      /\ pushed' \in [Cases -> SUBSET EX!PushKinds]
      /\ detected' \subseteq Cases
      /\ released' \subseteq Cases
  BY ExSteps, ExTypes
<1>3. target' \in [Cases -> [Slots -> Cases]]
  <2>1. ASSUME NEW c \in Cases, NEW s \in Slots, AnswersTarget(c, s)
        PROVE  target' \in [Cases -> [Slots -> Cases]]
    <3>1. EX!RescanTargets(c) \subseteq quarantine
      BY DEF EX!RescanTargets, EX!Narrowed
    <3>2. \A x \in EX!RescanTargets(c) : x.email \in Cases
      BY <3>1 DEF SystemTypeOK, EX!Entry
    <3>3. \A e \in Cases : [target EXCEPT ![c][s] = e] \in [Cases -> [Slots -> Cases]]
      BY DEF SystemTypeOK
    <3>4. target \in [Cases -> [Slots -> Cases]]
      BY DEF SystemTypeOK
    <3>5. \/ UNCHANGED target
          \/ \E x \in EX!RescanTargets(c) : target' = [target EXCEPT ![c][s] = x.email]
      BY <2>1 DEF AnswersTarget
    <3>6. CASE UNCHANGED target
      BY <3>4, <3>6
    <3>7. ASSUME NEW x \in EX!RescanTargets(c), target' = [target EXCEPT ![c][s] = x.email]
          PROVE  target' \in [Cases -> [Slots -> Cases]]
      BY <3>2, <3>3, <3>7
    <3> QED
      BY <3>5, <3>6, <3>7
  <2>2. CASE Forgets
    BY <2>2 DEF Forgets, SystemTypeOK
  <2>3. CASE UNCHANGED target
    BY <2>3 DEF SystemTypeOK
  <2> QED
    BY <2>1, <2>2, <2>3, TargetSorts
<1>4. answer' \in [Cases -> [Slots -> Answers]]
  <2>1. CASE Forgets \/ UNCHANGED answer
    BY <2>1 DEF Forgets, Answers, SystemTypeOK
  <2>2. ASSUME NEW c \in Cases, NEW s \in Slots, NEW a \in Answers, Answered(c, s, a)
        PROVE  answer' \in [Cases -> [Slots -> Answers]]
    BY <2>2 DEF Answered, SystemTypeOK
  <2>3. ASSUME NEW c \in Cases, NEW s \in Slots, AnswerStep(c, s)
        PROVE  \E a \in Answers : Answered(c, s, a)
    <3>1. EX!Outcome(c) \in Answers
      BY DEF EX!Outcome, Answers, ResubmissionOutcome
    <3>2. \A a \in {"found", "missing", "taken", "refused", "held", "absent"} : a \in Answers
      BY DEF Answers, ResubmissionOutcome
    <3> QED
      BY <2>3, <3>1, <3>2 DEF AnswerStep, AnswersTarget, AnswersRescan, AnswersQuery
  <2> QED
    BY <2>1, <2>2, <2>3, AnswerSorts
<1>5. covers' \in [Cases -> [Slots -> Nat]]
  <2>1. CASE OnlyPollersCover
    BY <2>1 DEF OnlyPollersCover, SystemTypeOK
  <2>2. ASSUME NEW c \in Cases, NEW s \in Slots, CommandRescan(c, s)
        PROVE  covers' \in [Cases -> [Slots -> Nat]]
    <3>1. [covers EXCEPT ![c][s] = taken[c]] \in [Cases -> [Slots -> Nat]]
      BY DEF SystemTypeOK
    <3> QED
      BY <2>2, <3>1 DEF CommandRescan, SystemTypeOK
  <2>3. CASE covers' = PerSlot(taken)
    BY <2>3 DEF PerSlot, SystemTypeOK
  <2>4. CASE UNCHANGED covers
    BY <2>4 DEF SystemTypeOK
  <2> QED
    BY <2>1, <2>2, <2>3, <2>4
       DEF SystemNext, AnswersTarget, AnswersRescan, AnswersQuery, FindTarget,
           PollInWindow, IsPushed, ReadVerdict, Apart, CrashOrRestart, ApplianceStep,
           allVars
<1> QED
  BY <1>1, <1>2, <1>3, <1>4, <1>5 DEF SystemTypeOK

\* The initial state is typed.
LEMMA SystemTypeInit == SystemInit => SystemTypeOK
<1> SUFFICES ASSUME SystemInit PROVE SystemTypeOK
  OBVIOUS
<1>1. TypeOK
  BY TypeInit DEF SystemInit
<1>2. /\ quarantine \subseteq EX!Entry
      /\ analyses \subseteq EX!Analysis
      /\ taken \in [Cases -> Nat]
      /\ pushed \in [Cases -> SUBSET EX!PushKinds]
      /\ detected \subseteq Cases
      /\ released \subseteq Cases
  BY DEF SystemInit, EX!ExInit, EX!Entry, EX!Original
<1>3. /\ target \in [Cases -> [Slots -> Cases]]
      /\ answer \in [Cases -> [Slots -> Answers]]
      /\ covers \in [Cases -> [Slots -> Nat]]
  BY DEF SystemInit, PerSlot, Answers
<1> QED
  BY <1>1, <1>2, <1>3 DEF SystemTypeOK
-------------------------------------------------------------------------------
(* The appliance *)

\* Deliveries, accepted rescans and records are not taken back.
Grows ==
  /\ released \subseteq released'
  /\ detected \subseteq detected'
  /\ \A c \in Cases : taken[c] <= taken'[c]
  /\ \A c \in Cases : Decided(c) => Decided(c)'

\* An analysis ends with a record or a delivery, and undoes neither.
LEMMA AnalysisRecords ==
  ASSUME SystemTypeOK, NEW a \in analyses,
         \/ EX!Detect(a)
         \/ EX!Release(a)
         \/ EX!Delivered(a)
  PROVE  /\ released \subseteq released'
         /\ detected \subseteq detected'
         /\ Decided(a.email)'
         /\ \A c \in Cases : Decided(c) => Decided(c)'
         /\ \A c \in Cases : EX!Original(c) \in quarantine \/ c \in released
                               => EX!Original(c) \in quarantine' \/ c \in released'
         /\ \A c \in Cases \ {a.email} : pushed'[c] = pushed[c]
<1>0. a.email \in Cases
  BY DEF SystemTypeOK, EX!Analysis
<1>1. CASE EX!Detect(a)
  BY <1>0, <1>1 DEF EX!Detect, Decided, SystemTypeOK
<1>2. CASE EX!Release(a)
  <2>1. \A x \in quarantine : x.email # a.email => x \in quarantine'
    BY <1>2 DEF EX!Release
  <2>2. \A c \in Cases : EX!Original(c).email = c /\ EX!Reanalysis(c).email = c
    BY DEF EX!Original, EX!Reanalysis
  <2>3. released' = released \cup {a.email} /\ UNCHANGED detected
    BY <1>2 DEF EX!Release
  <2>4. \A c \in Cases \ {a.email} : pushed'[c] = pushed[c]
    BY <1>0, <1>2 DEF EX!Release, SystemTypeOK
  <2> QED
    BY <2>1, <2>2, <2>3, <2>4 DEF Decided
<1>3. CASE EX!Delivered(a)
  BY <1>3 DEF EX!Delivered, Decided
<1> QED
  BY <1>1, <1>2, <1>3

\* No step of the system takes anything back.
LEMMA ExGrows ==
  ASSUME SystemTypeOK, [SystemNext]_allVars
  PROVE  Grows
<1>1. ASSUME NEW e \in Cases, NEW right \in BOOLEAN, EX!TakeRescan(e, right)
      PROVE  Grows
  BY <1>1 DEF EX!TakeRescan, Grows, Decided, SystemTypeOK
<1>2. CASE EX!Analyse
  <2>1. PICK a \in analyses :
          /\ \/ EX!Detect(a)
             \/ EX!Release(a)
             \/ EX!Delivered(a)
          /\ UNCHANGED taken
    BY <1>2 DEF EX!Analyse
  <2> QED
    BY <2>1, AnalysisRecords DEF Grows, SystemTypeOK
<1>3. CASE UNCHANGED exVars
  BY <1>3 DEF exVars, Grows, Decided, SystemTypeOK
<1> QED
  BY <1>1, <1>2, <1>3, ExSteps

\* Records outlive the analyses they come from.
LEMMA RecordsStep ==
  ASSUME SystemTypeOK, RecordsKept, [SystemNext]_allVars
  PROVE  RecordsKept'
<1>1. ASSUME NEW e \in Cases, NEW right \in BOOLEAN, EX!TakeRescan(e, right)
      PROVE  RecordsKept'
  <2>1. UNCHANGED <<quarantine, pushed, released>> /\ analyses \subseteq analyses'
    BY <1>1 DEF EX!TakeRescan
  <2>2. PICK a \in analyses' : a.email = e /\ a.id = taken[e] + 1
    <3> DEFINE a == [email |-> e, id |-> taken[e] + 1,
                     result |-> IF ~right THEN "encrypted"
                                ELSE IF e \in Harmful THEN "malicious" ELSE "clean"]
    <3>1. a \in analyses'
      BY <1>1 DEF EX!TakeRescan
    <3>2. a.email = e /\ a.id = taken[e] + 1
      OBVIOUS
    <3> QED
      BY <3>1, <3>2
  <2>3. \A c \in Cases : taken[c] = 0 /\ taken'[c] > 0
                           => \E b \in analyses' : b.email = c /\ b.id <= 1
    BY <1>1, <2>2 DEF EX!TakeRescan, SystemTypeOK
  <2>4. \A c \in Cases : taken[c] \in Nat
    BY DEF SystemTypeOK
  <2> QED
    BY <2>1, <2>3, <2>4 DEF RecordsKept, Decided
<1>2. CASE EX!Analyse
  <2>1. PICK a \in analyses :
          /\ \/ EX!Detect(a)
             \/ EX!Release(a)
             \/ EX!Delivered(a)
          /\ analyses' = analyses \ {a}
          /\ UNCHANGED taken
    BY <1>2 DEF EX!Analyse
  <2>2. SUFFICES ASSUME NEW c \in Cases
                 PROVE  /\ EX!Original(c) \in quarantine' \/ c \in released'
                        /\ \/ ~(taken'[c] > 0)
                           \/ Decided(c)'
                           \/ \E b \in analyses' : b.email = c /\ b.id <= 1
                        /\ "other" \in pushed'[c] => Decided(c)'
    BY DEF RecordsKept
  <2>3. CASE c = a.email
    BY <2>1, <2>3, AnalysisRecords DEF RecordsKept
  <2>4. CASE c # a.email
    <3>1. \A b \in analyses : b.email = c => b \in analyses'
      BY <2>1, <2>4
    <3> QED
      BY <2>1, <2>4, <3>1, AnalysisRecords DEF RecordsKept
  <2> QED
    BY <2>3, <2>4
<1>3. CASE UNCHANGED exVars
  BY <1>3 DEF exVars, RecordsKept, Decided
<1> QED
  BY <1>1, <1>2, <1>3, ExSteps
-------------------------------------------------------------------------------
(***************************************************************************)
(* What a step does to the pollers and the rows: nothing that matters      *)
(* here, or one of the steps of a poller or of a verdict.                  *)
(***************************************************************************)

\* A poller that goes on covers what it covered.
KeepsCovers == OnlyPollersCover \/ UNCHANGED covers

\* A rescan was accepted, and the answer arrived.
Accepted(c, s) ==
  /\ RescanAccepted(c, s)
  /\ answer[c][s] = "taken"
  /\ covers' = [covers EXCEPT ![c][s] = taken[c]]

\* A poller reads an answer, and so does a confirmation.
PollerReads(c, s, outcome) ==
  outcome \in ResubmissionOutcome /\ answer[c][s] = outcome /\ OutcomeIs(c, s, outcome)
ConfirmReads(c, s, held) ==
  /\ held \in BOOLEAN
  /\ answer[c][s] = IF held THEN "held" ELSE "absent"
  /\ ConfirmIs(c, s, held)

\* A confirmation is asked for, or an answer is read, or does not come.
Asked(c, s) ==
  /\ \/ "other" \in pushed[c] /\ HandleOtherPush(c, s)
     \/ \E outcome : PollerReads(c, s, outcome)
     \/ \E held : ConfirmReads(c, s, held)
     \/ OutcomeFails(c, s)
  /\ OnlyPollersCover

\* The pollers are resumed.
TakenUpAgain == Restart /\ covers' = PerSlot(taken) /\ UNCHANGED taken

\* The steps of the system, as the proofs below go through them.
LEMMA SystemSorts ==
  ASSUME SystemTypeOK, [SystemNext]_allVars
  PROVE  \/ Quiet /\ AllPlain /\ KeepsCovers
         \/ \E c \in Cases, s \in Slots :
              Accepted(c, s) \/ PollInWindow(c, s) \/ Asked(c, s)
         \/ TakenUpAgain
<1>0. TypeOK
  BY DEF SystemTypeOK
<1> USE <1>0, CommitPlain, CommitQuiet, PlainWrites, UnchangedPlain, RunQuiet, EndQuiet
<1>1. ASSUME NEW c \in Cases, NEW s \in Slots, FindTarget(c, s)
      PROVE  Quiet /\ AllPlain /\ KeepsCovers
  <2>1. CASE TargetFound(c, s)
    <3>1. [jobs[c][s] EXCEPT !.pc = "rescan"].pc \notin PollWaits
      BY DEF PollWaits, TypeOK, Job
    <3> QED
      BY <1>1, <2>1, <3>1 DEF TargetFound, FindTarget, KeepsCovers
  <2>2. CASE TargetMissing(c, s)
    <3>1. db[c] \in Row
      BY DEF TypeOK
    <3> QED
      BY <1>1, <2>2, <3>1 DEF TargetMissing, FindTarget, KeepsCovers
  <2> QED
    BY <1>1, <2>1, <2>2 DEF FindTarget
<1>2. ASSUME NEW c \in Cases, NEW s \in Slots, RescanRefused(c, s)
      PROVE  Quiet /\ AllPlain
  <2>1. db[c] \in Row
    BY DEF TypeOK
  <2> QED
    BY <1>2, <2>1 DEF RescanRefused
<1>3. ASSUME NEW c \in Cases, NEW s \in Slots, CommandRescan(c, s)
      PROVE  Accepted(c, s) \/ (Quiet /\ AllPlain /\ KeepsCovers)
  BY <1>2, <1>3 DEF CommandRescan, Accepted, KeepsCovers
<1>4. ASSUME NEW c \in Cases, NEW s \in Slots, AnswerStep(c, s)
      PROVE  Quiet /\ AllPlain /\ KeepsCovers
  BY <1>4 DEF AnswerStep, AnswersTarget, AnswersRescan, AnswersQuery, vars, Quiet, KeepsCovers
<1>5. ASSUME NEW c \in Cases, NEW s \in Slots, HandleWrongPasswordPush(c, s)
      PROVE  Quiet /\ AllPlain
  <2>1. db[c] \in Row
    BY DEF TypeOK
  <2>2. NewJob("send", "direct").pc \notin PollWaits
    BY DEF NewJob, PollWaits
  <2> QED
    BY <1>5, <2>1, <2>2 DEF HandleWrongPasswordPush
<1>6. ASSUME NEW c \in Cases, NEW s \in Slots, IsPushed(c, s) \/ ReadVerdict(c, s)
      PROVE  Asked(c, s) \/ (Quiet /\ AllPlain /\ KeepsCovers)
  BY <1>5, <1>6
     DEF IsPushed, ReadVerdict, Asked, PollerReads, ConfirmReads, KeepsCovers
<1>7. ASSUME NEW c \in Cases, NEW s \in Slots, Apart(c, s)
      PROVE  Asked(c, s) \/ (Quiet /\ AllPlain /\ KeepsCovers)
  <2>1. OnlyPollersCover
    BY <1>7 DEF Apart
  <2> QED
    BY <1>7, <2>1, ApartQuiet DEF Asked, KeepsCovers
<1>8. CASE CrashOrRestart
  <2>1. CASE Crash /\ OnlyPollersCover
    <3>1. Quiet
      BY <2>1 DEF Crash, Quiet, NoJobs, Idle, NewJob, PollWaits
    <3>2. AllPlain
      BY <2>1 DEF Crash
    <3> QED
      BY <2>1, <3>1, <3>2 DEF KeepsCovers
  <2> QED
    BY <1>8, <2>1 DEF CrashOrRestart, TakenUpAgain, exVars
<1>9. CASE ApplianceStep \/ UNCHANGED allVars
  BY <1>9 DEF ApplianceStep, allVars, vars, Quiet, KeepsCovers
<1> QED
  BY <1>1, <1>3, <1>4, <1>6, <1>7, <1>8, <1>9 DEF SystemNext, AnswerStep
-------------------------------------------------------------------------------
(* Targets, audit rows, covers *)

\* The entry a case rescans is its own, or the e-mail left the list.
LEMMA TargetsStep ==
  ASSUME SystemTypeOK, RecordsKept, TargetsOwn, [SystemNext]_allVars
  PROVE  TargetsOwn'
<1>0. released \subseteq released'
  BY ExGrows DEF Grows
<1>1. ASSUME NEW c \in Cases, NEW s \in Slots, AnswersTarget(c, s)
      PROVE  TargetsOwn'
  <2>1. ASSUME NEW x \in EX!RescanTargets(c), c \notin released
        PROVE  x.email = c
    <3>1. EX!Original(c) \in quarantine
      BY <2>1 DEF RecordsKept
    <3>2. EX!Original(c).email = c /\ EX!Original(c).kind = "original"
      BY DEF EX!Original
    <3> QED
      BY <2>1, <3>1, <3>2 DEF EX!RescanTargets, EX!Narrowed
  <2>2. CASE UNCHANGED target
    BY <1>0, <2>2 DEF TargetsOwn
  <2>3. ASSUME NEW x \in EX!RescanTargets(c), target' = [target EXCEPT ![c][s] = x.email]
        PROVE  TargetsOwn'
    BY <1>0, <2>1, <2>3 DEF TargetsOwn, SystemTypeOK
  <2> QED
    BY <1>1, <2>2, <2>3 DEF AnswersTarget
<1>2. CASE Forgets \/ UNCHANGED target
  BY <1>0, <1>2 DEF Forgets, TargetsOwn
<1> QED
  BY <1>1, <1>2, TargetSorts

\* An answer was true when it was given, and EX takes nothing back.
LEMMA AnswersStep ==
  ASSUME SystemTypeOK, ReleaseInv, [SystemNext]_allVars
  PROVE  AnswersTrue'
<1> SUFFICES ASSUME NEW d \in Cases, NEW t \in Slots
             PROVE  /\ answer'[d][t] \in {"released", "absent"} => d \in released'
                    /\ answer'[d][t] = "taken" => taken'[d] > 0 \/ d \in released'
  BY DEF AnswersTrue
<1>0. /\ released \subseteq released'
      /\ taken[d] \in Nat /\ taken'[d] \in Nat /\ taken[d] <= taken'[d]
  BY ExGrows, SystemTypeStep DEF Grows, SystemTypeOK
<1>1. CASE answer'[d][t] \in {answer[d][t], "none"}
  BY <1>0, <1>1 DEF ReleaseInv, AnswersTrue
<1>2. CASE Forgets \/ UNCHANGED answer
  BY <1>1, <1>2 DEF Forgets
<1>3. ASSUME NEW c \in Cases, NEW s \in Slots, NEW a, Answered(c, s, a)
      PROVE  /\ d = c /\ t = s => answer'[d][t] = a
             /\ ~(d = c /\ t = s) => answer'[d][t] = answer[d][t]
  BY <1>3 DEF Answered, SystemTypeOK
<1>4. ASSUME NEW c \in Cases, NEW s \in Slots, AnswerStep(c, s), ~(d = c /\ t = s)
      PROVE  answer'[d][t] = answer[d][t]
  BY <1>3, <1>4 DEF AnswerStep, AnswersTarget, AnswersRescan, AnswersQuery
<1>5. CASE AnswersTarget(d, t)
  <2>1. answer'[d][t] \in {"found", "missing"}
    BY <1>3, <1>5 DEF AnswersTarget
  <2> QED
    BY <2>1
<1>6. CASE AnswersRescan(d, t)
  <2>1. CASE EX!TakeRescan(target[d][t], Right(d, t)) /\ Answered(d, t, "taken")
    <3>1. answer'[d][t] = "taken"
      BY <1>3, <2>1
    <3>2. taken'[d] > 0 \/ d \in released
      <4>1. CASE target[d][t] = d
        BY <1>0, <2>1, <4>1 DEF EX!TakeRescan, SystemTypeOK
      <4> QED
        BY <4>1 DEF ReleaseInv, TargetsOwn
    <3> QED
      BY <1>0, <3>1, <3>2
  <2>2. CASE Answered(d, t, "refused")
    BY <1>3, <2>2
  <2> QED
    BY <1>6, <2>1, <2>2 DEF AnswersRescan
<1>7. CASE AnswersQuery(d, t)
  <2>1. CASE Answered(d, t, EX!Outcome(d))
    <3>1. answer'[d][t] = EX!Outcome(d)
      BY <1>3, <2>1
    <3>2. EX!Outcome(d) \in {"held", "pending", "released"}
      BY DEF EX!Outcome
    <3>3. CASE EX!Outcome(d) = "released"
      <4>1. EX!Original(d) \notin quarantine
        BY <3>3 DEF EX!Outcome, EX!Narrowed, EX!Original
      <4>2. d \in released
        BY <4>1 DEF ReleaseInv, RecordsKept
      <4> QED
        BY <1>0, <3>1, <3>3, <4>2
    <3> QED
      BY <3>1, <3>2, <3>3
  <2>2. CASE /\ Unanswered(d, t, "confirm")
             /\ Answered(d, t, IF EX!HasResubmissionQuarantine(d) THEN "held" ELSE "absent")
    <3>1. CASE EX!HasResubmissionQuarantine(d)
      <4>1. answer'[d][t] = "held"
        BY <1>3, <2>2, <3>1
      <4> QED
        BY <4>1
    <3>2. CASE ~EX!HasResubmissionQuarantine(d)
      <4>1. EX!Reanalysis(d) \notin quarantine
        BY <3>2 DEF EX!HasResubmissionQuarantine, EX!Narrowed, EX!Reanalysis
      <4>2. Decided(d)
        BY <2>2 DEF ReleaseInv, PollersOK, PollerOK, Unanswered, Waiting
      <4>3. d \in released
        BY <4>1, <4>2 DEF Decided
      <4>4. answer'[d][t] = "absent"
        BY <1>3, <2>2, <3>2
      <4> QED
        BY <1>0, <4>3, <4>4
    <3> QED
      BY <3>1, <3>2
  <2> QED
    BY <1>7, <2>1, <2>2 DEF AnswersQuery
<1> QED
  BY <1>1, <1>2, <1>4, <1>5, <1>6, <1>7, AnswerSorts DEF AnswerStep

\* An accepted rescan is one of the e-mail, unless that was delivered.
LEMMA AcceptedTakes ==
  ASSUME SystemTypeOK, AnswersTrue, [SystemNext]_allVars,
         NEW c \in Cases, NEW s \in Slots, Accepted(c, s)
  PROVE  /\ taken[c] > 0 \/ c \in released
         /\ taken'[c] > 0 \/ c \in released'
<1>1. taken[c] > 0 \/ c \in released
  BY DEF Accepted, AnswersTrue
<1>2. taken[c] \in Nat /\ taken'[c] \in Nat
  BY SystemTypeStep DEF SystemTypeOK
<1> QED
  BY <1>1, <1>2, ExGrows DEF Grows

\* A verdict leaves the audit rows alone, and a rescan adds one.
LEMMA SortsOfRows ==
  ASSUME SystemTypeOK, [SystemNext]_allVars, NEW d \in Cases
  PROVE  \/ db'[d].hashes = db[d].hashes
         \/ \E s \in Slots : Accepted(d, s)
<1>0. TypeOK
  BY DEF SystemTypeOK
<1>1. ASSUME NEW c \in Cases, NEW s \in Slots, Accepted(c, s)
      PROVE  d = c \/ db'[d] = db[d]
  BY <1>0, <1>1, CommitWrites DEF Accepted, RescanAccepted
<1>2. ASSUME NEW c \in Cases, NEW s \in Slots, PollInWindow(c, s)
      PROVE  AllPlain
  <2>1. CASE Commit(c, Single(SetState(db[c], "rechecking")),
                    Run(c, s, [jobs[c][s] EXCEPT !.pc = "outcome"]))
    BY <1>0, <2>1, CommitPlain, PlainWrites DEF FlowState, Verdicts, TypeOK
  <2> QED
    BY <1>2, <2>1, UnchangedPlain DEF PollInWindow, PollWakes
<1>3. ASSUME NEW c \in Cases, NEW s \in Slots, NEW held,
             Commit(c, Finish(db[c], held), End(c, s))
      PROVE  db'[d].hashes = db[d].hashes
  <2>1. db[c] \in Row
    BY <1>0 DEF TypeOK
  <2>2. Writes(Finish(db[c], held), db'[c])
    BY <1>0, <1>3, CommitWrites
  <2>3. d # c => db'[d] = db[d]
    BY <1>0, <1>3, CommitWrites
  <2>4. db'[c].hashes = db[c].hashes
    BY <2>1, <2>2, PlainWrites
  <2> QED
    BY <2>3, <2>4
<1>4. ASSUME NEW c \in Cases, NEW s \in Slots, Asked(c, s)
      PROVE  db'[d].hashes = db[d].hashes
  BY <1>3, <1>4
     DEF Asked, HandleOtherPush, PollerReads, ConfirmReads, OutcomeIs, ConfirmIs,
         OutcomeFails
<1>5. CASE TakenUpAgain
  BY <1>0, <1>5 DEF TakenUpAgain, Restart, Rekeyed, StorePassword, TypeOK, Row
<1> QED
  BY <1>1, <1>2, <1>4, <1>5, SystemSorts DEF AllPlain, Plain

\* A row of password_attempts follows a rescan that EX took.
LEMMA HashesStep ==
  ASSUME SystemTypeOK, AnswersTrue, HashesTaken, [SystemNext]_allVars
  PROVE  HashesTaken'
<1> SUFFICES ASSUME NEW c \in Cases, db'[c].hashes > 0
             PROVE  taken'[c] > 0 \/ c \in released'
  BY DEF HashesTaken
<1>1. CASE db'[c].hashes = db[c].hashes
  <2>1. taken[c] > 0 \/ c \in released
    BY <1>1 DEF HashesTaken
  <2>2. taken[c] \in Nat /\ taken'[c] \in Nat
    BY SystemTypeStep DEF SystemTypeOK
  <2> QED
    BY <2>1, <2>2, ExGrows DEF Grows
<1> QED
  BY <1>1, SortsOfRows, AcceptedTakes

\* A poller counts only rescans that EX took.
LEMMA CoversStep ==
  ASSUME SystemTypeOK, CoversTaken, [SystemNext]_allVars
  PROVE  CoversTaken'
<1>0. /\ taken \in [Cases -> Nat] /\ taken' \in [Cases -> Nat]
      /\ covers \in [Cases -> [Slots -> Nat]]
  BY SystemTypeStep DEF SystemTypeOK
<1>1. \A c \in Cases : taken[c] <= taken'[c]
  BY ExGrows DEF Grows
<1>2. CASE KeepsCovers
  BY <1>0, <1>1, <1>2 DEF KeepsCovers, OnlyPollersCover, CoversTaken
<1>3. ASSUME NEW c \in Cases, NEW s \in Slots, Accepted(c, s)
      PROVE  CoversTaken'
  BY <1>0, <1>1, <1>3 DEF Accepted, CoversTaken
<1>4. CASE TakenUpAgain
  BY <1>0, <1>1, <1>4 DEF TakenUpAgain, PerSlot, CoversTaken
<1> QED
  BY <1>2, <1>3, <1>4, SystemSorts DEF PollInWindow, Asked, KeepsCovers
-------------------------------------------------------------------------------
(* Pollers *)

\* A coroutine that is left alone may still rely on what it relied on.
LEMMA LeftAlone ==
  ASSUME Grows, NEW c \in Cases, NEW s \in Slots, PollerOK(c, s),
         jobs'[c][s] = jobs[c][s],
         jobs[c][s].pc \in {"sleep", "outcome"} => covers'[c][s] = covers[c][s]
  PROVE  PollerOK(c, s)'
BY DEF Grows, PollerOK

\* A coroutine that waits for no verdict relies on nothing.
LEMMA NotPolling ==
  ASSUME NEW c \in Cases, NEW s \in Slots, jobs'[c][s].pc \notin PollWaits
  PROVE  PollerOK(c, s)'
BY DEF PollerOK, PollWaits

\* A poller keeps its count for as long as it polls.
LEMMA StillCovered ==
  ASSUME SystemTypeOK, KeepsCovers, NEW c \in Cases, NEW s \in Slots,
         jobs'[c][s].pc \in {"sleep", "outcome"}
  PROVE  covers'[c][s] = covers[c][s]
BY DEF KeepsCovers, OnlyPollersCover

\* One coroutine moves and may rely on what it needs, or all are gone.
LEMMA OneMoves ==
  ASSUME SystemTypeOK, Grows, PollersOK, NEW c \in Cases, NEW s \in Slots, NEW j,
         \/ jobs' = NoJobs
         \/ jobs' = Run(c, s, j) /\ (j.pc \in PollWaits => PollerOK(c, s)'),
         KeepsCovers \/ \E n : covers' = [covers EXCEPT ![c][s] = n]
  PROVE  PollersOK'
<1> SUFFICES ASSUME NEW d \in Cases, NEW t \in Slots PROVE PollerOK(d, t)'
  BY DEF PollersOK
<1>0. PollerOK(d, t) /\ TypeOK
  BY DEF PollersOK, SystemTypeOK
<1>1. CASE jobs' = NoJobs
  BY <1>1, NotPolling DEF NoJobs, Idle, NewJob, PollWaits
<1>2. CASE /\ jobs' = Run(c, s, j) /\ (j.pc \in PollWaits => PollerOK(c, s)')
           /\ d = c /\ t = s
  <2>1. jobs'[c][s] = j
    BY <1>0, <1>2 DEF Run, TypeOK
  <2> QED
    BY <1>2, <2>1, NotPolling
<1>3. CASE jobs' = Run(c, s, j) /\ ~(d = c /\ t = s)
  <2>1. jobs'[d][t] = jobs[d][t]
    BY <1>0, <1>3 DEF Run, TypeOK
  <2>2. CASE KeepsCovers
    BY <1>0, <2>1, <2>2, LeftAlone, StillCovered
  <2>3. CASE \E n : covers' = [covers EXCEPT ![c][s] = n]
    <3>1. covers'[d][t] = covers[d][t]
      BY <1>3, <2>3 DEF SystemTypeOK
    <3> QED
      BY <1>0, <2>1, <3>1, LeftAlone
  <2> QED
    BY <2>2, <2>3
<1> QED
  BY <1>1, <1>2, <1>3

\* A rescan was taken and nothing is under analysis any more: it was decided.
LEMMA WindowDecides ==
  ASSUME SystemTypeOK, RecordsKept, CoversTaken, NEW c \in Cases, NEW s \in Slots,
         covers[c][s] > 0 \/ c \in released,
         \A a \in analyses : a.email = c => a.id > covers[c][s]
  PROVE  Decided(c)
<1>1. CASE c \in released
  BY <1>1 DEF Decided
<1>2. CASE covers[c][s] > 0
  <2>1. covers[c][s] \in Nat /\ taken[c] \in Nat /\ covers[c][s] <= taken[c]
    BY DEF SystemTypeOK, CoversTaken
  <2>2. \A a \in analyses : a.id \in Nat
    BY DEF SystemTypeOK, EX!Analysis
  <2>3. taken[c] > 0
    BY <1>2, <2>1
  <2>4. ASSUME NEW a \in analyses, a.email = c, a.id <= 1
        PROVE  FALSE
    BY <1>2, <2>1, <2>2, <2>4
  <2> QED
    BY <2>3, <2>4 DEF RecordsKept
<1> QED
  BY <1>1, <1>2
\* The pc and the polls of a new poller.
LEMMA PollerJobs ==
  /\ \A pc, left : Poller(pc, left).pc = pc /\ Poller(pc, left).left = left
  /\ Idle.pc = "idle"
  /\ Polls > 0
BY LimitsAssumption DEF Poller, NewJob, Idle

\* An answer, or its failure, leaves the pollers with what they rely on.
LEMMA AskedPollers ==
  ASSUME SystemTypeOK, RecordsKept, PollersOK, [SystemNext]_allVars,
         NEW c \in Cases, NEW s \in Slots, Asked(c, s)
  PROVE  PollersOK'
<1>0. Grows /\ KeepsCovers /\ TypeOK /\ PollerOK(c, s)
  BY ExGrows DEF Asked, KeepsCovers, SystemTypeOK, PollersOK
<1>a. \A j : jobs' = Run(c, s, j) => jobs'[c][s] = j
  BY <1>0 DEF Run, TypeOK
<1>b. jobs[c][s].left \in Nat
  BY <1>0 DEF TypeOK, Job
<1>1. CASE jobs' = NoJobs \/ jobs' = End(c, s)
  <2>1. Idle.pc \notin PollWaits
    BY PollerJobs DEF PollWaits
  <2> QED
    BY <1>0, <1>1, <2>1, OneMoves DEF End
<1>2. ASSUME jobs' = Run(c, s, Poller("confirm", jobs'[c][s].left)), Decided(c)
      PROVE  PollersOK'
  <2>1. Decided(c)' /\ jobs'[c][s].pc = "confirm"
    BY <1>0, <1>a, <1>2, PollerJobs DEF Grows
  <2>2. PollerOK(c, s)'
    BY <2>1 DEF PollerOK
  <2> QED
    BY <1>0, <1>2, <2>2, OneMoves
<1>3. CASE "other" \in pushed[c] /\ HandleOtherPush(c, s)
  <2>1. jobs' = Run(c, s, NewJob("confirm", "direct")) /\ jobs'[c][s].pc = "confirm"
    BY <1>3, <1>a DEF HandleOtherPush, NewJob
  <2>2. Decided(c)'
    BY <1>0, <1>3 DEF RecordsKept, Grows
  <2>3. PollerOK(c, s)'
    BY <2>1, <2>2 DEF PollerOK
  <2> QED
    BY <1>0, <2>1, <2>3, OneMoves
<1>4. CASE jobs[c][s].pc = "outcome" /\ jobs' = NextPoll(c, s)
  <2>1. CASE jobs[c][s].left > 1
    <3>1. jobs' = Run(c, s, Poller("sleep", jobs[c][s].left - 1))
      BY <1>4, <2>1 DEF NextPoll
    <3>2. jobs'[c][s].pc = "sleep" /\ jobs'[c][s].left = jobs[c][s].left - 1
      BY <1>a, <3>1, PollerJobs
    <3>3. covers'[c][s] = covers[c][s] /\ released \subseteq released'
      BY <1>0, <3>2, StillCovered DEF Grows
    <3>4. PollerOK(c, s)'
      BY <1>0, <1>4, <1>b, <2>1, <3>2, <3>3 DEF PollerOK
    <3> QED
      BY <1>0, <3>1, <3>4, OneMoves
  <2>2. CASE ~(jobs[c][s].left > 1)
    BY <1>1, <1>4, <2>2 DEF NextPoll
  <2> QED
    BY <2>1, <2>2
<1>5. ASSUME NEW outcome, PollerReads(c, s, outcome)
      PROVE  PollersOK'
  <2>0. OutcomeIs(c, s, outcome)
    BY <1>5 DEF PollerReads
  <2>1. jobs[c][s].pc = "outcome"
    BY <2>0 DEF OutcomeIs, Waiting
  <2>2. CASE Commit(c, Finish(db[c], outcome = "held"), End(c, s))
    BY <1>1, <2>2 DEF Commit
  <2>3. CASE jobs[c][s].left <= 1 /\ jobs' = Run(c, s, Poller("confirm", 1))
    <3>1. Decided(c)
      BY <1>0, <2>1, <2>3 DEF PollerOK
    <3>2. jobs'[c][s].left = 1
      BY <1>a, <2>3, PollerJobs
    <3> QED
      BY <1>2, <2>3, <3>1, <3>2
  <2>4. CASE jobs' = NextPoll(c, s)
    BY <1>4, <2>1, <2>4
  <2> QED
    BY <1>b, <2>0, <2>2, <2>3, <2>4 DEF OutcomeIs
<1>6. ASSUME NEW held, ConfirmReads(c, s, held)
      PROVE  PollersOK'
  BY <1>1, <1>6 DEF ConfirmReads, ConfirmIs, Commit
<1>7. CASE OutcomeFails(c, s)
  BY <1>4, <1>7 DEF OutcomeFails, Waiting
<1> QED
  BY <1>3, <1>5, <1>6, <1>7 DEF Asked

\* So does every step: a poller starts with a rescan taken, and leaves the
\* last sleep with one decided.
LEMMA PollersStep ==
  ASSUME SystemTypeOK, ReleaseInv, VerdictFollowsRescan', [SystemNext]_allVars
  PROVE  PollersOK'
<1> USE DEF ReleaseInv
<1>0. Grows /\ TypeOK
  BY ExGrows DEF SystemTypeOK
<1>1. CASE Quiet /\ KeepsCovers
  <2> SUFFICES ASSUME NEW d \in Cases, NEW t \in Slots PROVE PollerOK(d, t)'
    BY DEF PollersOK
  <2>1. CASE jobs'[d][t] = jobs[d][t]
    BY <1>0, <1>1, <2>1, LeftAlone, StillCovered DEF PollersOK
  <2>2. CASE jobs'[d][t].pc \notin PollWaits
    BY <2>2, NotPolling
  <2> QED
    BY <1>1, <2>1, <2>2 DEF Quiet
<1>2. ASSUME NEW c \in Cases, NEW s \in Slots, Accepted(c, s)
      PROVE  PollersOK'
  <2>1. CASE jobs' = NoJobs
    BY <1>0, <1>2, <2>1, OneMoves DEF Accepted
  <2>2. CASE jobs' = Run(c, s, Poller("sleep", Polls))
    <3>1. jobs'[c][s] = Poller("sleep", Polls)
      BY <1>0, <2>2 DEF Run, TypeOK
    <3>2. covers'[c][s] = taken[c]
      BY <1>2 DEF Accepted, SystemTypeOK
    <3>3. PollerOK(c, s)'
      <4>1. taken[c] > 0 \/ c \in released'
        BY <1>0, <1>2, AcceptedTakes DEF Grows
      <4> QED
        BY <3>1, <3>2, <4>1, PollerJobs DEF PollerOK
    <3> QED
      BY <1>0, <1>2, <2>2, <3>3, OneMoves DEF Accepted
  <2> QED
    BY <1>2, <2>1, <2>2 DEF Accepted, RescanAccepted, Commit
<1>3. ASSUME NEW c \in Cases, NEW s \in Slots, PollInWindow(c, s)
      PROVE  PollersOK'
  <2>0. KeepsCovers /\ PollerOK(c, s) /\ jobs[c][s].pc = "sleep" /\ jobs[c][s] \in Job
    BY <1>0, <1>3 DEF PollInWindow, PollWakes, Waiting, KeepsCovers, PollersOK, TypeOK
  <2>1. CASE jobs' = NoJobs
    BY <1>0, <2>0, <2>1, OneMoves
  <2>2. CASE jobs' = End(c, s)
    BY <1>0, <2>0, <2>2, OneMoves, PollerJobs DEF End, PollWaits
  <2>3. CASE jobs' = Run(c, s, [jobs[c][s] EXCEPT !.pc = "outcome"])
    <3>1. jobs'[c][s].pc = "outcome" /\ jobs'[c][s].left = jobs[c][s].left
      BY <1>0, <2>0, <2>3 DEF Run, TypeOK, Job
    <3>2. covers'[c][s] = covers[c][s] /\ released \subseteq released'
      BY <1>0, <2>0, <3>1, StillCovered DEF Grows
    <3>3. jobs[c][s].left > 0 /\ jobs[c][s].left \in Nat
          /\ (covers[c][s] > 0 \/ c \in released)
      BY <2>0 DEF PollerOK, Job
    <3>4. jobs[c][s].left <= 1 => Decided(c)'
      BY <1>0, <1>3, <3>3, WindowDecides DEF PollInWindow, Grows
    <3>5. PollerOK(c, s)'
      BY <3>1, <3>2, <3>3, <3>4 DEF PollerOK
    <3> QED
      BY <1>0, <2>0, <2>3, <3>5, OneMoves
  <2> QED
    BY <1>3, <2>1, <2>2, <2>3 DEF PollInWindow, PollWakes, Commit
<1>4. ASSUME NEW c \in Cases, NEW s \in Slots, Asked(c, s)
      PROVE  PollersOK'
  BY <1>4, AskedPollers
<1>5. CASE TakenUpAgain
  <2> SUFFICES ASSUME NEW d \in Cases, NEW t \in Slots PROVE PollerOK(d, t)'
    BY DEF PollersOK
  <2>1. PICK s \in Slots : jobs' = Resumed(s)
    BY <1>5 DEF TakenUpAgain, Restart
  <2>2. jobs'[d][t].pc \notin PollWaits
        \/ (db'[d].state \in RECHECKABLE /\ jobs'[d][t] = Poller("sleep", Polls))
    BY <2>1 DEF Resumed, NoJobs, Idle, NewJob, PollWaits
  <2>3. CASE db'[d].state \in RECHECKABLE /\ jobs'[d][t] = Poller("sleep", Polls)
    <3>1. db'[d].hashes > 0
      BY <2>3 DEF VerdictFollowsRescan, Rescanned
    <3>2. taken'[d] > 0 \/ d \in released'
      BY <3>1, HashesStep DEF HashesTaken
    <3>3. covers'[d][t] = taken[d]
      BY <1>5 DEF TakenUpAgain, PerSlot
    <3>4. taken'[d] = taken[d]
      BY <1>5 DEF TakenUpAgain
    <3> QED
      BY <2>3, <3>2, <3>3, <3>4, PollerJobs DEF PollerOK
  <2> QED
    BY <2>2, <2>3, NotPolling
<1> QED
  BY <1>1, <1>2, <1>3, <1>4, <1>5, SystemSorts
-------------------------------------------------------------------------------
(* The verdict *)

\* Only two answers of EX conclude a case, and with which verdict.
LEMMA OnlyAnswersConclude ==
  ASSUME SystemTypeOK, [SystemNext]_allVars, NEW d \in Cases, NEW v \in Verdicts,
         Becomes(d, v)
  PROVE  \E s \in Slots :
           answer[d][s] \in IF v = "done_quarantined" THEN {"held"} ELSE {"released", "absent"}
<1>0. TypeOK /\ db[d] \in Row
  BY DEF SystemTypeOK, TypeOK
<1>a. db'[d].state = v /\ db[d].state # v
  BY DEF Becomes
<1>b. v \in {"done_passed", "done_quarantined"}
  BY DEF Verdicts
<1>1. ASSUME AllPlain
      PROVE  FALSE
  BY <1>a, <1>1 DEF AllPlain, Plain
<1>2. ASSUME NEW c \in Cases, NEW s \in Slots, Accepted(c, s)
      PROVE  FALSE
  <2>1. d = c
    BY <1>0, <1>a, <1>2, CommitWrites DEF Accepted, RescanAccepted
  <2>2. Writes(Resubmitted(db[d]), db'[d])
    BY <1>0, <1>2, <2>1, CommitWrites DEF Accepted, RescanAccepted
  <2> QED
    BY <1>0, <1>a, <1>b, <2>2
       DEF Writes, Resubmitted, SetState, RecordHash, ClearPassword, Row
<1>3. ASSUME NEW c \in Cases, NEW s \in Slots, PollInWindow(c, s)
      PROVE  AllPlain
  <2>1. CASE Commit(c, Single(SetState(db[c], "rechecking")),
                    Run(c, s, [jobs[c][s] EXCEPT !.pc = "outcome"]))
    BY <1>0, <2>1, CommitPlain, PlainWrites DEF FlowState, Verdicts, TypeOK
  <2> QED
    BY <1>3, <2>1, UnchangedPlain DEF PollInWindow, PollWakes
<1>4. ASSUME NEW c \in Cases, NEW s \in Slots, NEW held \in BOOLEAN,
             Commit(c, Finish(db[c], held), End(c, s))
      PROVE  d = c /\ (held <=> v = "done_quarantined")
  <2>1. d = c
    BY <1>0, <1>a, <1>4, CommitWrites
  <2>2. Writes(Finish(db[d], held), db'[d])
    BY <1>0, <1>4, <2>1, CommitWrites
  <2>3. \/ db'[d].state = db[d].state
        \/ held /\ db'[d].state = "done_quarantined"
        \/ ~held /\ db'[d].state = "done_passed"
    BY <1>0, <2>2 DEF Writes, Finish, SetState, ClearPassword, Row
  <2> QED
    BY <1>a, <1>b, <2>1, <2>3
<1>5. ASSUME NEW c \in Cases, NEW s \in Slots, NEW outcome, PollerReads(c, s, outcome)
      PROVE  /\ d = c
             /\ answer[c][s] = IF v = "done_quarantined" THEN "held" ELSE "released"
  <2>1. /\ outcome # "pending" /\ outcome \in ResubmissionOutcome /\ answer[c][s] = outcome
        /\ Commit(c, Finish(db[c], outcome = "held"), End(c, s))
    BY <1>a, <1>5 DEF PollerReads, OutcomeIs
  <2>2. (outcome = "held") \in BOOLEAN
    OBVIOUS
  <2>3. d = c /\ (outcome = "held" <=> v = "done_quarantined")
    BY <1>4, <2>1, <2>2
  <2> QED
    BY <2>1, <2>3 DEF ResubmissionOutcome
<1>6. ASSUME NEW c \in Cases, NEW s \in Slots, NEW held, ConfirmReads(c, s, held)
      PROVE  /\ d = c
             /\ answer[c][s] = IF v = "done_quarantined" THEN "held" ELSE "absent"
  BY <1>4, <1>6 DEF ConfirmReads, ConfirmIs
<1>7. ASSUME NEW c \in Cases, NEW s \in Slots,
             HandleOtherPush(c, s) \/ OutcomeFails(c, s)
      PROVE  FALSE
  BY <1>a, <1>7 DEF HandleOtherPush, OutcomeFails
<1>8. ASSUME TakenUpAgain
      PROVE  FALSE
  BY <1>0, <1>a, <1>8 DEF TakenUpAgain, Restart, Rekeyed, StorePassword, TypeOK, Row
<1>9. PICK c \in Cases, s \in Slots :
        \/ \E outcome : PollerReads(c, s, outcome)
        \/ \E held : ConfirmReads(c, s, held)
  BY <1>1, <1>2, <1>3, <1>7, <1>8, SystemSorts DEF Asked
<1> QED
  BY <1>5, <1>6, <1>9

\* Whoever concludes "released" was told so by a list that left no doubt.
LEMMA PassedStep ==
  ASSUME SystemTypeOK, ReleaseInv, [SystemNext]_allVars, NEW d \in Cases,
         Becomes(d, "done_passed")
  PROVE  d \in released
<1>1. PICK s \in Slots : answer[d][s] \in {"released", "absent"}
  BY OnlyAnswersConclude DEF Verdicts
<1> QED
  BY <1>1 DEF ReleaseInv, AnswersTrue

\* ReleaseInv holds at the start,
LEMMA ReleaseInit == SystemInit => ReleaseInv
<1> SUFFICES ASSUME SystemInit PROVE ReleaseInv
  OBVIOUS
<1>1. RecordsKept
  BY DEF SystemInit, EX!ExInit, RecordsKept
<1>2. TargetsOwn /\ AnswersTrue /\ CoversTaken
  BY DEF SystemInit, EX!ExInit, PerSlot, TargetsOwn, AnswersTrue, CoversTaken
<1>3. HashesTaken
  BY DEF SystemInit, Init, NoCase, HashesTaken
<1>4. PollersOK
  BY DEF SystemInit, Init, NoJobs, Idle, NewJob, PollersOK, PollerOK
<1> QED
  BY <1>1, <1>2, <1>3, <1>4 DEF ReleaseInv

\* and every step keeps it.
LEMMA ReleaseStep ==
  ASSUME SystemTypeOK, ReleaseInv, VerdictFollowsRescan', [SystemNext]_allVars
  PROVE  ReleaseInv'
<1>1. RecordsKept' /\ TargetsOwn' /\ AnswersTrue' /\ HashesTaken' /\ CoversTaken'
  BY RecordsStep, TargetsStep, AnswersStep, HashesStep, CoversStep DEF ReleaseInv
<1> QED
  BY <1>1, PollersStep DEF ReleaseInv

\* Every variable of the composition keeps its type.
THEOREM SystemTypeCorrect == SystemSpec => []SystemTypeOK
<1>1. SystemTypeOK /\ [SystemNext]_allVars => SystemTypeOK'
  BY SystemTypeStep
<1> QED
  BY <1>1, SystemTypeInit, PTL DEF SystemSpec

\* The release invariant holds in every reachable state.
LEMMA ReleaseInvariant == SystemSpec => []ReleaseInv
<1>1. /\ SystemTypeOK /\ ReleaseInv /\ VerdictFollowsRescan' /\ [SystemNext]_allVars
      => ReleaseInv'
  BY ReleaseStep
<1> QED
  BY <1>1, ReleaseInit, SystemTypeCorrect, SystemKeepsInvariants, PTL DEF SystemSpec

\* A password goes to the e-mail of its own case for as long as EX holds it,
\* siblings or not; and an audit row is true: EX did take a rescan of that
\* e-mail, or has delivered it.  rescan_target prefers the entry of the case,
\* and only an entry that left the list makes it take another's.
THEOREM RescansReachTheirEmail == SystemSpec => [](TargetsOwn /\ HashesTaken)
<1>1. ReleaseInv => TargetsOwn /\ HashesTaken
  BY DEF ReleaseInv
<1> QED
  BY <1>1, ReleaseInvariant, PTL

\* A case is declared released only if EX delivered its e-mail: for any
\* overlap of rounds, pollers and pushes, lost answers, crashes and siblings,
\* because the last poll waits out the analysis and EX keeps its records.
THEOREM NoEarlyRelease == SystemSpec => PassedWhenReleased
<1>1. SystemTypeOK /\ ReleaseInv /\ [SystemNext]_allVars
      => [\A c \in Cases : Becomes(c, "done_passed") => c \in released]_allVars
  BY PassedStep
<1> QED
  BY <1>1, ReleaseInvariant, SystemTypeCorrect, PTL DEF SystemSpec, PassedWhenReleased

-------------------------------------------------------------------------------
(* No quarantine without a detection *)

\* The rescans of an e-mail are numbered, and the number names the analysis.
Numbered ==
  \A a \in analyses :
    /\ a.id <= taken[a.email]
    /\ \A b \in analyses : a.email = b.email /\ a.id = b.id => a = b

\* A detection comes from an analysis that ended, and a delivery after it from
\* another one.
DetectionEarned(c) ==
  /\ taken[c] > 0
  /\ taken[c] = 1 => c \notin released /\ \A a \in analyses : a.email # c

RecordsEarned == \A c \in Cases : c \in detected => DetectionEarned(c)

\* A record in the list, and the news of one, is of a detection.
HeldDetected ==
  \A c \in Cases :
    /\ EX!Reanalysis(c) \in quarantine => c \in detected
    /\ \A s \in Slots : answer[c][s] = "held" => c \in detected

DetectionInv == Numbered /\ RecordsEarned /\ HeldDetected

\* Every step keeps the numbering.
LEMMA NumberedStep ==
  ASSUME SystemTypeOK, Numbered, [SystemNext]_allVars
  PROVE  Numbered'
<1>0. /\ taken \in [Cases -> Nat]
      /\ \A a \in analyses : a.email \in Cases /\ a.id \in Nat
  BY DEF SystemTypeOK, EX!Analysis
<1>1. ASSUME NEW e \in Cases, NEW right \in BOOLEAN, EX!TakeRescan(e, right)
      PROVE  Numbered'
  <2>1. PICK n : analyses' = analyses \cup {n} /\ n.email = e /\ n.id = taken[e] + 1
    <3> DEFINE n == [email |-> e, id |-> taken[e] + 1,
                     result |-> IF ~right THEN "encrypted"
                                ELSE IF e \in Harmful THEN "malicious" ELSE "clean"]
    <3>1. analyses' = analyses \cup {n}
      BY <1>1 DEF EX!TakeRescan
    <3>2. n.email = e /\ n.id = taken[e] + 1
      OBVIOUS
    <3> QED
      BY <3>1, <3>2
  <2>2. taken' = [taken EXCEPT ![e] = @ + 1]
    BY <1>1 DEF EX!TakeRescan
  <2>3. \A a \in analyses : a.email = e => a.id < n.id
    BY <1>0, <2>1 DEF Numbered
  <2> QED
    BY <1>0, <2>1, <2>2, <2>3 DEF Numbered
<1>2. CASE EX!Analyse
  BY <1>2 DEF EX!Analyse, Numbered
<1>3. CASE UNCHANGED exVars
  BY <1>3 DEF exVars, Numbered
<1> QED
  BY <1>1, <1>2, <1>3, ExSteps

\* What an analysis adds to the detections and deliveries.
LEMMA DetectionOf ==
  ASSUME NEW a \in analyses, EX!Detect(a) \/ EX!Release(a) \/ EX!Delivered(a), NEW c
  PROVE  /\ c \in detected' => c \in detected \/ (a.email = c /\ c \notin released')
         /\ c \in released' => c \in released \/ a.email = c
BY DEF EX!Detect, EX!Release, EX!Delivered

\* Every step keeps the account of the detections.
LEMMA RecordsEarnedStep ==
  ASSUME SystemTypeOK, DetectionInv, [SystemNext]_allVars
  PROVE  RecordsEarned'
<1> USE DEF DetectionInv
<1>0. /\ taken \in [Cases -> Nat]
      /\ \A a \in analyses : a.email \in Cases /\ a.id \in Nat \ {0}
  BY DEF SystemTypeOK, EX!Analysis
<1>1. ASSUME NEW e \in Cases, NEW right \in BOOLEAN, EX!TakeRescan(e, right)
      PROVE  RecordsEarned'
  <2>1. /\ UNCHANGED <<detected, released>>
        /\ taken' = [taken EXCEPT ![e] = @ + 1]
        /\ \A a \in analyses' : a \in analyses \/ a.email = e
    BY <1>1 DEF EX!TakeRescan
  <2> QED
    BY <1>0, <2>1 DEF RecordsEarned, DetectionEarned
<1>2. CASE EX!Analyse
  <2>1. PICK a \in analyses :
          /\ EX!Detect(a) \/ EX!Release(a) \/ EX!Delivered(a)
          /\ analyses' = analyses \ {a}
          /\ UNCHANGED taken
    BY <1>2 DEF EX!Analyse
  <2> SUFFICES ASSUME NEW c \in Cases, c \in detected'
               PROVE  DetectionEarned(c)'
    BY DEF RecordsEarned
  <2>2. CASE c \in detected
    <3>1. taken[c] > 0 /\ (taken[c] = 1 => a.email # c)
      BY <2>2 DEF RecordsEarned, DetectionEarned
    <3> QED
      BY <2>1, <2>2, <3>1, DetectionOf DEF RecordsEarned, DetectionEarned
  <2>3. CASE a.email = c /\ c \notin released'
    <3>1. a.id > 0 /\ a.id <= taken[c] /\ a.id \in Nat /\ taken[c] \in Nat
      BY <1>0, <2>3 DEF Numbered
    <3>2. ASSUME taken[c] = 1, NEW b \in analyses, b.email = c
          PROVE  b = a
      <4>1. b.id = 1 /\ a.id = 1
        BY <1>0, <2>3, <3>2 DEF Numbered
      <4> QED
        BY <2>3, <3>2, <4>1 DEF Numbered
    <3> QED
      BY <2>1, <2>3, <3>1, <3>2 DEF DetectionEarned
  <2> QED
    BY <2>1, <2>2, <2>3, DetectionOf
<1>3. CASE UNCHANGED exVars
  BY <1>3 DEF exVars, RecordsEarned, DetectionEarned
<1> QED
  BY <1>1, <1>2, <1>3, ExSteps

\* A record that EX adds to the list is one of a detection,
LEMMA RecordsStayDetected ==
  ASSUME SystemTypeOK, DetectionInv, [SystemNext]_allVars, NEW c \in Cases,
         EX!Reanalysis(c) \in quarantine'
  PROVE  c \in detected'
<1>0. \A e : EX!Reanalysis(e).email = e /\ EX!Reanalysis(e).kind = "_RA"
  BY DEF EX!Reanalysis
<1>1. EX!Reanalysis(c) \in quarantine => c \in detected'
  BY ExGrows DEF DetectionInv, HeldDetected, Grows
<1>2. ASSUME NEW a \in analyses, EX!Detect(a)
      PROVE  c \in detected'
  <2>1. CASE EX!Reanalysis(c) = EX!Reanalysis(a.email)
    BY <1>0, <1>2, <2>1 DEF EX!Detect
  <2> QED
    BY <1>1, <1>2, <2>1 DEF EX!Detect
<1>3. ASSUME NEW a \in analyses, EX!Release(a) \/ EX!Delivered(a)
      PROVE  c \in detected'
  BY <1>1, <1>3 DEF EX!Release, EX!Delivered
<1>4. CASE UNCHANGED quarantine
  BY <1>1, <1>4
<1> QED
  BY <1>2, <1>3, <1>4, ExSteps DEF EX!Analyse, EX!TakeRescan, exVars

\* and the answer "held" tells of a record of that very e-mail.
LEMMA HeldDetectedStep ==
  ASSUME SystemTypeOK, DetectionInv, [SystemNext]_allVars
  PROVE  HeldDetected'
<1>1. ASSUME NEW c \in Cases, EX!Reanalysis(c) \in quarantine'
      PROVE  c \in detected'
  BY <1>1, RecordsStayDetected
<1>2. ASSUME NEW c \in Cases, NEW s \in Slots, answer'[c][s] = "held"
      PROVE  c \in detected'
  <2>0. detected \subseteq detected'
    BY ExGrows DEF Grows
  <2>1. CASE answer[c][s] = "held"
    BY <2>0, <2>1 DEF DetectionInv, HeldDetected
  <2>2. CASE AnswersQuery(c, s) /\ EX!HasResubmissionQuarantine(c)
    <3>1. PICK x \in quarantine : x.kind = "_RA" /\ x.email = c
      BY <2>2 DEF EX!HasResubmissionQuarantine, EX!Narrowed
    <3>2. x = EX!Reanalysis(c)
      BY <3>1 DEF SystemTypeOK, EX!Entry, EX!Reanalysis
    <3> QED
      BY <2>0, <3>1, <3>2 DEF DetectionInv, HeldDetected
  <2>3. ASSUME NEW d \in Cases, NEW t \in Slots, NEW a, Answered(d, t, a)
        PROVE  answer'[c][s] = IF d = c /\ t = s THEN a ELSE answer[c][s]
    BY <2>3 DEF Answered, SystemTypeOK
  <2>4. ASSUME NEW d \in Cases, NEW t \in Slots, AnswersTarget(d, t) \/ AnswersRescan(d, t)
        PROVE  answer[c][s] = "held"
    <3>1. PICK a \in {"found", "missing", "taken", "refused"} : Answered(d, t, a)
      BY <2>4 DEF AnswersTarget, AnswersRescan
    <3> QED
      BY <1>2, <2>3, <3>1
  <2>5. ASSUME NEW d \in Cases, NEW t \in Slots, AnswersQuery(d, t)
        PROVE  \/ answer[c][s] = "held"
               \/ AnswersQuery(c, s) /\ EX!HasResubmissionQuarantine(c)
    <3>1. PICK a : Answered(d, t, a) /\ (a = "held" => EX!HasResubmissionQuarantine(d))
      BY <2>5 DEF AnswersQuery, EX!Outcome
    <3> QED
      BY <1>2, <2>3, <2>5, <3>1
  <2>6. CASE Forgets
    BY <1>2, <2>1, <2>6 DEF Forgets
  <2>7. CASE UNCHANGED answer
    BY <1>2, <2>1, <2>7
  <2> QED
    BY <2>1, <2>2, <2>4, <2>5, <2>6, <2>7, AnswerSorts DEF AnswerStep
<1> QED
  BY <1>1, <1>2 DEF HeldDetected

\* Whoever concludes "quarantined" was told of a record of this very e-mail.
LEMMA HeldStep ==
  ASSUME SystemTypeOK, DetectionInv, [SystemNext]_allVars, NEW d \in Cases,
         Becomes(d, "done_quarantined")
  PROVE  d \in detected /\ DetectionEarned(d)
<1>1. PICK s \in Slots : answer[d][s] = "held"
  BY OnlyAnswersConclude DEF Verdicts
<1> QED
  BY <1>1 DEF DetectionInv, HeldDetected, RecordsEarned

\* All this holds at the start.
LEMMA DetectionInit == SystemInit => DetectionInv
  BY DEF SystemInit, EX!ExInit, EX!Original, EX!Reanalysis, PerSlot, DetectionInv,
         Numbered, RecordsEarned, HeldDetected

\* A case is declared quarantined only if a rescan of that very e-mail was
\* detected: for any set of e-mails, similar or not, however many rescans
\* overlap, and however long the answer waited while EX went on.  The program
\* reads the records of one e-mail, and EX numbers its analyses: an e-mail
\* rescanned once and delivered is never declared quarantined.
THEOREM NoUnfoundedQuarantine == SystemSpec => QuarantinedWhenDetected
<1>1. SystemTypeOK /\ DetectionInv /\ [SystemNext]_allVars => DetectionInv'
  BY NumberedStep, RecordsEarnedStep, HeldDetectedStep DEF DetectionInv
<1>2. SystemTypeOK /\ DetectionInv /\ [SystemNext]_allVars
      => [\A c \in Cases :
            Becomes(c, "done_quarantined")
              => /\ c \in detected
                 /\ taken[c] = 1 => /\ c \notin released
                                    /\ \A a \in analyses : a.email # c]_allVars
  BY HeldStep DEF DetectionEarned
<1> QED
  BY <1>1, <1>2, DetectionInit, SystemTypeCorrect, PTL
     DEF SystemSpec, QuarantinedWhenDetected
===============================================================================
