---------------------------- MODULE ReconcileProofs ----------------------------
(***************************************************************************)
(* Proofs about Reconcile, for any number of e-mails and overlapping runs. *)
(***************************************************************************)
EXTENDS Reconcile, FiniteSetTheorems, TLAPS

\* What holds of a run between any two of its steps: the loops only visit
\* candidates that were not dealt with, the candidates were in quarantine when
\* the run began, and whatever still is was so then.
RunGood(j, h) ==
  /\ j.rest \subseteq j.candidates
  /\ j.handled \subseteq j.candidates
  /\ j.rest \cap j.handled = {}
  /\ j.candidates \subseteq j.asked
  /\ j.pc # "idle" => h \subseteq j.asked
  /\ j.pc \in {"idle", "list"} => j.rest = {} /\ j.handled = {}
  /\ j.pc = "alert" => j.at \in j.candidates \ (j.handled \cup j.rest)
  /\ j.pc = "send" => j.at \in j.handled \cap Triggers

LEMMA StartingGood == Starting \in RunStates /\ \A h : RunGood(Starting, h)
BY EmailsAssumption DEF Starting, RunStates, RunGood

\* Going back to the loop.
LEMMA GoingBack ==
  ASSUME NEW j \in RunStates
  PROVE  /\ Back(j) \in RunStates /\ Back(j).pc = j.pass
         /\ j.pass \in {"entries", "rows"}
         /\ \A h : RunGood([j EXCEPT !.pc = "entries"], h) => RunGood(Back(j), h)
<1>1. Starting.at \in Emails
  BY StartingGood DEF RunStates
<1>2. Back(j) = [j EXCEPT !.pc = j.pass, !.at = Starting.at] /\ j.pass \in {"entries", "rows"}
  BY DEF Back, RunStates
<1>3. /\ Back(j) \in RunStates /\ Back(j).pc = j.pass
      /\ Back(j).rest = j.rest /\ Back(j).handled = j.handled
      /\ Back(j).candidates = j.candidates /\ Back(j).asked = j.asked
  BY <1>1, <1>2 DEF RunStates
<1> QED
  BY <1>2, <1>3 DEF RunGood, RunStates

\* Taking an entry or a row from the loop.
LEMMA Taking ==
  ASSUME NEW j \in RunStates, RunGood(j, held), NEW e \in j.rest, j.pc # "idle"
  PROVE  LET k == [j EXCEPT !.rest = @ \ {e}]
         IN  /\ k \in RunStates /\ RunGood([k EXCEPT !.pc = "entries"], held)
             /\ e \in k.candidates \ (k.handled \cup k.rest)
  BY DEF RunStates, RunGood

RunsGood == \A r \in Runs : RunGood(run[r], held)

\* A step of the run r leaves it consistent, and touches no other run.
Moves(r, j) == run' = [run EXCEPT ![r] = j] /\ j \in RunStates /\ RunGood(j, held)

LEMMA ConfirmMoves ==
  ASSUME TypeOK, NEW r \in Runs, NEW j \in RunStates, NEW e \in Emails \cap Triggers,
         RunGood([j EXCEPT !.pc = "entries"], held),
         e \in j.candidates \ (j.handled \cup j.rest),
         Confirm(r, j, e)
  PROVE  \E k : Moves(r, k)
<1> DEFINE noted == [j EXCEPT !.handled = @ \cup {e}]
           k1 == [noted EXCEPT !.pc = "send", !.at = e]
<1>1. noted \in RunStates /\ k1 \in RunStates
  BY DEF RunStates
<1>2. RunGood(k1, held) /\ RunGood([noted EXCEPT !.pc = "entries"], held)
  BY DEF RunGood, RunStates
<1>3. run' = [run EXCEPT ![r] = k1] \/ run' = [run EXCEPT ![r] = Back(noted)]
  BY DEF Confirm, Set
<1> HIDE DEF noted, k1
<1>4. Back(noted) \in RunStates /\ RunGood(Back(noted), held)
  BY <1>1, <1>2, GoingBack
<1> QED
  BY <1>1, <1>2, <1>3, <1>4 DEF Moves

LEMMA RunMoves ==
  ASSUME TypeOK, RunsGood, NEW r \in Runs, RunStep(r)
  PROVE  \E j : Moves(r, j)
<1>0. /\ run[r] \in RunStates /\ RunGood(run[r], held)
      /\ held \subseteq Emails
  BY DEF TypeOK, RunsGood
<1>1. CASE Begin(r)
  <2> DEFINE j == [Starting EXCEPT !.pc = "list", !.asked = held]
  <2>1. j \in RunStates /\ RunGood(j, held)
    BY <1>0, StartingGood DEF RunStates, RunGood, Starting
  <2> QED
    BY <1>1, <2>1 DEF Begin, Set, Moves
<1>2. CASE ListReplies(r)
  <2> DEFINE full == [run[r] EXCEPT !.pc = "entries", !.rest = held, !.candidates = Candidates(held)]
             none == [run[r] EXCEPT !.pc = "entries"]
  <2>1. none \in RunStates /\ RunGood(none, held)
    BY <1>0, <1>2 DEF ListReplies, In, RunStates, RunGood
  <2>2. full \in RunStates /\ RunGood(full, held)
    BY <1>0, <1>2 DEF ListReplies, In, RunStates, RunGood, Candidates
  <2>3. run' = [run EXCEPT ![r] = full] \/ run' = [run EXCEPT ![r] = none]
    BY <1>2 DEF ListReplies, Set
  <2> QED
    BY <2>1, <2>2, <2>3 DEF Moves
<1>3. ASSUME NEW e \in Emails, NextEntry(r, e)
      PROVE  \E j : Moves(r, j)
  <2> DEFINE k == [run[r] EXCEPT !.rest = @ \ {e}]
             known == [k EXCEPT !.handled = @ \cup {e}]
             alert == [k EXCEPT !.pc = "alert", !.at = e]
  <2>1. run[r].pc = "entries" /\ e \in run[r].rest
    BY <1>3 DEF NextEntry, In
  <2>2. /\ k \in RunStates /\ RunGood([k EXCEPT !.pc = "entries"], held)
        /\ e \in k.candidates \ (k.handled \cup k.rest)
    BY <1>0, <2>1, Taking
  <2>3. k.pc = "entries"
    BY <1>0, <2>1 DEF RunStates
  <2>4. RunGood(k, held) /\ alert \in RunStates /\ RunGood(alert, held)
    BY <2>2, <2>3 DEF RunStates, RunGood
  <2>5. known \in RunStates /\ RunGood(known, held)
    BY <2>2, <2>3 DEF RunStates, RunGood
  <2>6. \/ run' = [run EXCEPT ![r] = known]
        \/ run' = [run EXCEPT ![r] = k]
        \/ run' = [run EXCEPT ![r] = alert]
    BY <1>3 DEF NextEntry, Set
  <2> QED
    BY <2>2, <2>4, <2>5, <2>6 DEF Moves
<1>4. ASSUME NEW e \in Emails, NextRow(r, e)
      PROVE  \E j : Moves(r, j)
  <2> DEFINE k == [run[r] EXCEPT !.rest = @ \ {e}]
             alert == [k EXCEPT !.pc = "alert", !.at = e]
  <2>1. run[r].pc = "rows" /\ e \in run[r].rest
    BY <1>4 DEF NextRow, In
  <2>2. /\ k \in RunStates /\ RunGood([k EXCEPT !.pc = "entries"], held)
        /\ e \in k.candidates \ (k.handled \cup k.rest)
    BY <1>0, <2>1, Taking
  <2>3. k.pc = "rows"
    BY <1>0, <2>1 DEF RunStates
  <2>4. RunGood(k, held) /\ alert \in RunStates /\ RunGood(alert, held)
    BY <2>2, <2>3 DEF RunStates, RunGood
  <2>5. CASE e \in Triggers /\ Confirm(r, k, e)
    BY <2>2, <2>5, ConfirmMoves
  <2>6. CASE Set(r, k) \/ Set(r, alert)
    BY <2>2, <2>4, <2>6 DEF Set, Moves
  <2> QED
    BY <1>4, <2>5, <2>6 DEF NextRow
<1>5. CASE EntriesDone(r) \/ RowsDone(r)
  <2> DEFINE j == [run[r] EXCEPT !.pc = "alerts"]
  <2>1. run[r].pc \in {"entries", "rows"}
    BY <1>5 DEF EntriesDone, RowsDone, In
  <2>2. j \in RunStates /\ RunGood(j, held)
    BY <1>0, <2>1 DEF RunStates, RunGood
  <2>3. run' = [run EXCEPT ![r] = j] \/ run' = [run EXCEPT ![r] = Starting]
    BY <1>5 DEF EntriesDone, RowsDone, Set
  <2> QED
    BY <2>2, <2>3, StartingGood DEF Moves
<1>6. CASE AlertsReply(r)
  <2> DEFINE j(rows) == [run[r] EXCEPT !.pc = "rows", !.pass = "rows", !.rest = rows]
  <2>1. run[r].pc = "alerts"
    BY <1>6 DEF AlertsReply, In
  <2>2. \A rows \in SUBSET RowsOfInterest(run[r]) :
          j(rows) \in RunStates /\ RunGood(j(rows), held)
    BY <1>0, <2>1 DEF RunStates, RunGood, RowsOfInterest, Remaining
  <2>3. \/ \E rows \in SUBSET RowsOfInterest(run[r]) : run' = [run EXCEPT ![r] = j(rows)]
        \/ run' = [run EXCEPT ![r] = Starting]
    BY <1>6 DEF AlertsReply, Set
  <2> QED
    BY <2>2, <2>3, StartingGood DEF Moves
<1>7. CASE AlertReplies(r)
  <2> DEFINE e == run[r].at
  <2>1. /\ run[r].pc = "alert" /\ e \in Emails
        /\ e \in run[r].candidates \ (run[r].handled \cup run[r].rest)
        /\ RunGood([run[r] EXCEPT !.pc = "entries"], held)
    BY <1>0, <1>7 DEF AlertReplies, In, RunStates, RunGood
  <2>2. CASE e \in Triggers /\ Confirm(r, run[r], e)
    BY <1>0, <2>1, <2>2, ConfirmMoves
  <2>3. CASE Set(r, Back(run[r])) \/ Set(r, Starting)
    BY <1>0, <2>1, <2>3, GoingBack, StartingGood DEF Set, Moves
  <2> QED
    BY <1>7, <2>2, <2>3 DEF AlertReplies
<1>8. CASE RunMailed(r)
  <2>1. run[r].pc = "send" /\ run' = [run EXCEPT ![r] = Back(run[r])]
    BY <1>8 DEF RunMailed, In, Set
  <2>2. RunGood([run[r] EXCEPT !.pc = "entries"], held)
    BY <1>0, <2>1 DEF RunStates, RunGood
  <2> QED
    BY <1>0, <2>1, <2>2, GoingBack DEF Moves
<1> QED
  BY <1>1, <1>2, <1>3, <1>4, <1>5, <1>6, <1>7, <1>8 DEF RunStep

-------------------------------------------------------------------------------
(* What a step of a run does to the rest of the state. *)

Budgets == [{"push", "fault", "crash", "release"} -> Nat]

LEMMA Spending ==
  ASSUME budget \in Budgets
  PROVE  /\ (UNCHANGED budget \/ Spend("fault") \/ Spend("push") \/ Spend("release"))
              => budget' \in Budgets /\ budget'["crash"] = budget["crash"]
         /\ Spend("crash")
              => budget' \in Budgets /\ budget'["crash"] = budget["crash"] - 1
<1>1. ASSUME NEW b \in {"push", "fault", "crash", "release"}, Spend(b)
      PROVE  budget' \in Budgets
  BY <1>1 DEF Budgets, Spend
<1>2. Spend("fault") \/ Spend("push") \/ Spend("release") => budget'["crash"] = budget["crash"]
  BY DEF Budgets, Spend
<1>3. Spend("crash") => budget'["crash"] = budget["crash"] - 1
  BY DEF Budgets, Spend
<1> QED
  BY <1>1, <1>2, <1>3

\* The run works in silence, or begins to mail an e-mail that has no case or a
\* RECEIVED one, or hears from the mail server.
Effect(r) ==
  /\ UNCHANGED <<held, hook, up>>
  /\ budget' \in Budgets /\ budget'["crash"] = budget["crash"]
  /\ \/ /\ run[r].pc # "send" /\ run'[r].pc # "send"
        /\ UNCHANGED <<case, mails>>
     \/ /\ run[r].pc # "send" /\ run'[r].pc = "send"
        /\ Unmailed(run'[r].at)
        /\ case' = [case EXCEPT ![run'[r].at] = "received"]
        /\ UNCHANGED mails
     \/ /\ run[r].pc = "send" /\ run'[r].pc # "send"
        /\ MailerReplies(run[r].at)

LEMMA ConfirmEffects ==
  ASSUME TypeOK, NEW r \in Runs, NEW j \in RunStates, NEW e \in Emails,
         Confirm(r, j, e), run[r].pc # "send", UNCHANGED <<held, mails, hook, up, budget>>
  PROVE  Effect(r)
<1> DEFINE noted == [j EXCEPT !.handled = @ \cup {e}]
<1>1. noted \in RunStates /\ Back(noted).pc \in {"entries", "rows"}
  <2>1. noted \in RunStates
    BY DEF RunStates
  <2> HIDE DEF noted
  <2> QED
    BY <2>1, GoingBack
<1>2. run'[r] = IF Unmailed(e) THEN [noted EXCEPT !.pc = "send", !.at = e] ELSE Back(noted)
  BY DEF Confirm, Set, TypeOK
<1>3. CASE Unmailed(e)
  <2>1. run'[r].pc = "send" /\ run'[r].at = e
    BY <1>1, <1>2, <1>3 DEF RunStates
  <2>2. case' = [case EXCEPT ![e] = "received"]
    BY <1>3 DEF Confirm
  <2> QED
    BY <1>3, <2>1, <2>2 DEF Effect, TypeOK, Budgets
<1>4. CASE ~Unmailed(e)
  <2>1. run'[r].pc # "send"
    BY <1>1, <1>2, <1>4 DEF RunStates
  <2>2. UNCHANGED case
    BY <1>4 DEF Confirm
  <2> QED
    BY <2>1, <2>2 DEF Effect, TypeOK, Budgets
<1> QED
  BY <1>3, <1>4

LEMMA RunEffects ==
  ASSUME TypeOK, NEW r \in Runs, RunStep(r)
  PROVE  Effect(r)
<1>0. /\ run[r] \in RunStates /\ budget \in Budgets
      /\ run[r].pass \in {"entries", "rows"}
      /\ Starting.pc = "idle" /\ Starting \in RunStates
      /\ \A j : Set(r, j) => run'[r] = j
  BY StartingGood DEF TypeOK, RunStates, Budgets, Starting, Set
<1>1. CASE Begin(r) \/ EntriesDone(r) \/ RowsDone(r)
  <2>1. run'[r].pc \in {"list", "alerts", "idle"}
    BY <1>0, <1>1 DEF Begin, EntriesDone, RowsDone, RunStates
  <2> QED
    BY <1>0, <1>1, <2>1 DEF Begin, EntriesDone, RowsDone, In, Effect
<1>2. CASE ListReplies(r) \/ AlertsReply(r)
  <2>1. run'[r].pc \in {"entries", "rows", "idle"}
    BY <1>0, <1>2 DEF ListReplies, AlertsReply, RunStates
  <2>2. budget' \in Budgets /\ budget'["crash"] = budget["crash"]
    BY <1>0, <1>2, Spending DEF ListReplies, AlertsReply
  <2> QED
    BY <1>2, <2>1, <2>2 DEF ListReplies, AlertsReply, In, Effect
<1>3. ASSUME NEW e \in Emails, NextEntry(r, e)
      PROVE  Effect(r)
  <2>1. run'[r].pc \in {"entries", "alert"}
    BY <1>0, <1>3 DEF NextEntry, In, RunStates
  <2> QED
    BY <1>0, <1>3, <2>1 DEF NextEntry, In, Effect
<1>4. ASSUME NEW e \in Emails, NextRow(r, e)
      PROVE  Effect(r)
  <2> DEFINE k == [run[r] EXCEPT !.rest = @ \ {e}]
             asked == [k EXCEPT !.pc = "alert", !.at = e]
  <2>1. /\ run[r].pc = "rows" /\ k \in RunStates
        /\ k.pc = "rows" /\ asked.pc = "alert"
        /\ UNCHANGED <<held, mails, hook, up, budget>>
    BY <1>0, <1>4 DEF NextRow, In, RunStates
  <2>2. CASE Confirm(r, k, e)
    BY <2>1, <2>2, ConfirmEffects
  <2>3. CASE (Set(r, k) \/ Set(r, asked)) /\ UNCHANGED case
    <3>1. run'[r] = k \/ run'[r] = asked
      BY <1>0, <2>3
    <3> QED
      BY <1>0, <2>1, <2>3, <3>1 DEF Effect
  <2> QED
    BY <1>4, <2>2, <2>3 DEF NextRow
<1>5. CASE AlertReplies(r)
  <2> DEFINE e == run[r].at
             back == Back(run[r])
  <2>1. /\ run[r].pc = "alert" /\ e \in Emails
        /\ back.pc # "send"
        /\ UNCHANGED <<held, mails, hook, up>>
    BY <1>0, <1>5, GoingBack DEF AlertReplies, In, RunStates
  <2>2. CASE Confirm(r, run[r], e) /\ UNCHANGED budget
    BY <1>0, <2>1, <2>2, ConfirmEffects
  <2>3. CASE /\ Set(r, back) \/ Set(r, Starting)
             /\ UNCHANGED case
             /\ UNCHANGED budget \/ Spend("fault")
    <3>1. run'[r].pc # "send"
      BY <1>0, <2>1, <2>3
    <3>2. budget' \in Budgets /\ budget'["crash"] = budget["crash"]
      BY <1>0, <2>3, Spending
    <3> QED
      BY <2>1, <2>3, <3>1, <3>2 DEF Effect
  <2> QED
    BY <1>5, <2>2, <2>3 DEF AlertReplies
<1>6. CASE RunMailed(r)
  <2>1. run[r].pc = "send" /\ run'[r].pc # "send"
    BY <1>0, <1>6, GoingBack DEF RunMailed, In
  <2>2. budget' \in Budgets /\ budget'["crash"] = budget["crash"]
    BY <1>0, <1>6, Spending DEF RunMailed, MailerReplies
  <2> QED
    BY <1>6, <2>1, <2>2 DEF RunMailed, Effect
<1> QED
  BY <1>1, <1>2, <1>3, <1>4, <1>5, <1>6 DEF RunStep

\* The sorts of step, as the proofs below go through them.
RunTurn(r) == Effect(r) /\ Moves(r, run'[r])

LEMMA StepSorts ==
  ASSUME TypeOK, RunsGood, [Next]_vars
  PROVE  \/ \E r \in Runs : RunTurn(r)
         \/ \E e \in Emails : WebhookPush(e)
         \/ \E e \in Emails : WebhookMailed(e)
         \/ \E e \in Emails : LeavesQuarantine(e)
         \/ Crash
         \/ Restart
         \/ UNCHANGED vars
<1>1. ASSUME NEW r \in Runs, RunStep(r)
      PROVE  RunTurn(r)
  <2>1. PICK j : Moves(r, j)
    BY <1>1, RunMoves
  <2>2. run'[r] = j
    BY <2>1 DEF Moves, TypeOK
  <2>3. Effect(r)
    BY <1>1, RunEffects
  <2> QED
    BY <2>1, <2>2, <2>3 DEF RunTurn
<1> QED
  BY <1>1 DEF Next

-------------------------------------------------------------------------------
(* Types, and the consistency of the runs *)

LEMMA MailerTypes ==
  ASSUME TypeOK, NEW e \in Emails, MailerReplies(e)
  PROVE  case' \in [Emails -> CaseStates] /\ mails' \in [Emails -> Nat]
BY DEF TypeOK, MailerReplies, CaseStates

LEMMA TypeStep ==
  ASSUME TypeOK, RunsGood, [Next]_vars
  PROVE  TypeOK' /\ RunsGood'
<1> USE DEF Budgets
<1>1. ASSUME NEW r \in Runs, RunTurn(r)
      PROVE  TypeOK' /\ RunsGood'
  <2>1. run' \in [Runs -> RunStates] /\ RunsGood'
    BY <1>1 DEF RunTurn, Effect, Moves, TypeOK, RunsGood
  <2>2. case' \in [Emails -> CaseStates] /\ mails' \in [Emails -> Nat]
    <3>1. run[r].at \in Emails /\ run'[r].at \in Emails
      BY <2>1 DEF TypeOK, RunStates
    <3> QED
      BY <1>1, <3>1, MailerTypes DEF RunTurn, Effect, TypeOK, CaseStates
  <2> QED
    BY <1>1, <2>1, <2>2 DEF RunTurn, Effect, TypeOK
<1>2. ASSUME NEW e \in Emails, WebhookPush(e)
      PROVE  TypeOK' /\ RunsGood'
  <2>1. budget' \in Budgets
    BY <1>2, Spending DEF WebhookPush, TypeOK
  <2>2. case' \in [Emails -> CaseStates] /\ hook' \in [Emails -> Nat]
    BY <1>2 DEF WebhookPush, TypeOK, CaseStates
  <2> QED
    BY <1>2, <2>1, <2>2 DEF WebhookPush, TypeOK, RunsGood
<1>3. ASSUME NEW e \in Emails, WebhookMailed(e)
      PROVE  TypeOK' /\ RunsGood'
  <2>1. budget' \in Budgets
    BY <1>3, Spending DEF WebhookMailed, MailerReplies, TypeOK
  <2>2. hook' \in [Emails -> Nat]
    BY <1>3 DEF WebhookMailed, TypeOK
  <2>3. case' \in [Emails -> CaseStates] /\ mails' \in [Emails -> Nat]
    BY <1>3, MailerTypes DEF WebhookMailed
  <2> QED
    BY <1>3, <2>1, <2>2, <2>3 DEF WebhookMailed, TypeOK, RunsGood
<1>4. CASE Crash
  <2>1. budget' \in Budgets
    BY <1>4, Spending DEF Crash, TypeOK
  <2> QED
    BY <1>4, <2>1, StartingGood DEF Crash, TypeOK, RunsGood
<1>5. CASE Restart
  BY <1>5 DEF Restart, TypeOK, RunsGood
<1>7. ASSUME NEW e \in Emails, LeavesQuarantine(e)
      PROVE  TypeOK' /\ RunsGood'
  <2>1. budget' \in Budgets
    BY <1>7, Spending DEF LeavesQuarantine, TypeOK
  <2>2. held' \subseteq held /\ UNCHANGED run
    BY <1>7 DEF LeavesQuarantine
  <2>3. RunsGood'
    BY <2>2 DEF RunsGood, RunGood
  <2> QED
    BY <1>7, <2>1, <2>2, <2>3 DEF LeavesQuarantine, TypeOK
<1>6. CASE UNCHANGED vars
  BY <1>6 DEF vars, TypeOK, RunsGood
<1> QED
  BY <1>1, <1>2, <1>3, <1>4, <1>5, <1>6, <1>7, StepSorts

LEMMA TypeInit == Init => TypeOK /\ RunsGood
  BY StartingGood, EmailsAssumption, BoundsAssumption DEF Init, TypeOK, RunsGood, CaseStates

\* Every variable has its type, and every run is consistent with its list.
THEOREM RunsStayGood == Spec => [](TypeOK /\ RunsGood)
<1>1. Init => TypeOK /\ RunsGood
  BY TypeInit
<1>2. TypeOK /\ RunsGood /\ [Next]_vars => TypeOK' /\ RunsGood'
  BY TypeStep
<1> QED
  BY <1>1, <1>2, PTL DEF Spec

\* Whatever leaves the quarantine before or during a run, and however runs and
\* pushes overlap, a run only mails trigger e-mails that EX still held when the
\* run began (run_reconcile: "quarantine-first").
THEOREM MailsOnlyHeldHolds == Spec => []MailsOnlyHeld
<1>1. TypeOK /\ RunsGood => MailsOnlyHeld
  BY DEF RunsGood, RunGood, MailsOnlyHeld
<1> QED
  BY <1>1, RunsStayGood, PTL

-------------------------------------------------------------------------------
(* Who is mailing, and what was mailed *)

HasSender(e) == hook[e] > 0 \/ \E r \in Runs : run[r].pc = "send" /\ run[r].at = e

\* A received case has a sender until a crash; what was mailed is not unmailed.
Watched ==
  /\ budget["crash"] <= MaxCrashes
  /\ \A e \in Emails :
       case[e] = "received" /\ budget["crash"] = MaxCrashes => HasSender(e)

MailedStays == \A e \in Emails : mails[e] > 0 => ~Unmailed(e)

LEMMA WatchedStep ==
  ASSUME TypeOK, RunsGood, Watched, [Next]_vars
  PROVE  Watched'
<1> USE BoundsAssumption DEF Budgets
<1>0. MaxCrashes \in Nat /\ budget \in Budgets /\ budget["crash"] \in Nat
  BY DEF TypeOK
<1>1. ASSUME NEW r \in Runs, RunTurn(r)
      PROVE  Watched'
  <2>1. /\ budget'["crash"] = budget["crash"] /\ UNCHANGED hook
        /\ \A q \in Runs \ {r} : run'[q] = run[q]
        /\ run[r].at \in Emails
    BY <1>1 DEF RunTurn, Effect, Moves, TypeOK, RunStates
  <2> SUFFICES ASSUME NEW e \in Emails,
                      case'[e] = "received", budget["crash"] = MaxCrashes
               PROVE  HasSender(e)'
    BY <1>0, <2>1 DEF Watched
  <2>2. CASE run'[r].pc = "send" /\ run'[r].at = e
    BY <2>2 DEF HasSender
  <2>3. CASE ~(run'[r].pc = "send" /\ run'[r].at = e)
    <3>1. case[e] = "received" /\ ~(run[r].pc = "send" /\ run[r].at = e)
      BY <1>1, <2>1, <2>3 DEF RunTurn, Effect, MailerReplies, TypeOK
    <3>2. HasSender(e)
      BY <3>1 DEF Watched
    <3> QED
      BY <2>1, <3>1, <3>2 DEF HasSender
  <2> QED
    BY <2>2, <2>3
<1>2. ASSUME NEW e \in Emails, WebhookPush(e)
      PROVE  Watched'
  <2>1. budget'["crash"] = budget["crash"] /\ UNCHANGED run
    BY <1>2, Spending DEF WebhookPush, TypeOK
  <2>2. ASSUME NEW f \in Emails, case'[f] = "received", budget["crash"] = MaxCrashes
        PROVE  HasSender(f)'
    <3>1. hook[f] \in Nat /\ hook'[f] \in Nat /\ hook'[f] >= hook[f]
      BY <1>2 DEF WebhookPush, TypeOK
    <3>2. CASE f = e /\ Unmailed(e)
      BY <1>2, <3>2 DEF WebhookPush, TypeOK, HasSender
    <3>3. CASE ~(f = e /\ Unmailed(e))
      <4>1. case[f] = "received"
        <5>1. CASE Unmailed(e)
          <6>1. f # e
            BY <3>3, <5>1
          <6>2. case' = [case EXCEPT ![e] = "received"]
            BY <1>2, <5>1 DEF WebhookPush
          <6> QED
            BY <2>2, <6>1, <6>2 DEF TypeOK
        <5>2. CASE ~Unmailed(e)
          BY <1>2, <2>2, <5>2 DEF WebhookPush
        <5> QED
          BY <5>1, <5>2
      <4>2. HasSender(f)
        BY <2>2, <4>1 DEF Watched
      <4> QED
        BY <2>1, <3>1, <4>2 DEF HasSender
    <3> QED
      BY <3>2, <3>3
  <2> QED
    BY <2>1, <2>2 DEF Watched
<1>3. ASSUME NEW e \in Emails, WebhookMailed(e)
      PROVE  Watched'
  <2>1. budget'["crash"] = budget["crash"] /\ UNCHANGED run
    BY <1>0, <1>3, Spending DEF WebhookMailed, MailerReplies
  <2>2. ASSUME NEW f \in Emails, case'[f] = "received", budget["crash"] = MaxCrashes
        PROVE  HasSender(f)'
    <3>1. f # e /\ case[f] = "received"
      BY <1>3, <2>2 DEF WebhookMailed, MailerReplies, TypeOK
    <3>2. hook'[f] = hook[f]
      BY <1>3, <3>1 DEF WebhookMailed, TypeOK
    <3>3. HasSender(f)
      BY <2>2, <3>1 DEF Watched
    <3> QED
      BY <2>1, <3>2, <3>3 DEF HasSender
  <2> QED
    BY <2>1, <2>2 DEF Watched
<1>4. CASE Crash
  <2>1. budget'["crash"] = budget["crash"] - 1
    BY <1>0, <1>4, Spending DEF Crash
  <2> QED
    BY <1>0, <2>1 DEF Watched
<1>5. CASE Restart
  BY <1>5 DEF Restart, Watched, HasSender
<1>7. ASSUME NEW e \in Emails, LeavesQuarantine(e)
      PROVE  Watched'
  <2>1. budget'["crash"] = budget["crash"] /\ UNCHANGED <<case, run, hook>>
    BY <1>0, <1>7, Spending DEF LeavesQuarantine
  <2> QED
    BY <2>1 DEF Watched, HasSender
<1>6. CASE UNCHANGED vars
  BY <1>6 DEF vars, Watched, HasSender
<1> QED
  BY <1>1, <1>2, <1>3, <1>4, <1>5, <1>6, <1>7, StepSorts

LEMMA MailedStep ==
  ASSUME TypeOK, RunsGood, MailedStays, [Next]_vars
  PROVE  MailedStays'
<1> USE DEF Unmailed
<1>1. ASSUME NEW r \in Runs, RunTurn(r)
      PROVE  MailedStays'
  <2>1. run[r].at \in Emails /\ run'[r].at \in Emails
    BY <1>1 DEF RunTurn, Moves, TypeOK, RunStates
  <2> QED
    BY <1>1, <2>1 DEF RunTurn, Effect, MailerReplies, TypeOK, MailedStays
<1>2. ASSUME NEW e \in Emails, WebhookPush(e)
      PROVE  MailedStays'
  BY <1>2 DEF WebhookPush, TypeOK, MailedStays
<1>3. ASSUME NEW e \in Emails, WebhookMailed(e)
      PROVE  MailedStays'
  BY <1>3 DEF WebhookMailed, MailerReplies, TypeOK, MailedStays
<1>4. CASE Crash \/ Restart \/ (\E e \in Emails : LeavesQuarantine(e)) \/ UNCHANGED vars
  BY <1>4 DEF Crash, Restart, LeavesQuarantine, vars, MailedStays
<1> QED
  BY <1>1, <1>2, <1>3, <1>4, StepSorts

\* In the terms of the specification, which counts the senders.
LEMMA CountingSenders ==
  ASSUME TypeOK, NEW e \in Emails
  PROVE  HasSender(e) => Senders(e) > 0
<1> DEFINE S == {r \in Runs : run[r].pc = "send" /\ run[r].at = e}
<1>1. IsFiniteSet(S)
  BY RunsAssumption, FS_Subset
<1>2. Cardinality(S) \in Nat
  BY <1>1, FS_CardinalityType
<1>3. hook[e] \in Nat
  BY DEF TypeOK
<1>4. S # {} => Cardinality(S) > 0
  BY <1>1, <1>2, FS_EmptySet
<1> QED
  BY <1>2, <1>3, <1>4 DEF HasSender, Senders

\* Until a crash, whoever created a case is mailing its link: get_or_create_case
\* and handle_alert never leave one behind, whichever handlers overlap.
THEOREM ReceivedHasSender == Spec => []ReceivedIsBeingMailed
<1>1. Init => Watched
  BY BoundsAssumption DEF Init, Watched
<1>2. TypeOK /\ RunsGood /\ Watched /\ [Next]_vars => Watched'
  BY WatchedStep
<1>3. TypeOK /\ Watched => ReceivedIsBeingMailed
  BY CountingSenders DEF Watched, ReceivedIsBeingMailed
<1> QED
  BY <1>1, <1>2, <1>3, RunsStayGood, PTL DEF Spec

\* A step adds no sender for an e-mail that was mailed.
LEMMA NoNewSender ==
  ASSUME TypeOK, RunsGood, MailedStays, [Next]_vars,
         NEW e \in Emails, mails[e] > 0
  PROVE  /\ hook'[e] <= hook[e]
         /\ {r \in Runs : run'[r].pc = "send" /\ run'[r].at = e}
              \subseteq {r \in Runs : run[r].pc = "send" /\ run[r].at = e}
<1>0. ~Unmailed(e) /\ hook[e] \in Nat
  BY DEF MailedStays, TypeOK
<1>1. ASSUME NEW r \in Runs, RunTurn(r)
      PROVE  /\ UNCHANGED hook
             /\ \A q \in Runs : run'[q].pc = "send" /\ run'[q].at = e
                                  => run[q].pc = "send" /\ run[q].at = e
  <2>1. /\ UNCHANGED hook
        /\ \A q \in Runs \ {r} : run'[q] = run[q]
    BY <1>1 DEF RunTurn, Effect, Moves, TypeOK
  <2>2. ~(run'[r].pc = "send" /\ run'[r].at = e)
    BY <1>0, <1>1 DEF RunTurn, Effect
  <2> QED
    BY <2>1, <2>2
<1>2. ASSUME NEW f \in Emails, WebhookPush(f)
      PROVE  UNCHANGED run /\ hook'[e] = hook[e]
  BY <1>0, <1>2 DEF WebhookPush, TypeOK
<1>3. ASSUME NEW f \in Emails, WebhookMailed(f)
      PROVE  UNCHANGED run /\ hook'[e] <= hook[e]
  BY <1>0, <1>3 DEF WebhookMailed, TypeOK
<1>4. CASE Crash
  BY <1>0, <1>4 DEF Crash, Starting
<1>5. CASE Restart \/ (\E f \in Emails : LeavesQuarantine(f)) \/ UNCHANGED vars
  BY <1>0, <1>5 DEF Restart, LeavesQuarantine, vars
<1> QED
  BY <1>0, <1>1, <1>2, <1>3, <1>4, <1>5, StepSorts

\* Reconcile and the webhook are idempotent as far as the look at the state
\* in handle_alert makes them: nobody starts to mail what was mailed.
THEOREM MailedStaysMailed == Spec => MailedStartsNoOther
<1>1. Init => MailedStays
  BY DEF Init, MailedStays
<1>2. TypeOK /\ RunsGood /\ MailedStays /\ [Next]_vars => MailedStays'
  BY MailedStep
<1>3. ASSUME TypeOK, RunsGood, MailedStays, [Next]_vars
      PROVE  [\A e \in Emails : mails[e] > 0 => Senders(e)' <= Senders(e)]_vars
  <2> SUFFICES ASSUME NEW e \in Emails, mails[e] > 0
               PROVE  Senders(e)' <= Senders(e)
    OBVIOUS
  <2> DEFINE S == {r \in Runs : run[r].pc = "send" /\ run[r].at = e}
             T == {r \in Runs : run'[r].pc = "send" /\ run'[r].at = e}
  <2>1. T \subseteq S /\ hook'[e] <= hook[e]
    BY <1>3, NoNewSender
  <2>2. IsFiniteSet(S)
    BY RunsAssumption, FS_Subset
  <2>3. Cardinality(T) <= Cardinality(S)
    BY <2>1, <2>2, FS_Subset
  <2>4. Cardinality(S) \in Nat /\ Cardinality(T) \in Nat
    BY <2>1, <2>2, FS_Subset, FS_CardinalityType
  <2>5. hook[e] \in Nat /\ hook'[e] \in Nat
    BY <1>3, TypeStep DEF TypeOK
  <2>6. Senders(e) = hook[e] + Cardinality(S) /\ Senders(e)' = hook'[e] + Cardinality(T)
    BY DEF Senders
  <2> HIDE DEF S, T
  <2> QED
    BY <2>1, <2>3, <2>4, <2>5, <2>6
<1> QED
  BY <1>1, <1>2, <1>3, RunsStayGood, PTL DEF Spec, MailedStartsNoOther
===============================================================================
