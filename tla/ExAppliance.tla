------------------------------ MODULE ExAppliance ------------------------------
(***************************************************************************)
(* The EX appliance as the program sees it, and the three readings         *)
(* ex_client.EXClient takes of its quarantine list.                        *)
(*                                                                         *)
(* The appliance itself is external.  It holds each e-mail under its queue *)
(* id (the original, with a file that can be rescanned) and, when a rescan *)
(* was detected again, under the queue id with "_RA" (a record without a   *)
(* file).  A rescan is accepted at once and analysed later; a detection is *)
(* in the list before it is pushed, and a push may arrive late or several  *)
(* times.  An e-mail found clean is delivered; its entries leave the list, *)
(* or linger.                                                              *)
(***************************************************************************)
EXTENDS Naturals, FlowStates

CONSTANTS
  Emails,     \* e-mails EX has quarantined
  Harmful,    \* those with a malicious attachment under the password
  Siblings    \* TRUE: the e-mails share sender and subject

VARIABLES
  quarantine, \* the quarantine list
  analyses,   \* rescans accepted and not yet analysed
  taken,      \* taken[e]: rescans of e accepted so far
  pushed,     \* pushed[e]: kinds of re-detection EX has pushed for e
  detected,   \* e-mails a rescan of which EX detected again
  released    \* e-mails EX has delivered

exVars == <<quarantine, analyses, taken, pushed, detected, released>>

Original(e) == [email |-> e, kind |-> "original"]
Reanalysis(e) == [email |-> e, kind |-> "_RA"]
Entry == [email : Emails, kind : {"original", "_RA"}]

Results == { "encrypted", "malicious", "clean" }
Analysis == [email : Emails, id : Nat \ {0}, result : Results]
PushKinds == { "encrypted", "other" }

ExInit ==
  /\ quarantine = {Original(e) : e \in Emails}
  /\ analyses = {}
  /\ taken = [e \in Emails |-> 0]
  /\ pushed = [e \in Emails |-> {}]
  /\ detected = {}
  /\ released = {}

-------------------------------------------------------------------------------
(* Readings of the list.  Every query is narrowed by sender and subject.   *)

Narrowed(e) == {x \in quarantine : x.email = e \/ Siblings}

\* rescan_target: the entries it may return (the first one in list order).
RescanTargets(e) ==
  LET rescannable == {x \in Narrowed(e) : x.kind = "original"}
      exact == {x \in rescannable : x.email = e}
  IN  IF exact # {} THEN exact ELSE rescannable

\* (mutant) any re-analysis record among the results counts
AnyResubmissionQuarantine(e) == \E x \in Narrowed(e) : x.kind = "_RA"

HasResubmissionQuarantine(e) ==
  \E x \in Narrowed(e) : x.kind = "_RA" /\ x.email = e

\* (mutant) no re-analysis record is taken for a release
OutcomeWithoutPending(e) ==
  IF HasResubmissionQuarantine(e) THEN "held" ELSE "released"

Outcome(e) ==
  CASE HasResubmissionQuarantine(e) -> "held"
    [] ~HasResubmissionQuarantine(e) /\ Original(e) \in Narrowed(e) -> "pending"
    [] OTHER -> "released"

-------------------------------------------------------------------------------
(* Steps of the appliance *)

\* A rescan with the right password or a wrong one is accepted.
TakeRescan(e, right) ==
  /\ Original(e) \in quarantine
  /\ taken' = [taken EXCEPT ![e] = @ + 1]
  /\ analyses' = analyses \cup
       {[email |-> e, id |-> taken[e] + 1,
         result |-> IF ~right THEN "encrypted"
                    ELSE IF e \in Harmful THEN "malicious" ELSE "clean"]}
  /\ UNCHANGED <<quarantine, pushed, detected, released>>

\* EX answers 404 to a rescan of an e-mail it does not hold any more.
RefusesRescan(e) == Original(e) \notin quarantine

\* The attachment could not be opened, or is malicious: one or more pushes.
Detect(a) ==
  /\ a.result # "clean"
  /\ a.email \notin released
  /\ quarantine' = quarantine \cup {Reanalysis(a.email)}
  /\ detected' = detected \cup {a.email}
  /\ \E kinds \in SUBSET PushKinds :
       /\ ("encrypted" \in kinds) = (a.result = "encrypted")
       /\ pushed' = [pushed EXCEPT ![a.email] = @ \cup kinds]
  /\ UNCHANGED released

\* Found clean and delivered, perhaps with an alert that does not quarantine.
Release(a) ==
  /\ a.result = "clean"
  /\ released' = released \cup {a.email}
  /\ \E left \in SUBSET {x \in quarantine : x.email = a.email} :
       quarantine' = {x \in quarantine : x.email # a.email} \cup left
  /\ \E kinds \in SUBSET {"other"} :
       pushed' = [pushed EXCEPT ![a.email] = @ \cup kinds]
  /\ UNCHANGED detected

\* There is nothing left to deliver.
Delivered(a) ==
  /\ a.email \in released
  /\ UNCHANGED <<quarantine, pushed, detected, released>>

Analyse ==
  \E a \in analyses :
    /\ Detect(a) \/ Release(a) \/ Delivered(a)
    /\ analyses' = analyses \ {a}
    /\ UNCHANGED taken
===============================================================================
