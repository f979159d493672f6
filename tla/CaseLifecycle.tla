----------------------------- MODULE CaseLifecycle -----------------------------
(***************************************************************************)
(* The life of a case as its recipient and its operator see it (README.md, *)
(* domain.FlowState): the recipient is asked, answers, the e-mail is       *)
(* analysed, and the case is settled or given up.  No word of coroutines,  *)
(* sweeps, retries or transactions: what matters is which errands are      *)
(* under way for a case, why each was begun, and what it may do to the     *)
(* case when it ends.  Errands of a case overlap, end in any order, and    *)
(* all of them are lost when the process dies.                             *)
(***************************************************************************)
EXTENDS Integers

CONSTANTS Cases, MaxAttempts

VARIABLES
  stage,    \* where the case is
  secret,   \* a password is stored for it
  rescans,  \* rescans EX took
  wrong,    \* wrong passwords counted
  errands   \* what is under way for it

vars == <<stage, secret, rescans, wrong, errands>>

Stages == {"unknown", "unasked", "asked", "answered", "analysing", "settled", "given_up"}

\* A failed mail to be sent again, the link on its way to the mail server, a
\* rescan being requested, the quarantine list being asked for a verdict.
Errands == {"retry", "link", "rescan", "verdict"}

Init ==
  /\ stage = [c \in Cases |-> "unknown"]
  /\ secret = [c \in Cases |-> FALSE]
  /\ rescans = [c \in Cases |-> 0]
  /\ wrong = [c \in Cases |-> 0]
  /\ errands = [c \in Cases |-> {}]

Becomes(c, s) == stage' = [stage EXCEPT ![c] = s]

\* Errands end at any time; only case c may get new ones.
Begun(c, new) ==
  /\ errands' \in [Cases -> SUBSET Errands]
  /\ \A d \in Cases : errands'[d] \subseteq errands[d] \cup (IF d = c THEN new ELSE {})
NoneBegun(c) == Begun(c, {})

\* What calls for an errand that begins by itself, by a person or by a push.
CalledFor(c, e) ==
  \/ e = "retry" /\ stage[c] = "unasked"
  \/ e = "link" /\ (stage[c] \in {"unasked", "asked"} \/ "retry" \in errands[c])
  \/ e = "rescan" /\ stage[c] = "answered" /\ secret[c]
  \/ e = "verdict" /\ stage[c] = "analysing"

Dispatch ==
  /\ errands' \in [Cases -> SUBSET Errands]
  /\ \A c \in Cases : \A e \in errands'[c] \ errands[c] : CalledFor(c, e)
  /\ UNCHANGED <<stage, secret, rescans, wrong>>

Register(c) ==
  /\ stage[c] = "unknown"
  /\ Becomes(c, "unasked")
  /\ Begun(c, {"link"})
  /\ UNCHANGED <<secret, rescans, wrong>>

\* The link was sent, or could not be.
LinkEnds(c) ==
  /\ "link" \in errands[c]
  /\ \E s \in {"asked", "unasked"} : Becomes(c, s)
  /\ NoneBegun(c)
  /\ UNCHANGED <<secret, rescans, wrong>>

\* A mail comes back.  It ends whatever is not settled.
Bounce(c) ==
  /\ stage[c] \in {"unasked", "asked", "answered", "analysing"}
  /\ Becomes(c, "unasked")
  /\ NoneBegun(c)
  /\ UNCHANGED <<secret, rescans, wrong>>

\* The password may be stored and the process die before the case has moved.
Answer(c) ==
  /\ stage[c] = "asked"
  /\ \E s \in {"asked", "answered"} : Becomes(c, s)
  /\ secret' = [secret EXCEPT ![c] = TRUE]
  /\ NoneBegun(c)
  /\ UNCHANGED <<rescans, wrong>>

RescanFails(c) ==
  /\ "rescan" \in errands[c]
  /\ Becomes(c, "answered")
  /\ NoneBegun(c)
  /\ UNCHANGED <<secret, rescans, wrong>>

\* EX took the rescan: that is on record first, then the password is dropped,
\* then the case moves.
RescanTaken(c) ==
  /\ "rescan" \in errands[c]
  /\ rescans' = [rescans EXCEPT ![c] = @ + 1]
  /\ \/ UNCHANGED <<secret, stage>>
     \/ /\ secret' = [secret EXCEPT ![c] = FALSE]
        /\ \E s \in {stage[c], "analysing"} : Becomes(c, s)
  /\ NoneBegun(c)
  /\ UNCHANGED wrong

\* The password is dropped before the case is settled.
VerdictRead(c) ==
  /\ "verdict" \in errands[c]
  /\ secret' = [secret EXCEPT ![c] = FALSE]
  /\ \E s \in {stage[c], "settled"} : Becomes(c, s)
  /\ NoneBegun(c)
  /\ UNCHANGED <<rescans, wrong>>

\* EX reports a wrong password: the recipient is asked again, or it was the
\* last one allowed.
WrongPassword(c) ==
  /\ stage[c] \in {"analysing", "settled"}
  /\ wrong' = [wrong EXCEPT ![c] = @ + 1]
  /\ IF wrong'[c] >= MaxAttempts
     THEN (\E s \in {stage[c], "given_up"} : Becomes(c, s)) /\ NoneBegun(c)
     ELSE Begun(c, {"link"}) /\ UNCHANGED stage
  /\ UNCHANGED <<secret, rescans>>

Next ==
  \/ Dispatch
  \/ \E c \in Cases : \/ Register(c) \/ LinkEnds(c) \/ Bounce(c) \/ Answer(c)
                      \/ RescanFails(c) \/ RescanTaken(c)
                      \/ VerdictRead(c) \/ WrongPassword(c)

Spec == Init /\ [][Next]_vars

-------------------------------------------------------------------------------
\* What everybody may rely on, whatever overlaps and wherever the process was
\* killed: an e-mail under analysis, settled or given up was rescanned and no
\* password is stored for it, nobody is blamed for a wrong password before a
\* rescan, and a case is given up only at the number of attempts allowed.
Promise ==
  \A c \in Cases :
    /\ stage[c] \in {"analysing", "settled", "given_up"} => rescans[c] > 0 /\ ~secret[c]
    /\ wrong[c] > 0 => rescans[c] > 0
    /\ stage[c] = "given_up" => wrong[c] >= MaxAttempts
===============================================================================
