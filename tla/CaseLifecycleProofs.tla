-------------------------- MODULE CaseLifecycleProofs --------------------------
(***************************************************************************)
(* The lifecycle keeps its promise: an argument about stages and errands   *)
(* alone, which FlowEngineProofs carries over to the flow.                 *)
(***************************************************************************)
EXTENDS CaseLifecycle, TLAPS

\* Every variable has its type.
Typed ==
  /\ stage \in [Cases -> Stages]
  /\ secret \in [Cases -> BOOLEAN]
  /\ rescans \in [Cases -> Nat]
  /\ wrong \in [Cases -> Nat]
  /\ errands \in [Cases -> SUBSET Errands]

LEMMA TypedStep ==
  ASSUME Typed, [Next]_vars
  PROVE  Typed'
<1>1. CASE UNCHANGED vars
  BY <1>1 DEF vars, Typed
<1>2. CASE Dispatch
  BY <1>2 DEF Dispatch, Typed
<1>3. \A c \in Cases : \A s \in Stages : Becomes(c, s) => stage' \in [Cases -> Stages]
  BY DEF Becomes, Typed
<1>4. \A c \in Cases : \A new : Begun(c, new) => errands' \in [Cases -> SUBSET Errands]
  BY DEF Begun
<1>5. ASSUME NEW c \in Cases,
             \/ Register(c) \/ LinkEnds(c) \/ Bounce(c) \/ Answer(c)
             \/ RescanFails(c) \/ VerdictRead(c)
      PROVE  Typed'
  <2>1. errands' \in [Cases -> SUBSET Errands] /\ UNCHANGED <<rescans, wrong>>
    BY <1>4, <1>5 DEF Register, LinkEnds, Bounce, Answer, RescanFails, VerdictRead, NoneBegun
  <2>2. \E s \in Stages : Becomes(c, s)
    BY <1>5 DEF Register, LinkEnds, Bounce, Answer, RescanFails, VerdictRead, Stages, Typed
  <2>3. secret' \in [Cases -> BOOLEAN]
    BY <1>5 DEF Register, LinkEnds, Bounce, Answer, RescanFails, VerdictRead, Typed
  <2> QED
    BY <1>3, <2>1, <2>2, <2>3 DEF Typed
<1>6. ASSUME NEW c \in Cases, RescanTaken(c)
      PROVE  Typed'
  <2>1. errands' \in [Cases -> SUBSET Errands] /\ UNCHANGED wrong
    BY <1>4, <1>6 DEF RescanTaken, NoneBegun
  <2>2. stage' \in [Cases -> Stages]
    BY <1>3, <1>6 DEF RescanTaken, Stages, Typed
  <2>3. rescans' \in [Cases -> Nat]
    BY <1>6 DEF RescanTaken, Typed
  <2>4. secret' \in [Cases -> BOOLEAN]
    BY <1>6 DEF RescanTaken, Typed
  <2> QED
    BY <2>1, <2>2, <2>3, <2>4 DEF Typed
<1>7. ASSUME NEW c \in Cases, WrongPassword(c)
      PROVE  Typed'
  <2>1. errands' \in [Cases -> SUBSET Errands] /\ UNCHANGED <<secret, rescans>>
    BY <1>4, <1>7 DEF WrongPassword, NoneBegun
  <2>2. stage' \in [Cases -> Stages]
    BY <1>3, <1>7 DEF WrongPassword, Stages, Typed
  <2>3. wrong' \in [Cases -> Nat]
    BY <1>7 DEF WrongPassword, Typed
  <2> QED
    BY <2>1, <2>2, <2>3 DEF Typed
<1> QED
  BY <1>1, <1>2, <1>5, <1>6, <1>7 DEF Next

-------------------------------------------------------------------------------
\* A query for a verdict was begun after a rescan.  The promise needs this:
\* the answer may come when the stage no longer tells.
VerdictsAreDue == \A c \in Cases : "verdict" \in errands[c] => rescans[c] > 0

Kept == Typed /\ VerdictsAreDue /\ Promise

\* The promise to one case, with what it needs.
KeptFor(c) ==
  /\ "verdict" \in errands[c] => rescans[c] > 0
  /\ stage[c] \in {"analysing", "settled", "given_up"} => rescans[c] > 0 /\ ~secret[c]
  /\ wrong[c] > 0 => rescans[c] > 0
  /\ stage[c] = "given_up" => wrong[c] >= MaxAttempts

\* What a step does to the cases it is not about, and to the errands of any.
LEMMA OthersKept ==
  ASSUME Typed, NEW c \in Cases, NEW new, Begun(c, new), NEW d \in Cases, KeptFor(d),
         stage'[d] = stage[d], secret'[d] = secret[d] \/ ~secret'[d],
         rescans'[d] = rescans[d], wrong'[d] = wrong[d],
         "verdict" \notin new \/ d # c
  PROVE  KeptFor(d)'
BY DEF Typed, Begun, KeptFor

LEMMA KeptStep ==
  ASSUME Kept, [Next]_vars
  PROVE  Kept'
<1>1. Typed'
  BY TypedStep DEF Kept
<1>2. \A d \in Cases : KeptFor(d)
  BY DEF Kept, VerdictsAreDue, Promise, KeptFor
<1> SUFFICES ASSUME NEW d \in Cases
             PROVE  KeptFor(d)'
  BY <1>1 DEF Kept, VerdictsAreDue, Promise, KeptFor
<1>3. CASE UNCHANGED vars
  BY <1>2, <1>3 DEF vars, KeptFor
<1>4. CASE Dispatch
  <2>1. "verdict" \in errands'[d] => "verdict" \in errands[d] \/ stage[d] = "analysing"
    BY <1>4 DEF Dispatch, CalledFor
  <2> QED
    BY <1>2, <1>4, <2>1 DEF Dispatch, KeptFor
<1>5. ASSUME NEW c \in Cases,
             \/ Register(c) \/ LinkEnds(c) \/ Bounce(c) \/ Answer(c)
             \/ RescanFails(c) \/ RescanTaken(c)
             \/ VerdictRead(c) \/ WrongPassword(c)
      PROVE  KeptFor(d)'
  <2>1. PICK new : Begun(c, new) /\ "verdict" \notin new
    BY <1>5 DEF Register, LinkEnds, Bounce, Answer, RescanFails, RescanTaken,
                VerdictRead, WrongPassword, NoneBegun
  <2>2. CASE d # c
    <3>1. stage'[d] = stage[d] /\ secret'[d] = secret[d]
          /\ rescans'[d] = rescans[d] /\ wrong'[d] = wrong[d]
      BY <1>5, <2>2 DEF Register, LinkEnds, Bounce, Answer, RescanFails, RescanTaken,
                        VerdictRead, WrongPassword, Becomes, Typed, Kept
    <3> QED
      BY <1>2, <2>1, <2>2, <3>1, OthersKept DEF Kept
  <2>3. CASE d = c
    <3>0. /\ KeptFor(c) /\ Typed
          /\ "verdict" \in errands'[c] => "verdict" \in errands[c]
          /\ \A s : Becomes(c, s) => stage'[c] = s
      BY <1>2, <2>1 DEF Kept, Typed, Begun, Becomes
    <3>1. CASE Register(c) \/ LinkEnds(c) \/ Bounce(c) \/ RescanFails(c)
      <4>1. /\ stage'[c] \in {"unasked", "asked", "answered"}
            /\ rescans'[c] = rescans[c] /\ wrong'[c] = wrong[c]
        BY <3>0, <3>1 DEF Register, LinkEnds, Bounce, RescanFails
      <4> QED
        BY <2>3, <3>0, <4>1 DEF KeptFor
    <3>2. CASE Answer(c)
      <4>1. /\ stage'[c] \in {"asked", "answered"}
            /\ rescans'[c] = rescans[c] /\ wrong'[c] = wrong[c]
        BY <3>0, <3>2 DEF Answer
      <4> QED
        BY <2>3, <3>0, <4>1 DEF KeptFor
    <3>3. CASE RescanTaken(c)
      <4>1. rescans'[c] = rescans[c] + 1 /\ wrong'[c] = wrong[c]
        BY <3>0, <3>3 DEF RescanTaken, Typed
      <4>2. \/ secret'[c] = secret[c] /\ stage'[c] = stage[c]
            \/ secret'[c] = FALSE /\ stage'[c] \in {stage[c], "analysing"}
        BY <3>0, <3>3 DEF RescanTaken, Typed
      <4>3. rescans[c] \in Nat
        BY <3>0 DEF Typed
      <4> QED
        BY <2>3, <3>0, <4>1, <4>2, <4>3 DEF KeptFor
    <3>4. CASE VerdictRead(c)
      <4>1. /\ ~secret'[c] /\ stage'[c] \in {stage[c], "settled"}
            /\ rescans'[c] = rescans[c] /\ wrong'[c] = wrong[c]
            /\ "verdict" \in errands[c]
        BY <3>0, <3>4 DEF VerdictRead, Typed
      <4> QED
        BY <2>3, <3>0, <4>1 DEF KeptFor
    <3>5. CASE WrongPassword(c)
      <4>1. /\ stage[c] \in {"analysing", "settled"}
            /\ secret'[c] = secret[c] /\ rescans'[c] = rescans[c]
        BY <3>5 DEF WrongPassword
      <4>2. stage'[c] = stage[c] \/ (stage'[c] = "given_up" /\ wrong'[c] >= MaxAttempts)
        <5>1. CASE wrong'[c] >= MaxAttempts
          BY <3>0, <3>5, <5>1 DEF WrongPassword
        <5>2. CASE ~(wrong'[c] >= MaxAttempts)
          BY <3>5, <5>2 DEF WrongPassword
        <5> QED
          BY <5>1, <5>2
      <4> QED
        BY <2>3, <3>0, <4>1, <4>2 DEF KeptFor
    <3> QED
      BY <1>5, <3>1, <3>2, <3>3, <3>4, <3>5
  <2> QED
    BY <2>2, <2>3
<1> QED
  BY <1>3, <1>4, <1>5 DEF Next

\* In every behaviour of the lifecycle the promise holds: no verdict and no
\* blame without a rescan, no password kept past it, and no case given up
\* early.
THEOREM PromiseKept == Spec => []Promise
<1>1. Init => Kept
  BY DEF Init, Kept, Typed, VerdictsAreDue, Promise, Stages, Errands
<1>2. Kept /\ [Next]_vars => Kept'
  BY KeptStep
<1>3. Kept => Promise
  BY DEF Kept
<1> QED
  BY <1>1, <1>2, <1>3, PTL DEF Spec

-------------------------------------------------------------------------------
\* A case is over: given up, and nothing is under way for it.
Over(c) == stage[c] = "given_up" /\ errands[c] = {}

\* What is over stays over: nothing calls for an errand, and nothing else can
\* move the case.
LEMMA OverStep ==
  ASSUME Typed, NEW c \in Cases, Over(c), [Next]_vars
  PROVE  Over(c)'
<1>1. CASE UNCHANGED vars
  BY <1>1 DEF vars, Over
<1>2. CASE Dispatch
  <2>1. errands'[c] = {}
    BY <1>2 DEF Dispatch, CalledFor, Over
  <2> QED
    BY <1>2, <2>1 DEF Dispatch, Over
<1>3. ASSUME NEW d \in Cases,
             \/ Register(d) \/ LinkEnds(d) \/ Bounce(d) \/ Answer(d)
             \/ RescanFails(d) \/ RescanTaken(d)
             \/ VerdictRead(d) \/ WrongPassword(d)
      PROVE  Over(c)'
  <2>1. d # c
    BY <1>3 DEF Register, LinkEnds, Bounce, Answer, RescanFails, RescanTaken,
                VerdictRead, WrongPassword, Over
  <2>2. \E new : Begun(d, new)
    BY <1>3 DEF Register, LinkEnds, Bounce, Answer, RescanFails, RescanTaken,
                VerdictRead, WrongPassword, NoneBegun
  <2>3. stage'[c] = stage[c]
    BY <1>3, <2>1 DEF Register, LinkEnds, Bounce, Answer, RescanFails, RescanTaken,
                      VerdictRead, WrongPassword, Becomes, Typed
  <2> QED
    BY <2>1, <2>2, <2>3 DEF Begun, Over
<1> QED
  BY <1>1, <1>2, <1>3 DEF Next

\* A case that was given up, with nothing under way, is never heard of again:
\* no mail, no rescan, no verdict, whatever arrives for it.
THEOREM GivenUpIsFinal == Spec => \A c \in Cases : [](Over(c) => []Over(c))
<1>1. Init => Typed
  BY DEF Init, Typed, Stages, Errands
<1>2. Typed /\ [Next]_vars => Typed'
  BY TypedStep
<1>3. ASSUME NEW c \in Cases
      PROVE  Spec => [](Over(c) => []Over(c))
  <2>1. Typed /\ Over(c) /\ [Next]_vars => Over(c)'
    BY OverStep
  <2> QED
    BY <1>1, <1>2, <2>1, PTL DEF Spec
<1> QED
  BY <1>3
===============================================================================
