---------------------------- MODULE SlidingWindow ----------------------------
(***************************************************************************)
(* What a rate limiter promises (web/ratelimit.py, the module's docstring  *)
(* and RateLimiter): at most Limit calls of a key are admitted in any      *)
(* Window, no call that leaves the limit free is refused, a refused call   *)
(* counts for nothing, and a key is forgotten early only when Capacity     *)
(* keys are in use, the longest unused first.                              *)
(*                                                                         *)
(* Time is discrete.  spent[k][a] is the number of calls of k admitted a   *)
(* ticks ago.                                                              *)
(***************************************************************************)
EXTENDS Integers, FiniteSets, Functions

CONSTANTS Keys, Limit, Window,
          Capacity,   \* keys in use at which some are forgotten
          Spared      \* how many of them are kept then

VARIABLE spent

Ages == 0 .. Window - 1
Unused == [a \in Ages |-> 0]
Used(f) == SumFunction(f)

InUse == {k \in Keys : spent[k] # Unused}

\* The last admitted call of f is not more recent than that of g.
NotLaterThan(f, g) == \A a \in Ages : f[a] > 0 => \E b \in 0 .. a : g[b] > 0

Forgettable ==
  {S \in SUBSET InUse :
     IF Cardinality(InUse) >= Capacity
     THEN /\ Cardinality(S) = Cardinality(InUse) - Spared
          /\ \A k \in S, j \in InUse \ S : NotLaterThan(spent[k], spent[j])
     ELSE S = {}}

Init == spent = [k \in Keys |-> Unused]

Left(S) == [k \in Keys |-> IF k \in S THEN Unused ELSE spent[k]]

Admit(k) == \E S \in Forgettable :
  /\ Used(Left(S)[k]) < Limit
  /\ spent' = [Left(S) EXCEPT ![k][0] = @ + 1]

Refuse(k) == \E S \in Forgettable :
  /\ Used(Left(S)[k]) >= Limit
  /\ spent' = Left(S)

AdmitAndClear(k) == \E S \in Forgettable :
  /\ Used(Left(S)[k]) < Limit
  /\ spent' = [Left(S) EXCEPT ![k] = Unused]

Restart == spent' = [k \in Keys |-> Unused]

Tick == spent' = [k \in Keys |->
                    [a \in Ages |-> IF a = 0 THEN 0 ELSE spent[k][a - 1]]]

Next == \/ \E k \in Keys : Admit(k) \/ Refuse(k) \/ AdmitAndClear(k)
        \/ Restart \/ Tick

Spec == Init /\ [][Next]_spent
===============================================================================
