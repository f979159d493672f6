----------------------------- MODULE RateLimiter -----------------------------
(***************************************************************************)
(* web/ratelimit.RateLimiter, as the login form (key: address) and the     *)
(* password form (key: address and link) use it.  allow() runs without a   *)
(* wait, so each call is one step.                                         *)
(*                                                                         *)
(* A deque of timestamps, oldest first, is represented by how many of them *)
(* have each age, in ticks of the clock; hits[k][Window] counts those the  *)
(* window has left behind and popleft has not removed yet.  A key that is  *)
(* not tracked has no entry in _hits.                                      *)
(***************************************************************************)
EXTENDS Integers, FiniteSets, Functions

CONSTANTS
  Keys,         \* addresses, or pairs of address and link
  Limit,        \* limit
  Window,       \* window_seconds, in ticks
  SweepEvery,   \* _SWEEP_EVERY
  MaxKeys       \* _MAX_KEYS

ASSUME RateAssumption ==
  /\ Limit \in Nat
  /\ Window \in Nat \ {0}
  /\ SweepEvery \in Nat \ {0}
  /\ MaxKeys \in Nat \ {0}
  /\ IsFiniteSet(Keys)

VARIABLES
  tracked,   \* the keys of _hits
  hits,      \* the deque of each key, by age
  calls      \* _calls modulo SweepEvery

vars == <<tracked, hits, calls>>

Fresh == 0 .. Window - 1
NoHits == [a \in 0 .. Window |-> 0]
InWindow(h) == [a \in Fresh |-> h[a]]
Count(h) == SumFunction(InWindow(h))

Init == /\ tracked = {}
        /\ hits = [k \in Keys |-> NoHits]
        /\ calls = 0

-------------------------------------------------------------------------------
(* _sweep *)

\* not hits or hits[-1] <= cutoff
Idle(h) == \A a \in Fresh : h[a] = 0

Kept == (MaxKeys * 9) \div 10

\* hits_k[-1] <= hits_j[-1]; sorted() may break ties either way.
HitBefore(h, g) == \A a \in Fresh : h[a] > 0 => \E b \in 0 .. a : g[b] > 0

\* (mutant) the idle keys go, the cap is not enforced
SurvivorsUncapped == {{k \in tracked : ~Idle(hits[k])}}

\* The sets of keys _sweep may leave.
Survivors ==
  LET busy == {k \in tracked : ~Idle(hits[k])}
  IN  IF Cardinality(busy) >= MaxKeys
      THEN {S \in SUBSET busy :
              /\ Cardinality(busy \ S) = Cardinality(busy) - Kept
              /\ \A k \in busy \ S, j \in S : HitBefore(hits[k], hits[j])}
      ELSE {busy}

Sweeps == (calls + 1) % SweepEvery = 0 \/ Cardinality(tracked) >= MaxKeys

-------------------------------------------------------------------------------
(* allow *)

\* (mutant) the keys go, their deques stay
SweptKeysOnly(S) == hits

Swept(S) == [k \in Keys |-> IF k \in S THEN hits[k] ELSE NoHits]

\* popleft while the head is out of the window
Trimmed(h) == [h EXCEPT ![Window] = 0]

Record(h) == [h EXCEPT ![0] = @ + 1]

\* allow(k), when the sweep has left S and the deque of k ends up as h
Allow(k, S, h) ==
  /\ calls' = (calls + 1) % SweepEvery
  /\ tracked' = S \cup {k}
  /\ hits' = [Swept(S) EXCEPT ![k] = h]

Remaining == IF Sweeps THEN Survivors ELSE {tracked}

\* (mutant) one too many
AdmittedOneMore(k) == \E S \in Remaining :
  LET h == Trimmed(Swept(S)[k])
  IN  Count(h) <= Limit /\ Allow(k, S, Record(h))

Admitted(k) == \E S \in Remaining :
  LET h == Trimmed(Swept(S)[k])
  IN  Count(h) < Limit /\ Allow(k, S, Record(h))
\* (mutant) refused calls are recorded too, as if they had been admitted
RefusedRecorded(k) == \E S \in Remaining :
  LET h == Trimmed(Swept(S)[k])
  IN  Count(h) >= Limit /\ Allow(k, S, [NoHits EXCEPT ![0] = Limit])
Refused(k) == \E S \in Remaining :
  LET h == Trimmed(Swept(S)[k])
  IN  Count(h) >= Limit /\ Allow(k, S, h)

\* A sign-in with the right password: allow(), then reset(ip).
SignedIn(k) == \E S \in Remaining :
  /\ Count(Trimmed(Swept(S)[k])) < Limit
  /\ calls' = (calls + 1) % SweepEvery
  /\ tracked' = S \ {k}
  /\ hits' = [Swept(S) EXCEPT ![k] = NoHits]

-------------------------------------------------------------------------------
(* The clock, and a restart: the counters live in memory. *)

Older(h) == [a \in 0 .. Window |->
               IF a = 0 THEN 0
               ELSE h[a - 1] + (IF a = Window THEN h[a] ELSE 0)]

Tick == /\ hits' = [k \in Keys |-> Older(hits[k])]
        /\ UNCHANGED <<tracked, calls>>

Restart == /\ tracked' = {}
           /\ hits' = [k \in Keys |-> NoHits]
           /\ calls' = 0

Next == \/ \E k \in Keys : Admitted(k) \/ Refused(k) \/ SignedIn(k)
        \/ Tick \/ Restart

Spec == Init /\ [][Next]_vars
FairSpec == Spec /\ WF_vars(Tick)

-------------------------------------------------------------------------------
\* Counts are naturals, and only tracked keys have hits: _hits, its deques
\* and _calls have the types allow() keeps them in.
TypeOK ==
  /\ tracked \subseteq Keys
  /\ hits \in [Keys -> [0 .. Window -> Nat]]
  /\ calls \in 0 .. SweepEvery - 1
  /\ \A k \in Keys \ tracked : hits[k] = NoHits

\* However many keys callers make up, no more than _MAX_KEYS are ever in
\* memory, between sweeps too: the sweep forced at the cap sheds enough for
\* the key that is then added.
MemoryBounded == Cardinality(tracked) <= MaxKeys

\* The limiter with its lazy trimming, its periodic sweeps and its cap is the
\* sliding window of SlidingWindow: sweeps and stale hits decide no call, and
\* hits inside their window are forgotten only by a reset, by a restart, or
\* at the cap and then the longest unused first.
Exact == INSTANCE SlidingWindow WITH
  spent <- [k \in Keys |-> InWindow(hits[k])],
  Capacity <- MaxKeys, Spared <- Kept
ImplementsSlidingWindow == Exact!Spec

\* "There is no permanent lockout": whatever a caller does, also if it never
\* stops trying, time passing makes room for its next call.
NoPermanentLockout == \A k \in Keys : []<>(Count(hits[k]) < Limit)
===============================================================================
