-------------------------- MODULE RateLimiterProofs --------------------------
(***************************************************************************)
(* Proofs about RateLimiter, for any limit, window, sweep period and cap,  *)
(* and any finite set of keys.                                             *)
(***************************************************************************)
EXTENDS RateLimiter, FiniteSetTheorems, TLAPS

USE RateAssumption DEF vars, Fresh

Deques == [0 .. Window -> Nat]
Busy == {k \in tracked : ~Idle(hits[k])}

\* The state of the sliding window that corresponds to the deques.
Spent == [k \in Keys |-> InWindow(hits[k])]

-------------------------------------------------------------------------------
(* What a sweep leaves *)

LEMMA TrackedFinite ==
  ASSUME TypeOK, NEW S \in SUBSET tracked
  PROVE  /\ IsFiniteSet(S) /\ Cardinality(S) \in Nat
         /\ Cardinality(S) <= Cardinality(tracked) /\ Cardinality(tracked) \in Nat
<1>1. IsFiniteSet(tracked)
  BY FS_Subset DEF TypeOK
<1> QED
  BY <1>1, FS_Subset, FS_CardinalityType

LEMMA KeptBelowCap == Kept \in Nat /\ Kept < MaxKeys
BY DEF Kept

\* After a call looked at the keys there is room for one more.
LEMMA RoomLeft ==
  ASSUME TypeOK, NEW S \in Remaining
  PROVE  S \in SUBSET tracked /\ Cardinality(S) \in Nat /\ Cardinality(S) < MaxKeys
<1>1. Busy \in SUBSET tracked
  BY DEF Busy
<1>2. CASE ~Sweeps
  BY <1>2, TrackedFinite DEF Remaining, Sweeps
<1>3. CASE Sweeps /\ Cardinality(Busy) < MaxKeys
  BY <1>1, <1>3, TrackedFinite DEF Remaining, Survivors, Busy
<1>4. CASE Sweeps /\ Cardinality(Busy) >= MaxKeys
  <2>1. S \in SUBSET Busy /\ Cardinality(Busy \ S) = Cardinality(Busy) - Kept
    BY <1>4 DEF Remaining, Survivors, Busy
  <2>2. IsFiniteSet(Busy) /\ Cardinality(Busy) \in Nat /\ Busy \cap S = S
    BY <1>1, <2>1, TrackedFinite
  <2>3. Cardinality(Busy \ S) = Cardinality(Busy) - Cardinality(S)
    BY <2>2, FS_Difference
  <2>4. Cardinality(S) \in Nat
    BY <1>1, <2>1, TrackedFinite
  <2> QED
    BY <1>1, <2>1, <2>2, <2>3, <2>4, KeptBelowCap
<1>5. Cardinality(Busy) \in Nat
  BY <1>1, TrackedFinite
<1> QED
  BY <1>2, <1>3, <1>4, <1>5

-------------------------------------------------------------------------------
(* Types and memory *)

LEMMA DequeTypes ==
  /\ NoHits \in Deques
  /\ \A h \in Deques : Trimmed(h) \in Deques /\ Record(h) \in Deques /\ Older(h) \in Deques
<1>1. NoHits \in Deques
  BY DEF NoHits, Deques
<1>2. ASSUME NEW h \in Deques
      PROVE  Trimmed(h) \in Deques /\ Record(h) \in Deques
  BY <1>2 DEF Deques, Trimmed, Record
<1>3. ASSUME NEW h \in Deques
      PROVE  Older(h) \in Deques
  <2> SUFFICES ASSUME NEW a \in 0 .. Window
               PROVE  (IF a = 0 THEN 0
                       ELSE h[a - 1] + (IF a = Window THEN h[a] ELSE 0)) \in Nat
    BY DEF Older, Deques
  <2> QED
    BY DEF Deques
<1> QED
  BY <1>1, <1>2, <1>3

\* The deques after a sweep that leaves S.
LEMMA SweptTypes ==
  ASSUME TypeOK, NEW S
  PROVE  /\ Swept(S) \in [Keys -> Deques]
         /\ \A k \in Keys \ S : Swept(S)[k] = NoHits
BY DequeTypes DEF Swept, TypeOK, Deques

\* A call keeps the types, and adds at most one key to those left.
LEMMA AllowStep ==
  ASSUME TypeOK, NEW k \in Keys, NEW S \in Remaining, NEW h \in Deques, Allow(k, S, h)
  PROVE  TypeOK' /\ MemoryBounded'
<1>1. S \in SUBSET tracked /\ Cardinality(S) \in Nat /\ Cardinality(S) < MaxKeys /\ IsFiniteSet(S)
  BY RoomLeft, TrackedFinite
<1>2. MemoryBounded'
  <2>1. Cardinality(S \cup {k}) = IF k \in S THEN Cardinality(S) ELSE Cardinality(S) + 1
    BY <1>1, FS_AddElement
  <2> QED
    BY <1>1, <2>1 DEF Allow, MemoryBounded
<1>3. hits' \in [Keys -> Deques] /\ \A j \in Keys \ (S \cup {k}) : hits'[j] = NoHits
  BY SweptTypes DEF Allow
<1> QED
  BY <1>1, <1>2, <1>3 DEF Allow, TypeOK, Deques

LEMMA TypeInit == Init => TypeOK /\ MemoryBounded
  BY DequeTypes, FS_EmptySet DEF Init, TypeOK, MemoryBounded, Deques

LEMMA TypeStep ==
  ASSUME TypeOK, MemoryBounded, [Next]_vars
  PROVE  TypeOK' /\ MemoryBounded'
<1>1. ASSUME NEW k \in Keys, Admitted(k) \/ Refused(k)
      PROVE  TypeOK' /\ MemoryBounded'
  <2>1. PICK S \in Remaining : \/ Allow(k, S, Trimmed(Swept(S)[k]))
                               \/ Allow(k, S, Record(Trimmed(Swept(S)[k])))
    BY <1>1 DEF Admitted, Refused
  <2>2. Trimmed(Swept(S)[k]) \in Deques /\ Record(Trimmed(Swept(S)[k])) \in Deques
    BY SweptTypes, DequeTypes
  <2> QED
    BY <2>1, <2>2, AllowStep
<1>2. ASSUME NEW k \in Keys, SignedIn(k)
      PROVE  TypeOK' /\ MemoryBounded'
  <2>1. PICK S \in Remaining : tracked' = S \ {k} /\ hits' = [Swept(S) EXCEPT ![k] = NoHits]
                               /\ calls' = (calls + 1) % SweepEvery
    BY <1>2 DEF SignedIn
  <2>2. S \in SUBSET tracked /\ Cardinality(S) \in Nat /\ Cardinality(S) < MaxKeys
    BY RoomLeft
  <2>3. Cardinality(S \ {k}) <= MaxKeys
    BY <2>2, TrackedFinite, FS_Subset, FS_CardinalityType
  <2>4. hits' \in [Keys -> Deques] /\ \A j \in Keys \ (S \ {k}) : hits'[j] = NoHits
    BY <2>1, SweptTypes, DequeTypes
  <2> QED
    BY <2>1, <2>2, <2>3, <2>4 DEF TypeOK, MemoryBounded, Deques
<1>3. CASE Tick
  <2>1. hits' \in [Keys -> Deques]
    BY <1>3, DequeTypes DEF Tick, TypeOK, Deques
  <2>2. Older(NoHits) = NoHits
    BY DEF Older, NoHits
  <2> QED
    BY <1>3, <2>1, <2>2 DEF Tick, TypeOK, MemoryBounded, Deques
<1>4. CASE Restart
  BY <1>4, DequeTypes, FS_EmptySet DEF Restart, TypeOK, MemoryBounded, Deques
<1>5. CASE UNCHANGED vars
  BY <1>5 DEF TypeOK, MemoryBounded
<1> QED
  BY <1>1, <1>2, <1>3, <1>4, <1>5 DEF Next

LEMMA Inductive == Spec => [](TypeOK /\ MemoryBounded)
  BY TypeInit, TypeStep, PTL DEF Spec

\* Deques hold hits of tracked keys only (ratelimit.RateLimiter).
THEOREM TypeCorrect == Spec => []TypeOK
  BY Inductive, PTL

\* Whatever keys callers make up, and whenever the sweeps fall, no more than
\* _MAX_KEYS are in memory (ratelimit._sweep).
THEOREM MemoryStaysBounded == Spec => []MemoryBounded
  BY Inductive, PTL

-------------------------------------------------------------------------------
(* The refinement *)

LEMMA CountIsUsed ==
  ASSUME NEW h
  PROVE  Count(h) = Exact!Used(InWindow(h))
BY Zenon DEF Count, Exact!Used, SumFunction, SumFunctionOnSet, FoldFunctionOnSet,
   MapThenFoldSet, Exact!SumFunction, Exact!SumFunctionOnSet, Exact!FoldFunctionOnSet,
   Exact!MapThenFoldSet

\* The library's cardinality, as SlidingWindow sees it.
LEMMA SameCardinality ==
  ASSUME NEW S
  PROVE  Exact!Cardinality(S) = Cardinality(S)
BY Zenon DEF Cardinality, Exact!Cardinality

\* The window does not see what popleft has yet to remove.
LEMMA WindowFacts ==
  ASSUME NEW h \in Deques
  PROVE  /\ InWindow(Trimmed(h)) = InWindow(h)
         /\ InWindow(Record(h)) = [InWindow(h) EXCEPT ![0] = @ + 1]
         /\ InWindow(NoHits) = Exact!Unused
         /\ Idle(h) <=> InWindow(h) = Exact!Unused
         /\ InWindow(Older(h)) = [a \in Fresh |-> IF a = 0 THEN 0 ELSE InWindow(h)[a - 1]]
<1>0. DOMAIN h = 0 .. Window /\ 0 \in Fresh /\ Window \notin Fresh
      /\ \A a \in Fresh : a \in 0 .. Window
  BY DEF Deques
<1>1. InWindow(Trimmed(h)) = InWindow(h)
  <2> SUFFICES ASSUME NEW a \in Fresh PROVE Trimmed(h)[a] = h[a]
    BY Zenon DEF InWindow
  <2> QED
    BY <1>0 DEF Trimmed
<1>5. InWindow(Record(h)) = [InWindow(h) EXCEPT ![0] = @ + 1]
  <2>1. \A a \in Fresh : Record(h)[a] = IF a = 0 THEN h[0] + 1 ELSE h[a]
    BY <1>0 DEF Record
  <2>2. [InWindow(h) EXCEPT ![0] = @ + 1] = [a \in Fresh |-> IF a = 0 THEN h[0] + 1 ELSE h[a]]
    BY <1>0 DEF InWindow
  <2> QED
    BY <2>1, <2>2 DEF InWindow
<1>2. InWindow(NoHits) = Exact!Unused
  BY DEF InWindow, NoHits, Exact!Unused, Exact!Ages
<1>3. Idle(h) <=> InWindow(h) = Exact!Unused
  BY DEF Idle, InWindow, Exact!Unused, Exact!Ages
<1>4. InWindow(Older(h)) = [a \in Fresh |-> IF a = 0 THEN 0 ELSE InWindow(h)[a - 1]]
  <2>1. ASSUME NEW a \in Fresh
        PROVE  Older(h)[a] = IF a = 0 THEN 0 ELSE InWindow(h)[a - 1]
    <3>1. a \in 0 .. Window /\ a # Window
      BY <1>0
    <3>2. a # 0 => a - 1 \in Fresh /\ h[a - 1] \in Nat
      BY DEF Deques
    <3>3. Older(h)[a] = IF a = 0 THEN 0 ELSE h[a - 1] + 0
      BY <3>1 DEF Older
    <3> QED
      BY <3>2, <3>3 DEF InWindow
  <2> QED
    BY Zenon, <2>1 DEF InWindow
<1> QED
  BY <1>1, <1>2, <1>3, <1>4, <1>5

LEMMA InUseIsBusy ==
  ASSUME TypeOK
  PROVE  Exact!InUse = Busy
<1> SUFFICES ASSUME NEW k \in Keys
             PROVE  InWindow(hits[k]) # Exact!Unused <=> k \in tracked /\ ~Idle(hits[k])
  BY DEF Exact!InUse, Busy, TypeOK
<1>1. hits[k] \in Deques
  BY DEF TypeOK, Deques
<1>2. k \notin tracked => hits[k] = NoHits
  BY DEF TypeOK
<1> QED
  BY <1>1, <1>2, WindowFacts

LEMMA BeforeIsNotLater ==
  ASSUME NEW h \in Deques, NEW g \in Deques, HitBefore(h, g)
  PROVE  Exact!NotLaterThan(InWindow(h), InWindow(g))
BY DEF HitBefore, Exact!NotLaterThan, Exact!Ages, InWindow

LEMMA ForgettableIs ==
  ASSUME TypeOK
  PROVE  Exact!Forgettable =
           {F \in SUBSET Busy :
              IF Cardinality(Busy) >= MaxKeys
              THEN /\ Cardinality(F) = Cardinality(Busy) - Kept
                   /\ \A k \in F, j \in Busy \ F : Exact!NotLaterThan(Spent[k], Spent[j])
              ELSE F = {}}
BY InUseIsBusy, SameCardinality DEF Exact!Forgettable, Spent

\* What the sweep forgets, the sliding window may forget.
LEMMA SweepForgets ==
  ASSUME TypeOK, NEW S \in Remaining
  PROVE  /\ Busy \ S \in Exact!Forgettable
         /\ Exact!Left(Busy \ S) = [k \in Keys |-> InWindow(Swept(S)[k])]
<1>1. Busy \in SUBSET tracked /\ S \in SUBSET tracked
  BY RoomLeft DEF Busy
<1>2. \A k \in Keys : hits[k] \in Deques
  BY DEF TypeOK, Deques
<1>3. Busy \ S \in Exact!Forgettable
  <2>1. CASE ~Sweeps
    <3>1. Busy \ S = {} /\ Cardinality(Busy) < MaxKeys
      BY <1>1, <2>1, TrackedFinite DEF Remaining, Sweeps
    <3>2. Cardinality(Busy) \in Nat
      BY <1>1, TrackedFinite
    <3> QED
      BY <3>1, <3>2, ForgettableIs
  <2>2. CASE Sweeps /\ Cardinality(Busy) >= MaxKeys
    <3>1. /\ S \in SUBSET Busy /\ Cardinality(Busy \ S) = Cardinality(Busy) - Kept
          /\ \A k \in Busy \ S, j \in S : HitBefore(hits[k], hits[j])
      BY <2>2 DEF Remaining, Survivors, Busy
    <3>2. Busy \ (Busy \ S) = S
      BY <3>1
    <3>3. \A k \in Busy \ S, j \in S :
            Exact!NotLaterThan(InWindow(hits[k]), InWindow(hits[j]))
      BY <1>1, <1>2, <3>1, BeforeIsNotLater DEF TypeOK
    <3>4. \A k \in Busy \ S, j \in S :
            Exact!NotLaterThan(Spent[k], Spent[j])
      BY <1>1, <3>3 DEF Spent, TypeOK
    <3> QED
      BY <2>2, <3>1, <3>2, <3>4, ForgettableIs
  <2>3. CASE Sweeps /\ ~(Cardinality(Busy) >= MaxKeys)
    <3>1. S = Busy
      BY <2>3 DEF Remaining, Survivors, Busy
    <3> QED
      BY <2>3, <3>1, ForgettableIs
  <2> QED
    BY <2>1, <2>2, <2>3
<1>4. ASSUME NEW k \in Keys
      PROVE  (IF k \in Busy \ S THEN Exact!Unused ELSE InWindow(hits[k])) = InWindow(Swept(S)[k])
  <2>1. hits[k] \in Deques
    BY <1>2
  <2>2. Swept(S)[k] = IF k \in S THEN hits[k] ELSE NoHits
    BY DEF Swept
  <2>3. k \notin S /\ k \notin Busy => InWindow(hits[k]) = Exact!Unused
    <3>1. k \notin tracked => hits[k] = NoHits
      BY DEF TypeOK
    <3> QED
      BY <2>1, <3>1, WindowFacts DEF Busy
  <2> QED
    BY <2>1, <2>2, <2>3, WindowFacts
<1> QED
  BY <1>3, <1>4 DEF Exact!Left

\* The windows after a call that leaves S and the deque h of k.
LEMMA AllowWindows ==
  ASSUME TypeOK, NEW k \in Keys, NEW S, NEW h,
         hits' = [Swept(S) EXCEPT ![k] = h]
  PROVE  Spent' = [[j \in Keys |-> InWindow(Swept(S)[j])] EXCEPT ![k] = InWindow(h)]
BY SweptTypes DEF Spent

LEMMA StepRefines ==
  ASSUME TypeOK, [Next]_vars
  PROVE  [Exact!Next]_Spent
<1>1. ASSUME NEW k \in Keys, Admitted(k)
      PROVE  Exact!Admit(k)
  <2> DEFINE h(S) == Trimmed(Swept(S)[k])
  <2>1. PICK S \in Remaining : Count(h(S)) < Limit /\ hits' = [Swept(S) EXCEPT ![k] = Record(h(S))]
    BY <1>1 DEF Admitted, Allow
  <2>2. Swept(S)[k] \in Deques /\ h(S) \in Deques
    BY SweptTypes, DequeTypes
  <2>3. Exact!Left(Busy \ S)[k] = InWindow(Swept(S)[k])
    BY Zenon, SweepForgets
  <2>4. Exact!Used(Exact!Left(Busy \ S)[k]) < Limit
    <3>1. InWindow(h(S)) = InWindow(Swept(S)[k])
      BY <2>2, WindowFacts
    <3>2. Count(h(S)) = Exact!Used(InWindow(h(S)))
      BY CountIsUsed
    <3>3. Count(h(S)) = Exact!Used(Exact!Left(Busy \ S)[k])
      BY Zenon, <2>3, <3>1, <3>2
    <3> QED
      BY <2>1, <3>3
  <2>5. Spent' = [Exact!Left(Busy \ S) EXCEPT ![k] = InWindow(Record(h(S)))]
    <3>1. Exact!Left(Busy \ S) = [j \in Keys |-> InWindow(Swept(S)[j])]
      BY Zenon, SweepForgets
    <3> DEFINE g == Record(h(S))
    <3>2. hits' = [Swept(S) EXCEPT ![k] = g]
      BY <2>1
    <3> HIDE DEF g
    <3>3. Spent' = [[j \in Keys |-> InWindow(Swept(S)[j])] EXCEPT ![k] = InWindow(g)]
      BY <3>2, AllowWindows
    <3> QED
      BY Zenon, <3>1, <3>3 DEF g
  <2>6. InWindow(Record(h(S))) = [Exact!Left(Busy \ S)[k] EXCEPT ![0] = @ + 1]
    BY <2>2, <2>3, WindowFacts
  <2>7. Spent' = [Exact!Left(Busy \ S) EXCEPT ![k][0] = @ + 1]
    BY <2>5, <2>6
  <2> QED
    BY <2>4, <2>7, SweepForgets DEF Exact!Admit, Spent
<1>2. ASSUME NEW k \in Keys, Refused(k)
      PROVE  Exact!Refuse(k)
  <2> DEFINE h(S) == Trimmed(Swept(S)[k])
  <2>1. PICK S \in Remaining : Count(h(S)) >= Limit /\ hits' = [Swept(S) EXCEPT ![k] = h(S)]
    BY <1>2 DEF Refused, Allow
  <2>2. Swept(S)[k] \in Deques /\ h(S) \in Deques
    BY SweptTypes, DequeTypes
  <2>3. Exact!Left(Busy \ S)[k] = InWindow(Swept(S)[k])
    BY Zenon, SweepForgets
  <2>4. Exact!Used(Exact!Left(Busy \ S)[k]) >= Limit
    <3>1. InWindow(h(S)) = InWindow(Swept(S)[k])
      BY <2>2, WindowFacts
    <3>2. Count(h(S)) = Exact!Used(InWindow(h(S)))
      BY CountIsUsed
    <3>3. Count(h(S)) = Exact!Used(Exact!Left(Busy \ S)[k])
      BY Zenon, <2>3, <3>1, <3>2
    <3> QED
      BY <2>1, <3>3
  <2>5. Spent' = [Exact!Left(Busy \ S) EXCEPT ![k] = InWindow(h(S))]
    <3>1. Exact!Left(Busy \ S) = [j \in Keys |-> InWindow(Swept(S)[j])]
      BY Zenon, SweepForgets
    <3> DEFINE g == h(S)
    <3>2. hits' = [Swept(S) EXCEPT ![k] = g]
      BY <2>1
    <3> HIDE DEF g
    <3>3. Spent' = [[j \in Keys |-> InWindow(Swept(S)[j])] EXCEPT ![k] = InWindow(g)]
      BY <3>2, AllowWindows
    <3> QED
      BY Zenon, <3>1, <3>3 DEF g
  <2>6. InWindow(h(S)) = Exact!Left(Busy \ S)[k]
    BY <2>2, <2>3, WindowFacts
  <2>7. Spent' = Exact!Left(Busy \ S)
    BY <2>5, <2>6, SweepForgets
  <2> QED
    BY <2>4, <2>7, SweepForgets DEF Exact!Refuse, Spent
<1>3. ASSUME NEW k \in Keys, SignedIn(k)
      PROVE  Exact!AdmitAndClear(k)
  <2>1. PICK S \in Remaining :
          Count(Trimmed(Swept(S)[k])) < Limit /\ hits' = [Swept(S) EXCEPT ![k] = NoHits]
    BY <1>3 DEF SignedIn
  <2>2. Swept(S)[k] \in Deques
    BY SweptTypes
  <2>3. Exact!Left(Busy \ S)[k] = InWindow(Swept(S)[k])
    BY Zenon, SweepForgets
  <2>4. Exact!Used(Exact!Left(Busy \ S)[k]) < Limit
    BY <2>1, <2>2, <2>3, CountIsUsed, WindowFacts, DequeTypes
  <2>5. Spent' = [Exact!Left(Busy \ S) EXCEPT ![k] = InWindow(NoHits)]
    <3>1. Exact!Left(Busy \ S) = [j \in Keys |-> InWindow(Swept(S)[j])]
      BY Zenon, SweepForgets
    <3>2. Spent' = [[j \in Keys |-> InWindow(Swept(S)[j])] EXCEPT ![k] = InWindow(NoHits)]
      BY <2>1, AllowWindows
    <3> QED
      BY Zenon, <3>1, <3>2
  <2>6. Spent' = [Exact!Left(Busy \ S) EXCEPT ![k] = Exact!Unused]
    BY <2>2, <2>5, WindowFacts
  <2> QED
    BY <2>4, <2>6, SweepForgets DEF Exact!AdmitAndClear, Spent
<1>4. ASSUME Tick
      PROVE  Exact!Tick
  <2>1. \A k \in Keys : hits[k] \in Deques /\ hits'[k] = Older(hits[k])
    BY <1>4 DEF Tick, TypeOK, Deques
  <2>2. \A k \in Keys : InWindow(hits'[k]) =
          [a \in Fresh |-> IF a = 0 THEN 0 ELSE InWindow(hits[k])[a - 1]]
    BY <2>1, WindowFacts
  <2> QED
    BY <2>2 DEF Exact!Tick, Exact!Ages
<1>5. ASSUME Restart
      PROVE  Exact!Restart
  <2>1. \A k \in Keys : InWindow(hits'[k]) = Exact!Unused
    BY <1>5, DequeTypes, WindowFacts DEF Restart
  <2> QED
    BY <2>1 DEF Exact!Restart
<1>6. CASE UNCHANGED vars
  BY <1>6 DEF Spent
<1> QED
  BY <1>1, <1>2, <1>3, <1>4, <1>5, <1>6 DEF Next, Exact!Next

\* However the sweeps fall, a caller cannot tell the limiter from an exact
\* sliding window that forgets a key early only at the cap: lazy trimming,
\* the periodic sweep and stale hits decide no call (ratelimit.allow).
THEOREM LimiterIsSlidingWindow == Spec => ImplementsSlidingWindow
<1>1. Init => Exact!Init
  <2> SUFFICES ASSUME Init PROVE \A k \in Keys : InWindow(hits[k]) = Exact!Unused
    BY DEF Exact!Init
  <2> QED
    BY DequeTypes, WindowFacts DEF Init
<1> QED
  BY <1>1, StepRefines, Inductive, PTL DEF Spec, ImplementsSlidingWindow, Exact!Spec, Spent
===============================================================================
