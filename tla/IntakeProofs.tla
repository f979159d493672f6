----------------------------- MODULE IntakeProofs -----------------------------
(***************************************************************************)
(* The alert parsers, the merging of recipients, the webhook and the       *)
(* bounce monitor: what the operators of Alerts return for every input,    *)
(* and the safety properties of Intake.                                    *)
(***************************************************************************)
EXTENDS Intake, FiniteSetTheorems, TLAPS

(***************************************************************************)
(* Induction and recursion over an initial segment of the naturals, from   *)
(* the well-foundedness of set inclusion.                                  *)
(***************************************************************************)

\* A set of naturals has a least element.
LEMMA LeastNatural ==
  ASSUME NEW T \in SUBSET Nat, T # {}
  PROVE  \E x \in T : \A y \in T : x <= y
<1> DEFINE R == StrictSubsetOrdering(Nat)
           U == {0 .. n : n \in T}
<1>1. IsWellFoundedOn(R, FiniteSubsetsOf(Nat))
  BY FS_StrictSubsetOrderingWellFounded
<1>2. U \subseteq FiniteSubsetsOf(Nat) /\ U # {}
  <2>1. \A n \in T : 0 .. n \in SUBSET Nat /\ IsFiniteSet(0 .. n)
    BY FS_Interval
  <2>2. U # {}
    OBVIOUS
  <2> QED
    BY <2>1, <2>2 DEF FiniteSubsetsOf
<1>3. PICK u \in U : \A v \in U : <<v, u>> \notin R
  <2> HIDE DEF R, U
  <2> QED
    BY <1>1, <1>2, WFMin
<1>4. PICK x \in T : u = 0 .. x
  OBVIOUS
<1>5. ASSUME NEW y \in T
      PROVE  x <= y
  <2> SUFFICES ASSUME y < x
               PROVE  FALSE
    OBVIOUS
  <2>1. 0 .. y \subseteq 0 .. x /\ x \in 0 .. x /\ x \notin 0 .. y
    OBVIOUS
  <2>2. <<0 .. y, 0 .. x>> \in R
    BY <2>1 DEF StrictSubsetOrdering
  <2> QED
    BY <2>2, <1>3, <1>4
<1> QED
  BY <1>5

\* Min, as the models use it.
LEMMA MinIsLeast ==
  ASSUME NEW T \in SUBSET Nat, T # {}
  PROVE  Min(T) \in T /\ \A y \in T : Min(T) <= y
BY LeastNatural DEF Min

\* What holds at 0 and is handed on holds up to N.
LEMMA UpTo ==
  ASSUME NEW N \in Nat, NEW P,
         0 \in P,
         \A n \in 0 .. N : n < N /\ n \in P => n + 1 \in P
  PROVE  \A n \in 0 .. N : n \in P
<1> DEFINE T == {n \in 0 .. N : n \notin P}
<1> SUFFICES ASSUME T # {}
             PROVE  FALSE
  OBVIOUS
<1>1. T \in SUBSET Nat
  OBVIOUS
<1>2. PICK x \in T : \A y \in T : x <= y
  <2> HIDE DEF T
  <2> QED
    BY <1>1, LeastNatural
<1>3. x # 0 /\ x - 1 \in 0 .. N /\ x - 1 < N /\ (x - 1) + 1 = x
  OBVIOUS
<1>4. x - 1 \in P
  BY <1>2, <1>3
<1> QED
  BY <1>3, <1>4

\* Steps that depend on their number, and what N of them make of start.
Steps(N, T) == [1 .. N -> [T -> T]]
Runs(N, T, start, step) ==
  {f \in [0 .. N -> T] : f[0] = start /\ \A n \in 1 .. N : f[n] = step[n][f[n - 1]]}

\* A recursion along 0 .. N has a solution.
LEMMA Iterate ==
  ASSUME NEW N \in Nat, NEW T, NEW start \in T, NEW step \in Steps(N, T)
  PROVE  Runs(N, T, start, step) # {}
<1> USE DEF Steps, Runs
<1> DEFINE Run(f, m) == f[0] = start /\ \A n \in 1 .. m : f[n] = step[n][f[n - 1]]
           P == {m \in 0 .. N : \E f \in [0 .. m -> T] : Run(f, m)}
<1>1. 0 \in P
  <2> DEFINE g == [n \in 0 .. 0 |-> start]
  <2>1. g \in [0 .. 0 -> T]
    OBVIOUS
  <2>2. Run(g, 0)
    OBVIOUS
  <2> HIDE DEF g, Run
  <2> QED
    BY <2>1, <2>2
<1>2. ASSUME NEW m \in 0 .. N, m < N, m \in P
      PROVE  m + 1 \in P
  <2>1. PICK f \in [0 .. m -> T] : Run(f, m)
    BY <1>2
  <2> DEFINE g == [n \in 0 .. (m + 1) |-> IF n = m + 1 THEN step[m + 1][f[m]] ELSE f[n]]
  <2>2. step[m + 1][f[m]] \in T
    BY <1>2, <2>1
  <2>3. g \in [0 .. (m + 1) -> T]
    BY <2>1, <2>2
  <2>4. Run(g, m + 1)
    <3>1. g[0] = start
      BY <2>1
    <3>2. ASSUME NEW n \in 1 .. (m + 1)
          PROVE  g[n] = step[n][g[n - 1]]
      <4>1. CASE n = m + 1
        BY <4>1
      <4>2. CASE n # m + 1
        <5>1. n \in 1 .. m /\ n - 1 \in 0 .. m /\ n - 1 # m + 1 /\ n - 1 \in 0 .. (m + 1)
          BY <4>2
        <5>2. f[n] = step[n][f[n - 1]]
          BY <2>1, <5>1
        <5> QED
          BY <5>1, <5>2, <4>2
      <4> QED
        BY <4>1, <4>2
    <3> HIDE DEF g
    <3> QED
      BY <3>1, <3>2
  <2> HIDE DEF g, Run
  <2> QED
    BY <1>2, <2>3, <2>4
<1>3. \A n \in 0 .. N : n \in P
  <2> HIDE DEF P
  <2> QED
    BY <1>1, <1>2, UpTo
<1> QED
  BY <1>3

(***************************************************************************)
(* Lists of recipients.                                                    *)
(***************************************************************************)

\* What two lists hold together.
LEMMA ConcatToSet ==
  ASSUME NEW S, NEW s \in Seq(S), NEW t \in Seq(S)
  PROVE  s \o t \in Seq(S) /\ ToSet(s \o t) = ToSet(s) \cup ToSet(t)
<1>1. /\ s \o t \in Seq(S) /\ Len(s \o t) = Len(s) + Len(t)
      /\ \A i \in 1 .. Len(s) : (s \o t)[i] = s[i]
      /\ \A i \in 1 .. Len(t) : (s \o t)[Len(s) + i] = t[i]
  OBVIOUS
<1>2. ASSUME NEW i \in 1 .. (Len(s) + Len(t))
      PROVE  (s \o t)[i] \in ToSet(s) \cup ToSet(t)
  <2>1. CASE i <= Len(s)
    BY <1>1, <2>1 DEF ToSet
  <2>2. CASE i > Len(s)
    <3>1. i - Len(s) \in 1 .. Len(t) /\ i = Len(s) + (i - Len(s))
      BY <2>2
    <3> QED
      BY <1>1, <3>1 DEF ToSet
  <2> QED
    BY <2>1, <2>2
<1>3. \A i \in 1 .. Len(s) : i \in 1 .. (Len(s) + Len(t))
  OBVIOUS
<1>4. \A i \in 1 .. Len(t) : Len(s) + i \in 1 .. (Len(s) + Len(t))
  OBVIOUS
<1>5. ToSet(s) \subseteq ToSet(s \o t) /\ ToSet(t) \subseteq ToSet(s \o t)
  <2>1. ASSUME NEW i \in 1 .. Len(s)
        PROVE  s[i] \in ToSet(s \o t)
    BY <1>1, <1>3 DEF ToSet
  <2>2. ASSUME NEW i \in 1 .. Len(t)
        PROVE  t[i] \in ToSet(s \o t)
    <3> DEFINE j == Len(s) + i
    <3>1. j \in 1 .. Len(s \o t) /\ (s \o t)[j] = t[i]
      BY <1>1, <1>4
    <3> HIDE DEF j
    <3> QED
      BY <1>1, <3>1 DEF ToSet
  <2>3. ToSet(s) = {s[i] : i \in 1 .. Len(s)} /\ ToSet(t) = {t[i] : i \in 1 .. Len(t)}
    BY DEF ToSet
  <2> QED
    BY <2>1, <2>2, <2>3
<1>6. ToSet(s \o t) \subseteq ToSet(s) \cup ToSet(t)
  BY <1>1, <1>2 DEF ToSet
<1> QED
  BY <1>1, <1>5, <1>6

\* One part of a list of addresses is taken up.
LEMMA AddPartFacts ==
  ASSUME NEW S, NEW out \in Seq(S), NEW x \in S
  PROVE  /\ AddPart(out, x) \in Seq(S)
         /\ ToSet(AddPart(out, x)) = ToSet(out) \cup ({x} \ {Blank})
         /\ IsInjective(out) => IsInjective(AddPart(out, x))
<1>1. CASE x = Blank \/ Contains(out, x)
  BY <1>1 DEF AddPart, Contains, ToSet
<1>2. CASE ~(x = Blank \/ Contains(out, x))
  <2>1. AddPart(out, x) = Append(out, x)
    BY <1>2 DEF AddPart
  <2>2. \A i \in 1 .. Len(out) : Append(out, x)[i] = out[i] /\ out[i] # x
    BY <1>2 DEF Contains
  <2>3. /\ Append(out, x) \in Seq(S) /\ Len(Append(out, x)) = Len(out) + 1
        /\ Append(out, x)[Len(out) + 1] = x
    OBVIOUS
  <2>4. ToSet(Append(out, x)) = ToSet(out) \cup {x}
    BY <2>2, <2>3 DEF ToSet
  <2>5. IsInjective(out) => IsInjective(Append(out, x))
    <3> SUFFICES ASSUME IsInjective(out),
                        NEW i \in 1 .. Len(out) + 1, NEW j \in 1 .. Len(out) + 1,
                        Append(out, x)[i] = Append(out, x)[j]
                 PROVE  i = j
      BY <2>3 DEF IsInjective
    <3>1. CASE i = Len(out) + 1 \/ j = Len(out) + 1
      BY <2>2, <2>3, <3>1
    <3>2. CASE i # Len(out) + 1 /\ j # Len(out) + 1
      <4>1. i \in 1 .. Len(out) /\ j \in 1 .. Len(out)
        BY <3>2
      <4> QED
        BY <2>2, <4>1 DEF IsInjective
    <3> QED
      BY <3>1, <3>2
  <2> QED
    BY <1>2, <2>1, <2>3, <2>4, <2>5
<1> QED
  BY <1>1, <1>2

\* The loop of split_addrs, _text_list and _merge_recipients, round by round.
LEMMA DedupeRounds ==
  ASSUME NEW S, NEW parts \in Seq(S)
  PROVE  \E f \in [0 .. Len(parts) -> Seq(S)] :
           /\ f[0] = <<>>
           /\ \A n \in 1 .. Len(parts) : f[n] = AddPart(f[n - 1], parts[n])
           /\ Dedupe(parts) = f[Len(parts)]
<1> DEFINE N == Len(parts)
           Loop(f) == f = [n \in 0 .. N |-> IF n = 0 THEN <<>> ELSE AddPart(f[n - 1], parts[n])]
           step == [n \in 1 .. N |-> [out \in Seq(S) |-> AddPart(out, parts[n])]]
           g == CHOOSE f : Loop(f)
<1>1. N \in Nat /\ <<>> \in Seq(S) /\ \A n \in 1 .. N : parts[n] \in S
  OBVIOUS
<1>2. \A n \in 1 .. N : step[n] \in [Seq(S) -> Seq(S)]
  BY <1>1, AddPartFacts
<1>3. step \in [1 .. N -> [Seq(S) -> Seq(S)]]
  BY <1>2
<1>4. PICK h \in [0 .. N -> Seq(S)] :
        h[0] = <<>> /\ \A n \in 1 .. N : h[n] = step[n][h[n - 1]]
  <2> HIDE DEF step, N
  <2>1. step \in Steps(N, Seq(S))
    BY <1>3 DEF Steps
  <2>2. Runs(N, Seq(S), <<>>, step) # {}
    BY <1>1, <2>1, Iterate
  <2> QED
    BY <2>2 DEF Runs
<1>5. \A n \in 1 .. N : h[n] = AddPart(h[n - 1], parts[n])
  <2> SUFFICES ASSUME NEW n \in 1 .. N
               PROVE  h[n] = AddPart(h[n - 1], parts[n])
    OBVIOUS
  <2>1. n - 1 \in 0 .. N
    BY <1>1
  <2>2. h[n - 1] \in Seq(S) /\ h[n] = step[n][h[n - 1]]
    BY <1>4, <2>1
  <2> QED
    BY <2>2
<1>6. Loop(h)
  BY <1>1, <1>4, <1>5
<1>7. Loop(g)
  <2> HIDE DEF Loop
  <2> QED
    BY <1>6
<1>8. g[0] = <<>> /\ \A n \in 1 .. N : g[n] = AddPart(g[n - 1], parts[n])
  <2> HIDE DEF g
  <2> QED
    BY <1>1, <1>7
<1>9. g \in [0 .. N -> Seq(S)]
  <2> DEFINE P == {n \in 0 .. N : g[n] \in Seq(S)}
  <2>1. 0 \in P
    BY <1>1, <1>8
  <2>2. ASSUME NEW n \in 0 .. N, n < N, n \in P
        PROVE  n + 1 \in P
    <3>1. n + 1 \in 1 .. N /\ (n + 1) - 1 = n
      BY <1>1, <2>2
    <3>2. g[n + 1] = AddPart(g[n], parts[n + 1]) /\ parts[n + 1] \in S
      BY <1>1, <1>8, <3>1
    <3>3. g[n] \in Seq(S)
      BY <2>2
    <3>4. AddPart(g[n], parts[n + 1]) \in Seq(S)
      BY ONLY <3>2, <3>3, AddPartFacts
    <3> QED
      BY <3>1, <3>2, <3>4
  <2>3. \A n \in 0 .. N : n \in P
    <3> HIDE DEF P
    <3> QED
      BY <1>1, <2>1, <2>2, UpTo
  <2> QED
    BY <1>7, <2>3
<1>10. Dedupe(parts) = g[N]
  BY DEF Dedupe
<1> QED
  BY <1>8, <1>9, <1>10

\* A list without its empty parts, and without what comes twice in it.
LEMMA DedupeFacts ==
  ASSUME NEW S, NEW parts \in Seq(S)
  PROVE  /\ Dedupe(parts) \in Seq(S)
         /\ ToSet(Dedupe(parts)) = ToSet(parts) \ {Blank}
         /\ IsInjective(Dedupe(parts))
<1> DEFINE N == Len(parts)
<1>1. PICK f \in [0 .. N -> Seq(S)] :
        /\ f[0] = <<>>
        /\ \A n \in 1 .. N : f[n] = AddPart(f[n - 1], parts[n])
        /\ Dedupe(parts) = f[N]
  BY DedupeRounds
<1> DEFINE Seen(n) == {parts[i] : i \in 1 .. n} \ {Blank}
           P == {n \in 0 .. N : ToSet(f[n]) = Seen(n) /\ IsInjective(f[n])}
<1>2. N \in Nat /\ \A n \in 1 .. N : parts[n] \in S
  OBVIOUS
<1>3. 0 \in P
  BY <1>1, <1>2 DEF ToSet, IsInjective
<1>4. ASSUME NEW n \in 0 .. N, n < N, n \in P
      PROVE  n + 1 \in P
  <2>1. n + 1 \in 1 .. N /\ (n + 1) - 1 = n
    BY <1>2, <1>4
  <2>2. f[n + 1] = AddPart(f[n], parts[n + 1]) /\ f[n] \in Seq(S) /\ parts[n + 1] \in S
    BY <1>1, <1>2, <2>1
  <2>3. Seen(n + 1) = Seen(n) \cup ({parts[n + 1]} \ {Blank})
    <3>1. 1 .. (n + 1) = (1 .. n) \cup {n + 1}
      BY <2>1
    <3> QED
      BY <3>1
  <2>4. /\ ToSet(AddPart(f[n], parts[n + 1])) = ToSet(f[n]) \cup ({parts[n + 1]} \ {Blank})
        /\ IsInjective(f[n]) => IsInjective(AddPart(f[n], parts[n + 1]))
    <3> DEFINE out == f[n]
               x == parts[n + 1]
    <3>1. out \in Seq(S) /\ x \in S
      BY <2>2
    <3> HIDE DEF out, x
    <3>2. /\ ToSet(AddPart(out, x)) = ToSet(out) \cup ({x} \ {Blank})
          /\ IsInjective(out) => IsInjective(AddPart(out, x))
      BY <3>1, AddPartFacts
    <3> QED
      BY <3>2 DEF out, x
  <2>5. /\ ToSet(f[n + 1]) = ToSet(f[n]) \cup ({parts[n + 1]} \ {Blank})
        /\ IsInjective(f[n + 1])
    <3>1. IsInjective(f[n])
      BY <1>4
    <3> QED
      BY ONLY <3>1, <2>2, <2>4
  <2> HIDE DEF Seen
  <2>6. ToSet(f[n]) = Seen(n)
    BY <1>4
  <2>7. ToSet(f[n + 1]) = Seen(n + 1) /\ IsInjective(f[n + 1])
    BY ONLY <2>3, <2>5, <2>6
  <2>8. n + 1 \in 0 .. N
    BY <2>1
  <2> QED
    BY <2>7, <2>8
<1>5. \A n \in 0 .. N : n \in P
  <2> HIDE DEF P
  <2> QED
    BY <1>2, <1>3, <1>4, UpTo
<1>6. ToSet(f[N]) = Seen(N) /\ IsInjective(f[N])
  BY <1>2, <1>5
<1>7. Seen(N) = ToSet(parts) \ {Blank}
  BY DEF ToSet
<1> QED
  BY <1>1, <1>2, <1>6, <1>7

\* What comes first in a list, each once, stays in its place.
LEMMA DedupeKeeps ==
  ASSUME NEW S, NEW parts \in Seq(S), NEW m \in 0 .. Len(parts),
         \A i \in 1 .. m : parts[i] # Blank,
         \A i, j \in 1 .. m : parts[i] = parts[j] => i = j
  PROVE  m <= Len(Dedupe(parts)) /\ \A i \in 1 .. m : Dedupe(parts)[i] = parts[i]
<1> DEFINE N == Len(parts)
<1>1. PICK f \in [0 .. N -> Seq(S)] :
        /\ f[0] = <<>>
        /\ \A n \in 1 .. N : f[n] = AddPart(f[n - 1], parts[n])
        /\ Dedupe(parts) = f[N]
  BY DedupeRounds
<1> DEFINE Kept(n) == /\ n <= m => Len(f[n]) = n
                      /\ n > m => Len(f[n]) >= m
                      /\ \A i \in 1 .. m : i <= n => f[n][i] = parts[i]
           P == {n \in 0 .. N : Kept(n)}
<1>2. N \in Nat /\ m \in Nat /\ \A n \in 1 .. N : parts[n] \in S
  OBVIOUS
<1>3. 0 \in P
  BY <1>1, <1>2
<1>4. ASSUME NEW n \in 0 .. N, n < N, n \in P
      PROVE  n + 1 \in P
  <2>0. n + 1 \in 0 .. N
    BY <1>2, <1>4
  <2>1. n + 1 \in 1 .. N /\ (n + 1) - 1 = n /\ n \in Nat
    BY <1>2, <1>4
  <2>2. f[n + 1] = AddPart(f[n], parts[n + 1]) /\ f[n] \in Seq(S) /\ parts[n + 1] \in S
    BY <1>1, <1>2, <2>1
  <2>3. Kept(n)
    BY <1>4
  <2>4. CASE n + 1 <= m
    <3>1. ~Contains(f[n], parts[n + 1])
      <4> SUFFICES ASSUME NEW i \in 1 .. Len(f[n]), f[n][i] = parts[n + 1]
                   PROVE  FALSE
        BY DEF Contains
      <4>1. i \in 1 .. m /\ i <= n /\ n + 1 \in 1 .. m
        BY <1>2, <2>1, <2>3, <2>4
      <4> QED
        BY <2>1, <2>3, <4>1
    <3>2. f[n + 1] = Append(f[n], parts[n + 1])
      BY <2>1, <2>2, <2>4, <3>1 DEF AddPart
    <3>3. Len(f[n]) = n
      BY <2>1, <2>3, <2>4, <1>2
    <3>4. /\ Len(f[n + 1]) = n + 1 /\ f[n + 1][n + 1] = parts[n + 1]
          /\ \A i \in 1 .. n : f[n + 1][i] = f[n][i]
      BY <2>1, <2>2, <3>2, <3>3
    <3>5. Kept(n + 1)
      BY <1>2, <2>1, <2>3, <2>4, <3>4
    <3> HIDE DEF Kept
    <3> QED
      BY <2>0, <3>5
  <2>5. CASE n + 1 > m
    <3>1. Len(f[n]) >= m /\ \A i \in 1 .. m : f[n][i] = parts[i]
      BY <1>2, <2>1, <2>3, <2>5
    <3>2. Len(f[n + 1]) >= Len(f[n]) /\ \A i \in 1 .. Len(f[n]) : f[n + 1][i] = f[n][i]
      BY <2>2 DEF AddPart
    <3>3. \A i \in 1 .. m : i \in 1 .. Len(f[n])
      BY <1>2, <2>2, <3>1
    <3>4. Len(f[n + 1]) >= m
      BY <1>1, <1>2, <2>1, <2>2, <3>1, <3>2
    <3>5. Kept(n + 1)
      BY <1>2, <2>1, <2>5, <3>1, <3>2, <3>3, <3>4
    <3> HIDE DEF Kept
    <3> QED
      BY <2>0, <3>5
  <2> QED
    BY <1>2, <2>1, <2>4, <2>5
<1>5. \A n \in 0 .. N : n \in P
  <2> HIDE DEF P
  <2> QED
    BY <1>2, <1>3, <1>4, UpTo
<1>6. Kept(N)
  BY <1>2, <1>5
<1> QED
  BY <1>1, <1>2, <1>6

\* FlattenSeq of the community modules: its items, and nothing else.
LEMMA FlattenFacts ==
  ASSUME NEW S, NEW ss \in Seq(Seq(S))
  PROVE  /\ FlattenSeq(ss) \in Seq(S)
         /\ ToSet(FlattenSeq(ss)) = UNION {ToSet(ss[i]) : i \in DOMAIN ss}
<1> DEFINE N == Len(ss)
           Loop(f) == f = [i \in 1 .. N |-> IF i = 1 THEN ss[i] ELSE f[i - 1] \o ss[i]]
           step == [n \in 1 .. N |-> [out \in Seq(S) |-> out \o ss[n]]]
           g == CHOOSE f : Loop(f)
<1>1. N \in Nat /\ <<>> \in Seq(S) /\ \A n \in 1 .. N : ss[n] \in Seq(S)
  OBVIOUS
<1>2. CASE N = 0
  <2>1. ss = <<>> /\ DOMAIN ss = {}
    BY <1>2
  <2>2. FlattenSeq(ss) = <<>>
    BY <1>2, <2>1 DEF FlattenSeq
  <2> QED
    BY <1>1, <2>1, <2>2 DEF ToSet
<1>3. CASE N # 0
  <2>1. step \in Steps(N, Seq(S))
    BY <1>1 DEF Steps
  <2>2. PICK h \in [0 .. N -> Seq(S)] :
          h[0] = <<>> /\ \A n \in 1 .. N : h[n] = step[n][h[n - 1]]
    <3> HIDE DEF step, N
    <3>1. Runs(N, Seq(S), <<>>, step) # {}
      BY <1>1, <2>1, Iterate
    <3> QED
      BY <3>1 DEF Runs
  <2>3. ASSUME NEW n \in 1 .. N
        PROVE  h[n] = h[n - 1] \o ss[n] /\ h[n - 1] \in Seq(S) /\ h[n] \in Seq(S)
    <3>1. n - 1 \in 0 .. N /\ n \in 0 .. N
      BY <1>1
    <3>2. h[n - 1] \in Seq(S) /\ h[n] = step[n][h[n - 1]]
      BY <2>2, <3>1
    <3> QED
      BY <3>1, <3>2, <2>2
  <2> DEFINE k == [i \in 1 .. N |-> h[i]]
  <2>4. ASSUME NEW i \in 1 .. N
        PROVE  k[i] = IF i = 1 THEN ss[i] ELSE k[i - 1] \o ss[i]
    <3>1. CASE i = 1
      <4>1. h[1] = <<>> \o ss[1] /\ ss[1] \in Seq(S)
        <5>1. 1 - 1 = 0 /\ 1 \in 1 .. N
          BY <3>1
        <5> QED
          BY <1>1, <2>2, <2>3, <5>1
      <4> QED
        BY <3>1, <4>1
    <3>2. CASE i # 1
      <4>1. i - 1 \in 1 .. N
        BY <1>1, <3>2
      <4> QED
        BY <2>3, <3>2, <4>1
    <3> QED
      BY <3>1, <3>2
  <2>5. Loop(k)
    <3> HIDE DEF k
    <3>1. k = [i \in 1 .. N |-> k[i]]
      BY DEF k
    <3> QED
      BY <2>4, <3>1
  <2>6. Loop(g)
    <3> HIDE DEF Loop, k
    <3> QED
      BY <2>5
  <2> HIDE DEF g, k
  <2>7. ASSUME NEW i \in 1 .. N
        PROVE  g[i] = IF i = 1 THEN ss[i] ELSE g[i - 1] \o ss[i]
    BY <2>6
  <2> DEFINE Items(n) == UNION {ToSet(ss[i]) : i \in 1 .. n}
             P == {n \in 0 .. N : n > 0 => g[n] \in Seq(S) /\ ToSet(g[n]) = Items(n)}
  <2>8. 0 \in P
    BY <1>1
  <2>9. ASSUME NEW n \in 0 .. N, n < N, n \in P
        PROVE  n + 1 \in P
    <3>1. n + 1 \in 1 .. N /\ n + 1 \in 0 .. N /\ (n + 1) - 1 = n /\ n + 1 > 0
      BY <1>1, <2>9
    <3>2. Items(n + 1) = Items(n) \cup ToSet(ss[n + 1])
      <4>1. 1 .. (n + 1) = (1 .. n) \cup {n + 1}
        BY <3>1
      <4> QED
        BY <4>1
    <3>3. ss[n + 1] \in Seq(S)
      BY <1>1, <3>1
    <3>4. CASE n = 0
      <4>1. g[n + 1] = ss[n + 1]
        BY <2>7, <3>1, <3>4
      <4>2. Items(n) = {}
        BY <3>4
      <4> HIDE DEF Items
      <4> QED
        BY <3>1, <3>2, <3>3, <4>1, <4>2
    <3>5. CASE n # 0
      <4>1. n > 0 /\ n + 1 # 1
        BY <3>5
      <4>2. g[n + 1] = g[n] \o ss[n + 1]
        BY <2>7, <3>1, <4>1
      <4>3. g[n] \in Seq(S) /\ ToSet(g[n]) = Items(n)
        BY <2>9, <4>1
      <4>4. /\ g[n] \o ss[n + 1] \in Seq(S)
            /\ ToSet(g[n] \o ss[n + 1]) = ToSet(g[n]) \cup ToSet(ss[n + 1])
        BY <3>3, <4>3, ConcatToSet
      <4> HIDE DEF Items
      <4> QED
        BY <3>1, <3>2, <4>2, <4>3, <4>4
    <3> QED
      BY <3>4, <3>5
  <2>10. \A n \in 0 .. N : n \in P
    <3> HIDE DEF P
    <3> QED
      BY <1>1, <2>8, <2>9, UpTo
  <2>11. g[N] \in Seq(S) /\ ToSet(g[N]) = Items(N)
    <3>1. N \in 0 .. N /\ N > 0
      BY <1>1, <1>3
    <3>2. N \in P
      BY <2>10, <3>1
    <3> HIDE DEF Items
    <3> QED
      BY <3>1, <3>2
  <2>12. FlattenSeq(ss) = g[N]
    BY <1>3 DEF FlattenSeq, g
  <2>13. DOMAIN ss = 1 .. N
    OBVIOUS
  <2> QED
    BY <2>11, <2>12, <2>13
<1> QED
  BY <1>2, <1>3

\* Recipients on file: each once, and no empty one.
LEMMA ListFacts ==
  ASSUME NEW s \in Seq(Addresses \cup {Blank}), IsInjective(s), Blank \notin ToSet(s)
  PROVE  s \in Lists
<1>1. \A i \in 1 .. Len(s) : s[i] \in Addresses
  BY DEF ToSet
<1>2. s \in Seq(Addresses)
  BY <1>1
<1> QED
  BY <1>2 DEF Lists

\* A new detection of an e-mail adds its recipients to those on file, each of
\* which stays in its place: the first one remains the primary recipient.
THEOREM MergeKeepsRecipients ==
  ASSUME NEW existing \in Lists, NEW new \in Lists
  PROVE  LET merged == MergeRecipients(existing, new)
         IN  /\ merged \in Lists
             /\ ToSet(merged) = ToSet(existing) \cup ToSet(new)
             /\ IsPrefix(existing, merged)
<1> DEFINE S == Addresses \cup {Blank}
           parts == existing \o new
           merged == MergeRecipients(existing, new)
<1>1. existing \in Seq(S) /\ new \in Seq(S) /\ IsInjective(existing)
  BY DEF Lists
<1>2. Blank \notin ToSet(existing) \cup ToSet(new)
  BY IntakeAssumption DEF Lists, ToSet
<1>3. parts \in Seq(S) /\ ToSet(parts) = ToSet(existing) \cup ToSet(new)
  <2> HIDE DEF S
  <2> QED
    BY <1>1, ConcatToSet
<1>4. merged \in Seq(S) /\ ToSet(merged) = ToSet(parts) \ {Blank} /\ IsInjective(merged)
  <2> HIDE DEF S, parts
  <2> QED
    BY <1>3, DedupeFacts DEF MergeRecipients, parts
<1>5. merged \in Lists
  <2> HIDE DEF merged
  <2> QED
    BY <1>4, ListFacts
<1>6. \A i \in 1 .. Len(existing) : parts[i] = existing[i] /\ parts[i] # Blank
  BY <1>1, <1>2 DEF ToSet
<1>7. Len(existing) \in 0 .. Len(parts)
  BY <1>1
<1>8. \A i, j \in 1 .. Len(existing) : parts[i] = parts[j] => i = j
  BY <1>1, <1>6 DEF IsInjective
<1>9. /\ Len(existing) <= Len(merged)
      /\ \A i \in 1 .. Len(existing) : merged[i] = parts[i]
  <2> HIDE DEF S, parts
  <2> QED
    BY <1>3, <1>6, <1>7, <1>8, DedupeKeeps DEF MergeRecipients, parts
<1>10. IsPrefix(existing, merged)
  <2> HIDE DEF merged, parts
  <2>1. SubSeq(merged, 1, Len(existing)) = existing
    <3>1. existing \in Seq(S) /\ merged \in Seq(S)
      BY <1>1, <1>4
    <3>2. \A i \in 1 .. Len(existing) : merged[i] = existing[i]
      BY <1>6, <1>9
    <3> QED
      BY <3>1, <3>2, <1>9
  <2> QED
    BY <1>9, <2>1 DEF IsPrefix
<1> QED
  BY <1>2, <1>3, <1>4, <1>5, <1>10

\* What is on file splits into the very list that was written.
LEMMA SplitStored ==
  ASSUME NEW s \in Lists
  PROVE  split_addrs(s) = s
<1> DEFINE S == Addresses \cup {Blank}
           d == Dedupe(s)
<1>1. s \in Seq(S) /\ IsInjective(s) /\ \A i \in 1 .. Len(s) : s[i] # Blank
  BY IntakeAssumption DEF Lists
<1>2. d \in Seq(S) /\ ToSet(d) = ToSet(s) \ {Blank} /\ IsInjective(d)
  <2> HIDE DEF S
  <2> QED
    BY <1>1, DedupeFacts
<1>3. Len(s) <= Len(d) /\ \A i \in 1 .. Len(s) : d[i] = s[i]
  <2>1. Len(s) \in 0 .. Len(s) /\ \A i, j \in 1 .. Len(s) : s[i] = s[j] => i = j
    BY <1>1 DEF IsInjective
  <2> HIDE DEF S
  <2> QED
    BY <1>1, <2>1, DedupeKeeps
<1> HIDE DEF d
<1>4. Len(d) <= Len(s)
  <2> SUFFICES ASSUME Len(d) > Len(s)
               PROVE  FALSE
    BY <1>1, <1>2
  <2>1. Len(s) + 1 \in 1 .. Len(d)
    BY <1>1, <1>2
  <2>2. PICK i \in 1 .. Len(s) : d[Len(s) + 1] = s[i]
    <3>1. d[Len(s) + 1] \in ToSet(d)
      BY <1>2, <2>1 DEF ToSet
    <3>2. d[Len(s) + 1] \in ToSet(s)
      BY <1>2, <3>1
    <3> QED
      BY <1>1, <3>2 DEF ToSet
  <2>3. d[Len(s) + 1] = d[i] /\ i \in 1 .. Len(d) /\ i # Len(s) + 1
    BY <1>1, <1>2, <1>3, <2>2
  <2> QED
    BY <1>2, <2>1, <2>3 DEF IsInjective
<1>5. Len(d) = Len(s)
  BY <1>1, <1>2, <1>3, <1>4
<1> QED
  BY <1>1, <1>2, <1>3, <1>5 DEF split_addrs, d

(***************************************************************************)
(* The parser.                                                             *)
(***************************************************************************)

\* The recipients of a field, whether it is a list, a string that separates
\* several, or a list of such strings.
LEMMA TextListFacts ==
  ASSUME NEW value \in Seq(Seq(Addresses \cup {Blank}))
  PROVE  /\ TextList(value) \in Lists
         /\ ToSet(TextList(value)) = (UNION {ToSet(value[i]) : i \in DOMAIN value}) \ {Blank}
<1> DEFINE S == Addresses \cup {Blank}
           parts == [i \in DOMAIN value |-> split_addrs(value[i])]
           all == FlattenSeq(parts)
<1>1. ASSUME NEW i \in DOMAIN value
      PROVE  /\ split_addrs(value[i]) \in Seq(S)
             /\ ToSet(split_addrs(value[i])) = ToSet(value[i]) \ {Blank}
  <2>1. value[i] \in Seq(S)
    OBVIOUS
  <2> HIDE DEF S
  <2> QED
    BY <2>1, DedupeFacts DEF split_addrs
<1>2. DOMAIN parts = DOMAIN value /\ DOMAIN value = 1 .. Len(value) /\ Len(value) \in Nat
  OBVIOUS
<1>3. parts \in Seq(Seq(S))
  <2> HIDE DEF S
  <2> QED
    BY <1>1, <1>2
<1>4. all \in Seq(S) /\ ToSet(all) = UNION {ToSet(parts[i]) : i \in DOMAIN parts}
  <2> HIDE DEF S, parts
  <2> QED
    BY <1>3, FlattenFacts
<1>5. ToSet(all) = (UNION {ToSet(value[i]) : i \in DOMAIN value}) \ {Blank}
  <2>1. \A i \in DOMAIN value : ToSet(parts[i]) = ToSet(value[i]) \ {Blank}
    BY <1>1
  <2> HIDE DEF parts, all
  <2>2. ToSet(all) = UNION {ToSet(parts[i]) : i \in DOMAIN value}
    BY <1>2, <1>4
  <2>3. ASSUME NEW x
        PROVE  x \in ToSet(all) <=> x # Blank /\ \E i \in DOMAIN value : x \in ToSet(value[i])
    <3>1. x \in ToSet(all) <=> \E i \in DOMAIN value : x \in ToSet(parts[i])
      BY <2>2
    <3>2. \A i \in DOMAIN value : x \in ToSet(parts[i]) <=> x \in ToSet(value[i]) /\ x # Blank
      BY <2>1
    <3> QED
      BY <3>1, <3>2
  <2> QED
    BY <2>3
<1>6. /\ TextList(value) \in Seq(S) /\ IsInjective(TextList(value))
      /\ ToSet(TextList(value)) = ToSet(all) \ {Blank}
  <2> HIDE DEF S, parts, all
  <2> QED
    BY <1>4, DedupeFacts DEF TextList, all, parts
<1> HIDE DEF parts, all
<1>7. TextList(value) \in Lists
  BY <1>6, ListFacts
<1> QED
  BY <1>5, <1>6, <1>7

\* _first finds the field that is there, or nothing.
LEMMA FirstFacts ==
  ASSUME NEW raw, NEW fields, DOMAIN fields \subseteq Nat
  PROVE  /\ \/ First(raw, fields) = <<>>
            \/ \E f \in DOMAIN raw \cap ToSet(fields) : First(raw, fields) = raw[f]
         /\ \A f \in DOMAIN raw : Names(raw, fields, f) => First(raw, fields) = raw[f]
<1> DEFINE present == {i \in DOMAIN fields : fields[i] \in DOMAIN raw}
<1>1. CASE present = {}
  <2>1. \A f \in DOMAIN raw : ~Names(raw, fields, f)
    BY <1>1 DEF Names, ToSet
  <2>2. First(raw, fields) = <<>>
    BY <1>1 DEF First
  <2> QED
    BY <2>1, <2>2
<1>2. CASE present # {}
  <2> DEFINE f == fields[Min(present)]
  <2>1. Min(present) \in present
    <3>1. present \in SUBSET Nat
      OBVIOUS
    <3> HIDE DEF present
    <3> QED
      BY <1>2, <3>1, MinIsLeast
  <2>2. f \in DOMAIN raw \cap ToSet(fields)
    BY <2>1 DEF ToSet
  <2>3. First(raw, fields) = raw[f]
    BY <1>2 DEF First
  <2>4. ASSUME NEW g \in DOMAIN raw, Names(raw, fields, g)
        PROVE  First(raw, fields) = raw[g]
    <3> HIDE DEF f
    <3>1. f = g
      BY <2>2, <2>4 DEF Names
    <3> QED
      BY <2>3, <3>1
  <2> HIDE DEF f
  <2> QED
    BY <2>2, <2>3, <2>4
<1> QED
  BY <1>1, <1>2

\* The alert that reports d, as the webhook takes it up.
Detects(event, d) ==
  /\ event.queue_id = <<d.email, 0>>
  /\ Complete(event) /\ Matches(event)
  /\ d.to \subseteq ToSet(event.recipients)

\* An alert on a first detection is read for what it says in either wire
\* format: its queue id, its recipients without exception or addition, and a
\* name that triggers the flow.
THEOREM ParserReads ==
  ASSUME NEW raw, IsRaw(raw), NEW d, d.email \in Emails, d.to # {}, Reports(raw, d)
  PROVE  Detects(ParseAlert(raw), d) /\ ToSet(ParseAlert(raw).recipients) = d.to
<1> DEFINE event == ParseAlert(raw)
<1>0. /\ DOMAIN QueueIdFields \subseteq Nat /\ DOMAIN RecipientFields \subseteq Nat
      /\ DOMAIN NameFields \subseteq Nat /\ DOMAIN MalwareFields \subseteq Nat
  BY DEF QueueIdFields, RecipientFields, NameFields, MalwareFields
<1>1. event.queue_id = <<d.email, 0>>
  <2>1. PICK f \in DOMAIN raw : /\ Names(raw, QueueIdFields, f)
                                /\ raw[f] # <<>> /\ Head(raw[f]) = <<d.email, 0>>
    BY DEF Reports
  <2>2. First(raw, QueueIdFields) = raw[f]
    BY <1>0, <2>1, FirstFacts
  <2> QED
    BY <2>1, <2>2 DEF ParseAlert, Text
<1>2. ToSet(event.recipients) = d.to
  <2>1. PICK f \in DOMAIN raw :
          /\ Names(raw, RecipientFields, f)
          /\ d.to = (UNION {ToSet(raw[f][i]) : i \in DOMAIN raw[f]}) \ {Blank}
    BY DEF Reports
  <2>2. First(raw, RecipientFields) = raw[f]
    BY <1>0, <2>1, FirstFacts
  <2>3. raw[f] \in Seq(Seq(Addresses \cup {Blank}))
    BY <2>1 DEF IsRaw, Names
  <2>4. ToSet(TextList(raw[f])) = d.to
    BY <2>1, <2>3, TextListFacts
  <2> QED
    BY <2>2, <2>4 DEF ParseAlert
<1>3. Complete(event)
  <2>1. event.queue_id # NoText
    BY <1>1, IntakeAssumption DEF QueueIds
  <2>2. event.recipients # <<>>
    BY <1>2 DEF ToSet
  <2> QED
    BY <2>1, <2>2 DEF Complete
<1>4. Matches(event)
  <2>1. PICK f \in DOMAIN raw : /\ Names(raw, NameFields, f)
                                /\ raw[f] # <<>> /\ TriggerName \in {NoText, Head(raw[f])}
    BY DEF Reports
  <2>2. PICK g \in DOMAIN raw : /\ Names(raw, MalwareFields, g)
                                /\ ToSet(raw[g]) \cap TriggerMalware # {}
    BY DEF Reports
  <2>3. First(raw, NameFields) = raw[f] /\ First(raw, MalwareFields) = raw[g]
    BY <1>0, <2>1, <2>2, FirstFacts
  <2>4. TriggerName \in {NoText, event.alert_name}
    BY <2>1, <2>3 DEF ParseAlert, Text
  <2>5. event.malware_names = ToSet(raw[g]) \ {NoText}
    BY <2>3 DEF ParseAlert
  <2> HIDE DEF event
  <2>6. event.malware_names \cap TriggerMalware # {} /\ TriggerMalware # {}
    BY <2>2, <2>5, IntakeAssumption
  <2> QED
    BY <2>4, <2>6 DEF Matches
<1> QED
  BY <1>1, <1>2, <1>3, <1>4 DEF Detects

\* The alerts of all payloads, parsed.
Parsed == UNION {ToSet(Events[p]) : p \in Payloads}

\* What the parser makes of a payload.
LEMMA ParsedFacts ==
  /\ \A p \in Payloads : Events[p] \in Seq(Parsed) /\ DOMAIN Events[p] = DOMAIN p
  /\ \A event \in Parsed : /\ event.queue_id \in QueueIds \cup {NoText}
                           /\ event.recipients \in Lists
<1>1. ASSUME NEW p \in Payloads
      PROVE  Events[p] \in Seq(Parsed) /\ DOMAIN Events[p] = DOMAIN p
  <2>1. p \in Seq(ToSet(p))
    BY PayloadAssumption
  <2>2. Events[p] = [i \in 1 .. Len(p) |-> ParseAlert(p[i])] /\ Len(p) \in Nat
    BY <2>1 DEF Events
  <2>3. DOMAIN Events[p] = DOMAIN p
    BY <2>1, <2>2
  <2>4. \A i \in 1 .. Len(p) : Events[p][i] \in Parsed
    BY <2>2 DEF Parsed, ToSet
  <2> QED
    BY <2>2, <2>3, <2>4
<1>2. ASSUME NEW event \in Parsed
      PROVE  event.queue_id \in QueueIds \cup {NoText} /\ event.recipients \in Lists
  <2>0. DOMAIN QueueIdFields \subseteq Nat /\ DOMAIN RecipientFields \subseteq Nat
    BY DEF QueueIdFields, RecipientFields
  <2>1. PICK p \in Payloads : event \in ToSet(Events[p])
    BY DEF Parsed
  <2>2. PICK i \in DOMAIN p : event = ParseAlert(p[i])
    BY <2>1 DEF Events, ToSet
  <2> DEFINE raw == p[i]
  <2>3. IsRaw(raw)
    BY PayloadAssumption
  <2> HIDE DEF raw
  <2>4. event.queue_id = Text(First(raw, QueueIdFields))
    BY <2>2 DEF ParseAlert, raw
  <2>5. event.recipients = TextList(First(raw, RecipientFields))
    BY <2>2 DEF ParseAlert, raw
  <2>6. First(raw, QueueIdFields) \in Seq(QueueIds)
    <3>1. \/ First(raw, QueueIdFields) = <<>>
          \/ \E f \in DOMAIN raw \cap ToSet(QueueIdFields) : First(raw, QueueIdFields) = raw[f]
      BY <2>0, FirstFacts
    <3>2. \A f \in DOMAIN raw \cap ToSet(QueueIdFields) : raw[f] \in Seq(QueueIds)
      BY <2>3 DEF IsRaw
    <3>3. <<>> \in Seq(QueueIds)
      OBVIOUS
    <3> QED
      BY <3>1, <3>2, <3>3
  <2>7. First(raw, RecipientFields) \in Seq(Seq(Addresses \cup {Blank}))
    <3>1. \/ First(raw, RecipientFields) = <<>>
          \/ \E f \in DOMAIN raw \cap ToSet(RecipientFields) :
               First(raw, RecipientFields) = raw[f]
      BY <2>0, FirstFacts
    <3>2. \A f \in DOMAIN raw \cap ToSet(RecipientFields) :
            raw[f] \in Seq(Seq(Addresses \cup {Blank}))
      BY <2>3 DEF IsRaw
    <3>3. <<>> \in Seq(Seq(Addresses \cup {Blank}))
      OBVIOUS
    <3> QED
      BY <3>1, <3>2, <3>3
  <2>8. event.queue_id \in QueueIds \cup {NoText}
    BY <2>4, <2>6 DEF Text
  <2>9. event.recipients \in Lists
    BY <2>5, <2>7, TextListFacts
  <2> QED
    BY <2>8, <2>9
<1> QED
  BY <1>1, <1>2

(***************************************************************************)
(* The inductive invariant of Intake.                                      *)
(***************************************************************************)

RowsOK ==
  /\ case \in [QueueIds -> Row]
  /\ \A q \in QueueIds : (case[q].state = "absent") <=> (case[q].recipient = <<>>)
  /\ recent \in Seq(QueueIds) /\ IsInjective(recent)
  /\ ToSet(recent) = {q \in QueueIds : case[q].state # "absent"}

HookType ==
  hook \in [Hooks -> [pc : {"idle", "loop", "mail", "ex"}, payload : Payloads \cup {<<>>},
                      rest : Seq(Parsed), at : QueueIds \cup {NoCase}, to : Seq(Addresses)]]
PollType == poll \in [pc : {"idle", "fetch"}, found : SUBSET Report, got : Seq(Report)]

\* A request in flight is about a payload, and waits only over a case there is.
HooksHaveCases ==
  \A h \in Hooks :
    /\ hook[h].pc # "idle" => hook[h].payload \in Payloads
    /\ hook[h].pc \in {"mail", "ex"} =>
         hook[h].at \in QueueIds /\ case[hook[h].at].state # "absent"

\* Nobody was mailed, and nothing bounced, without a case.
ReportsHaveCases ==
  \A e \in Emails :
    (\/ mailed[e] # {}
     \/ \E m \in unseen \cup poll.found \cup ToSet(poll.got) : m.case = e)
    => case[<<e, 0>>].state # "absent"

\* The case of a detection is there, with its recipients; and past RECEIVED.
Filed(d) ==
  LET row == case[<<d.email, 0>>]
  IN  row.state # "absent" /\ d.to \subseteq ToSet(row.recipient)
Handled(d) == Filed(d) /\ case[<<d.email, 0>>].state # "received"

\* A detection is still to be taken up by the request, or waits for its mail to
\* be sent, or is handled; and so are all those of a payload on its way.
Stands(h, d) ==
  \/ \E i \in DOMAIN hook[h].rest : Detects(hook[h].rest[i], d)
  \/ hook[h].pc = "mail" /\ hook[h].at = <<d.email, 0>> /\ Filed(d)
  \/ Handled(d)

NoneSkipped ==
  \A h \in Hooks : hook[h].pc # "idle" =>
    \A d \in Detections[hook[h].payload] : Stands(h, d)

CaseInv == /\ TypeOK /\ HookType /\ PollType
           /\ HooksHaveCases /\ ReportsHaveCases /\ ReanalysisCreatesNoCase
IntakeInv == CaseInv /\ NoneSkipped /\ AcknowledgedMeansHandled

(***************************************************************************)
(* What a step writes.                                                     *)
(***************************************************************************)

\* No case is unmade, none goes back to RECEIVED, and none loses a recipient.
Later(before, after) ==
  /\ before.state # "absent" => after.state # "absent"
  /\ before.state \notin {"absent", "received"} => after.state # "received"
  /\ ToSet(before.recipient) \subseteq ToSet(after.recipient)

\* A write to the row of q that a handler may make.
RowWrite(q, row) ==
  /\ q \in QueueIds /\ row \in Row
  /\ row.state # "absent" /\ row.recipient # <<>>
  /\ Later(case[q], row)
  /\ Write(q, row)

\* A change of state alone, to a case there is.
LEMMA StateWrite ==
  ASSUME TypeOK, NEW q \in QueueIds, case[q].state # "absent",
         NEW s \in FlowState \ {"received"}, Write(q, [case[q] EXCEPT !.state = s])
  PROVE  \E row : RowWrite(q, row) /\ row.state = s
<1> DEFINE row == [case[q] EXCEPT !.state = s]
<1>1. case[q] \in Row /\ case[q].recipient # <<>>
  BY DEF TypeOK
<1>2. row \in Row /\ row.state = s /\ row.recipient = case[q].recipient
  BY <1>1 DEF Row
<1>3. s # "absent"
  BY DEF FlowState
<1>4. Later(case[q], row)
  BY <1>2, <1>3 DEF Later
<1>5. Write(q, row)
  OBVIOUS
<1> HIDE DEF row
<1> QED
  BY <1>1, <1>2, <1>3, <1>4, <1>5 DEF RowWrite

\* The row of q goes to the front of recent, and no other moves past it.
LEMMA WriteMoves ==
  ASSUME RowsOK, NEW q \in QueueIds, NEW row, Write(q, row)
  PROVE  /\ recent' \in Seq(QueueIds) /\ IsInjective(recent')
         /\ ToSet(recent') = ToSet(recent) \cup {q}
<1>0. recent \in Seq(QueueIds) /\ IsInjective(recent)
  BY DEF RowsOK
<1>1. CASE ~Contains(recent, q)
  <2>1. recent' = <<q>> \o recent
    BY <1>1 DEF Write
  <2>2. /\ recent' \in Seq(QueueIds) /\ Len(recent') = Len(recent) + 1
        /\ recent'[1] = q
        /\ \A i \in 2 .. Len(recent) + 1 : recent'[i] = recent[i - 1]
    BY <1>0, <2>1
  <2>3. \A i \in 1 .. Len(recent) : recent[i] # q
    BY <1>1 DEF Contains
  <2>4. IsInjective(recent')
    <3> SUFFICES ASSUME NEW i \in 1 .. Len(recent) + 1, NEW j \in 1 .. Len(recent) + 1,
                        recent'[i] = recent'[j]
                 PROVE  i = j
      BY <2>2 DEF IsInjective
    <3>1. CASE i = 1 \/ j = 1
      BY <1>0, <2>2, <2>3, <3>1
    <3>2. CASE i # 1 /\ j # 1
      <4>1. /\ i - 1 \in 1 .. Len(recent) /\ j - 1 \in 1 .. Len(recent)
            /\ recent[i - 1] = recent[j - 1]
        BY <1>0, <2>2, <3>2
      <4>2. i - 1 = j - 1
        BY <1>0, <4>1 DEF IsInjective
      <4> QED
        BY <4>2
    <3> QED
      BY <3>1, <3>2
  <2>5. ToSet(recent') = ToSet(recent) \cup {q}
    <3> DEFINE one == <<q>>
    <3>1. ToSet(one) = {q} /\ one \in Seq(QueueIds)
      BY DEF ToSet
    <3>2. recent' = one \o recent
      BY <2>1
    <3> HIDE DEF one
    <3>3. ToSet(one \o recent) = ToSet(one) \cup ToSet(recent)
      BY <1>0, <3>1, ConcatToSet
    <3> QED
      BY <3>1, <3>2, <3>3
  <2> QED
    BY <2>2, <2>4, <2>5
<1>2. CASE Contains(recent, q)
  <2> DEFINE k == CHOOSE i \in DOMAIN recent : recent[i] = q
             rest == RemoveAt(recent, k)
             N == Len(recent)
  <2>1. k \in 1 .. N /\ recent[k] = q
    BY <1>0, <1>2 DEF Contains
  <2> HIDE DEF k
  <2>2. /\ rest \in Seq(QueueIds) /\ Len(rest) = N - 1
        /\ \A i \in 1 .. N - 1 : rest[i] = IF i < k THEN recent[i] ELSE recent[i + 1]
    <3> DEFINE a == SubSeq(recent, 1, k - 1)
               b == SubSeq(recent, k + 1, N)
    <3>1. /\ a \in Seq(QueueIds) /\ Len(a) = k - 1
          /\ \A i \in 1 .. k - 1 : a[i] = recent[i]
      BY <1>0, <2>1
    <3>2. /\ b \in Seq(QueueIds) /\ Len(b) = N - k
          /\ \A i \in 1 .. N - k : b[i] = recent[k + i]
      BY <1>0, <2>1
    <3>3. rest = a \o b
      BY DEF RemoveAt
    <3> HIDE DEF a, b, rest
    <3>4. /\ rest \in Seq(QueueIds) /\ Len(rest) = Len(a) + Len(b)
          /\ \A i \in 1 .. Len(rest) :
               rest[i] = IF i <= Len(a) THEN a[i] ELSE b[i - Len(a)]
      <4>1. a \in Seq(QueueIds) /\ b \in Seq(QueueIds)
        BY <3>1, <3>2
      <4> QED
        BY ONLY <3>3, <4>1
    <3>5. Len(rest) = N - 1
      BY <1>0, <2>1, <3>1, <3>2, <3>4
    <3>6. ASSUME NEW i \in 1 .. N - 1
          PROVE  rest[i] = IF i < k THEN recent[i] ELSE recent[i + 1]
      <4>1. CASE i < k
        BY <1>0, <2>1, <3>1, <3>4, <3>5, <4>1
      <4>2. CASE i >= k
        <5>1. /\ i - Len(a) \in 1 .. N - k /\ ~(i <= Len(a))
              /\ k + (i - Len(a)) = i + 1 /\ i \in 1 .. Len(rest)
          BY <1>0, <2>1, <3>1, <3>5, <4>2
        <5> QED
          BY <3>2, <3>4, <4>2, <5>1, <2>1
      <4> QED
        BY <2>1, <4>1, <4>2
    <3> QED
      BY <3>4, <3>5, <3>6
  <2>3. recent' = <<q>> \o rest
    BY <1>2 DEF Write, k
  <2> HIDE DEF rest
  <2> DEFINE from == [i \in 1 .. N |-> IF i = 1 THEN k ELSE IF i - 1 < k THEN i - 1 ELSE i]
  <2>4. /\ recent' \in Seq(QueueIds) /\ Len(recent') = N
        /\ \A i \in 1 .. N : from[i] \in 1 .. N /\ recent'[i] = recent[from[i]]
    <3>1. /\ recent' \in Seq(QueueIds) /\ Len(recent') = N
          /\ recent'[1] = q
          /\ \A i \in 2 .. N : recent'[i] = rest[i - 1]
      BY <1>0, <2>1, <2>2, <2>3
    <3>2. ASSUME NEW i \in 1 .. N
          PROVE  from[i] \in 1 .. N /\ recent'[i] = recent[from[i]]
      <4>1. CASE i = 1
        BY <2>1, <3>1, <4>1
      <4>2. CASE i # 1
        <5>1. i - 1 \in 1 .. N - 1 /\ i \in 2 .. N
          BY <1>0, <4>2
        <5> QED
          BY <1>0, <2>1, <2>2, <3>1, <4>2, <5>1
      <4> QED
        BY <4>1, <4>2
    <3> QED
      BY <3>1, <3>2
  <2>5. \A i, j \in 1 .. N : from[i] = from[j] => i = j
    BY <1>0, <2>1
  <2>6. \A j \in 1 .. N : \E i \in 1 .. N : from[i] = j
    <3> TAKE j \in 1 .. N
    <3> DEFINE i == IF j = k THEN 1 ELSE IF j < k THEN j + 1 ELSE j
    <3>1. i \in 1 .. N /\ from[i] = j
      BY <1>0, <2>1
    <3> QED
      BY <3>1
  <2> HIDE DEF from
  <2>7. IsInjective(recent')
    <3> SUFFICES ASSUME NEW i \in 1 .. N, NEW j \in 1 .. N, recent'[i] = recent'[j]
                 PROVE  i = j
      BY <2>4 DEF IsInjective
    <3>1. from[i] = from[j]
      BY <1>0, <2>4 DEF IsInjective
    <3> QED
      BY <2>5, <3>1
  <2>8. ToSet(recent') = ToSet(recent)
    <3>1. ASSUME NEW i \in 1 .. N
          PROVE  recent'[i] \in ToSet(recent)
      BY <1>0, <2>4 DEF ToSet
    <3>2. ASSUME NEW j \in 1 .. N
          PROVE  recent[j] \in ToSet(recent')
      <4>1. PICK i \in 1 .. N : from[i] = j
        BY <2>6
      <4>2. recent'[i] = recent[j] /\ i \in DOMAIN recent'
        BY <2>4, <4>1
      <4> QED
        BY <4>2 DEF ToSet
    <3>3. /\ ToSet(recent) = {recent[i] : i \in 1 .. N}
          /\ ToSet(recent') = {recent'[i] : i \in 1 .. N}
      BY <1>0, <2>4 DEF ToSet
    <3> QED
      BY <3>1, <3>2, <3>3
  <2>9. q \in ToSet(recent)
    BY <1>0, <2>1 DEF ToSet
  <2> QED
    BY <2>4, <2>7, <2>8, <2>9
<1> QED
  BY <1>1, <1>2

\* Only a first detection files a case, and only a report ends one as bounced.
Writes(q, row) ==
  /\ RowWrite(q, row)
  /\ case[q].state = "absent" => q[2] = 0
  /\ row.state = "bounced" /\ case[q].state # "bounced"
       => IsAbout(Head(poll.got), q)
Written == NoWrite \/ \E q, row : Writes(q, row)

\* A change of state alone other than to bounced.
LEMMA StateWrites ==
  ASSUME TypeOK, NEW q \in QueueIds, case[q].state # "absent",
         NEW s \in FlowState \ {"received", "bounced"},
         SetState(q, s) \/ Write(q, [case[q] EXCEPT !.state = s])
  PROVE  Written
<1>1. CASE NoWrite
  BY <1>1 DEF Written
<1>2. CASE Write(q, [case[q] EXCEPT !.state = s])
  BY <1>2, StateWrite DEF Written, Writes
<1> QED
  BY <1>1, <1>2 DEF SetState

\* The state that a change of state leaves.
LEMMA StateAfter ==
  ASSUME TypeOK, NEW q \in QueueIds, NEW s,
         SetState(q, s) \/ Write(q, [case[q] EXCEPT !.state = s])
  PROVE  case'[q].state = s
<1>1. case \in [QueueIds -> Row] /\ case[q] \in Row
  BY DEF TypeOK
<1>2. CASE case[q].state = s /\ NoWrite
  BY <1>2 DEF NoWrite
<1>3. CASE Write(q, [case[q] EXCEPT !.state = s])
  BY <1>1, <1>3 DEF Write, Row
<1> QED
  BY <1>2, <1>3 DEF SetState

\* The alert at hand.
LEMMA AlertFacts ==
  ASSUME CaseInv, NEW h \in Hooks, Taken(h)
  PROVE  /\ Alert(h) \in Parsed
         /\ Alert(h).queue_id \in QueueIds \cup {NoText}
         /\ Alert(h).recipients \in Lists
         /\ Tail(hook[h].rest) \in Seq(Parsed)
<1>1. hook[h].rest \in Seq(Parsed) /\ hook[h].rest # <<>>
  BY DEF CaseInv, HookType, Taken
<1>2. Head(hook[h].rest) \in Parsed /\ Tail(hook[h].rest) \in Seq(Parsed)
  BY <1>1
<1> QED
  BY <1>2, ParsedFacts DEF Alert

\* The row that a first detection leaves: its own recipients beside the others.
LEMMA FirstDetectionWrites ==
  ASSUME CaseInv, NEW h \in Hooks, FirstDetection(h)
  PROVE  LET event == Alert(h)  q == event.queue_id
         IN  /\ Written
             /\ q \in QueueIds
             /\ case'[q].state = IF case[q].state = "absent" THEN "received" ELSE case[q].state
             /\ ToSet(event.recipients) \subseteq ToSet(case'[q].recipient)
             /\ split_addrs(case'[q].recipient) = case'[q].recipient
             /\ case'[q] \in Row
<1> DEFINE event == Alert(h)
           q == event.queue_id
           row == [state |-> IF case[q].state = "absent" THEN "received" ELSE case[q].state,
                   recipient |-> MergeRecipients(case[q].recipient, event.recipients)]
<1>0. Taken(h) /\ Complete(event) /\ ~IsReanalysis(event)
  BY DEF FirstDetection
<1>1. q \in QueueIds /\ event.recipients \in Lists /\ event.recipients # <<>>
  BY <1>0, AlertFacts DEF Complete
<1>2. q[2] = 0
  BY <1>0, <1>1 DEF IsReanalysis, Base, QueueIds
<1>3. case[q] \in Row /\ case[q].recipient \in Lists /\ case \in [QueueIds -> Row]
  BY <1>1 DEF CaseInv, TypeOK, Row
<1>4. IF row = case[q] THEN NoWrite ELSE Write(q, row)
  BY DEF FirstDetection
<1> HIDE DEF event, q
<1>5. /\ row.recipient \in Lists
      /\ ToSet(row.recipient) = ToSet(case[q].recipient) \cup ToSet(event.recipients)
  BY <1>1, <1>3, MergeKeepsRecipients
<1>6. ToSet(event.recipients) # {}
  <2>1. event.recipients \in Seq(Addresses)
    BY <1>1 DEF Lists
  <2>2. 1 \in DOMAIN event.recipients
    BY <1>1, <2>1
  <2> QED
    BY <2>2 DEF ToSet
<1>7. row.recipient # <<>>
  BY <1>5, <1>6 DEF ToSet
<1>8. row \in Row /\ row.state # "absent" /\ row.state \in {case[q].state, "received"}
  BY <1>3, <1>5 DEF Row, FlowState
<1>9. Later(case[q], row)
  BY <1>5, <1>8 DEF Later
<1>10. row.state = "bounced" => case[q].state = "bounced"
  BY <1>8
<1>11. row.state = IF case[q].state = "absent" THEN "received" ELSE case[q].state
  OBVIOUS
<1> HIDE DEF row
<1>12. Written
  <2>1. CASE row = case[q]
    BY <1>4, <2>1 DEF Written
  <2>2. CASE row # case[q]
    BY <1>1, <1>2, <1>4, <1>7, <1>8, <1>9, <1>10, <2>2 DEF Written, Writes, RowWrite
  <2> QED
    BY <2>1, <2>2
<1>13. case'[q] = row
  BY <1>1, <1>3, <1>4 DEF NoWrite, Write
<1>14. split_addrs(row.recipient) = row.recipient
  BY <1>5, SplitStored
<1> QED
  BY <1>1, <1>5, <1>8, <1>11, <1>12, <1>13, <1>14 DEF event, q

\* After a first detection the request waits for the mail while the case is
\* RECEIVED.
LEMMA FirstDetectionBecomes ==
  ASSUME CaseInv, NEW h \in Hooks, FirstDetection(h)
  PROVE  LET q == Alert(h).queue_id
         IN  \/ Becomes(h, Mailing(h, q, split_addrs(case'[q].recipient)))
             \/ case'[q].state # "received" /\ Becomes(h, Passed(h))
<1> DEFINE event == Alert(h)
           q == event.queue_id
           row == [state |-> IF case[q].state = "absent" THEN "received" ELSE case[q].state,
                   recipient |-> MergeRecipients(case[q].recipient, event.recipients)]
<1>1. q \in QueueIds
  BY FirstDetectionWrites
<1>2. /\ IF row = case[q] THEN NoWrite ELSE Write(q, row)
      /\ Becomes(h, IF Asks(case[q], row) THEN Mailing(h, q, split_addrs(row.recipient))
                                          ELSE Passed(h))
  BY DEF FirstDetection
<1> HIDE DEF event, q, row
<1>3. case'[q] = row
  BY <1>1, <1>2 DEF NoWrite, Write, CaseInv, TypeOK
<1>4. CASE Asks(case[q], row)
  BY <1>2, <1>3, <1>4 DEF event, q
<1>5. CASE ~Asks(case[q], row)
  BY <1>2, <1>3, <1>5 DEF Asks, event, q
<1> QED
  BY <1>4, <1>5

\* The case of a re-detection.
LEMMA RedetectionCase ==
  ASSUME CaseInv, NEW h \in Hooks, Redetection(h)
  PROVE  LET q == Base(Alert(h).queue_id)
         IN  /\ q \in QueueIds
             /\ case[q] \in Row /\ case[q].state # "absent" /\ case[q].recipient # <<>>
             /\ split_addrs(case[q].recipient) = case[q].recipient
<1>0. Taken(h) /\ Complete(Alert(h)) /\ case[Base(Alert(h).queue_id)].state # "absent"
  BY DEF Redetection
<1>1. Base(Alert(h).queue_id) \in QueueIds
  BY <1>0, AlertFacts DEF Complete, Base, QueueIds
<1>2. case[Base(Alert(h).queue_id)] \in Row
  BY <1>1 DEF CaseInv, TypeOK
<1>3. case[Base(Alert(h).queue_id)].recipient \in Lists
  BY <1>2 DEF Row
<1>4. case[Base(Alert(h).queue_id)].recipient # <<>>
  BY <1>0, <1>1 DEF CaseInv, TypeOK
<1> QED
  BY <1>0, <1>1, <1>2, <1>3, <1>4, SplitStored

\* A re-detection counts, gives up or leaves the row alone.
LEMMA RedetectionWrites ==
  ASSUME CaseInv, NEW h \in Hooks, Redetection(h)
  PROVE  Written
<1> DEFINE q == Base(Alert(h).queue_id)
<1>1. q \in QueueIds /\ case[q] \in Row /\ case[q].state # "absent" /\ case[q].recipient # <<>>
  BY RedetectionCase
<1>2. NoWrite \/ SetState(q, "failed_max_retries") \/ Write(q, case[q])
  BY DEF Redetection
<1> HIDE DEF q
<1>3. CASE SetState(q, "failed_max_retries")
  BY <1>1, <1>3, StateWrites DEF CaseInv, FlowState
<1>4. CASE Write(q, case[q])
  <2>1. Later(case[q], case[q])
    BY DEF Later
  <2> QED
    BY <1>1, <1>4, <2>1 DEF Written, Writes, RowWrite
<1> QED
  BY <1>2, <1>3, <1>4 DEF Written

\* The answers of EX and of the mail server.
LEMMA ReplyWrites ==
  ASSUME CaseInv, NEW h \in Hooks, ExReplies(h) \/ MailerReplies(h)
  PROVE  Written
<1> DEFINE q == hook[h].at
<1>1. q \in QueueIds /\ case[q].state # "absent"
  BY DEF CaseInv, HooksHaveCases, ExReplies, MailerReplies, In
<1>2. \/ NoWrite
      \/ \E s \in {"done_quarantined", "done_passed", "awaiting_password", "notify_failed"} :
           SetState(q, s) \/ Write(q, [case[q] EXCEPT !.state = s])
  BY DEF ExReplies, MailerReplies
<1> HIDE DEF q
<1> QED
  BY <1>1, <1>2, StateWrites DEF CaseInv, FlowState, Written

\* The case that a report which names none is matched with.
LEMMA OpenCaseFacts ==
  ASSUME TypeOK, NEW a, OpenCaseOf(a) # NoCase
  PROVE  LET q == OpenCaseOf(a)
         IN  q \in QueueIds /\ case[q].state # "absent" /\ LatestOpenOf(q, a)
<1> DEFINE open == {i \in DOMAIN recent : /\ case[recent[i]].state \notin TERMINAL
                                          /\ Contains(case[recent[i]].recipient, a)}
<1>1. OpenCaseOf(a) = IF open = {} THEN NoCase ELSE recent[Min(open)]
  BY DEF OpenCaseOf
<1>2. recent \in Seq(QueueIds)
  BY DEF TypeOK
<1>3. open \in SUBSET Nat /\ open \subseteq DOMAIN recent
  BY <1>2
<1>4. \A i \in DOMAIN recent :
        i \in open <=> /\ case[recent[i]].state \notin TERMINAL
                      /\ a \in ToSet(case[recent[i]].recipient)
  <2>1. ASSUME NEW i \in DOMAIN recent
        PROVE  Contains(case[recent[i]].recipient, a) <=> a \in ToSet(case[recent[i]].recipient)
    <3>1. recent[i] \in QueueIds /\ case[recent[i]].recipient \in Seq(Addresses)
      BY <1>2, <2>1 DEF TypeOK, Row, Lists
    <3> QED
      BY <3>1 DEF Contains, ToSet
  <2> QED
    BY <2>1
<1> HIDE DEF open
<1>5. open # {}
  BY <1>1
<1> DEFINE i == Min(open)
<1>6. i \in open /\ \A j \in open : i <= j
  BY <1>3, <1>5, MinIsLeast
<1> HIDE DEF i
<1>7. i \in DOMAIN recent /\ OpenCaseOf(a) = recent[i]
  BY <1>1, <1>3, <1>5, <1>6 DEF i
<1>8. recent[i] \in ToSet(recent) /\ recent[i] \in QueueIds
  BY <1>2, <1>7 DEF ToSet
<1>9. case[recent[i]].state # "absent"
  BY <1>8 DEF TypeOK
<1>10. \A j \in DOMAIN recent : j < i => j \notin open
  BY <1>2, <1>3, <1>6, <1>7
<1>11. LatestOpenOf(recent[i], a)
  BY <1>4, <1>6, <1>7, <1>10 DEF LatestOpenOf
<1> QED
  BY <1>7, <1>8, <1>9, <1>11

\* The case a report is about is there, and is the one it names if it names one
\* of this database.
LEMMA CorrelatedFacts ==
  ASSUME CaseInv, poll.got # <<>>, Correlated(Head(poll.got)) # NoCase
  PROVE  LET m == Head(poll.got)  q == Correlated(m)
         IN  /\ q \in QueueIds /\ case[q].state # "absent"
             /\ case[q].state \notin TERMINAL => IsAbout(m, q)
<1> DEFINE m == Head(poll.got)
<1>1. poll.got \in Seq(Report)
  BY DEF CaseInv, PollType
<1>2. m \in ToSet(poll.got)
  BY <1>1 DEF ToSet
<1> HIDE DEF m
<1>3. CASE m.case \in Emails
  <2>1. case[<<m.case, 0>>].state # "absent"
    BY <1>2, <1>3 DEF CaseInv, ReportsHaveCases
  <2>2. Correlated(m) = <<m.case, 0>>
    BY <1>3, <2>1 DEF Correlated, NamesCase
  <2> QED
    BY <1>3, <2>1, <2>2 DEF QueueIds, IsAbout, m
<1>4. CASE m.case \notin Emails
  <2>1. Correlated(m) = OpenCaseOf(m.recipient)
    BY <1>4 DEF Correlated, NamesCase
  <2>2. OpenCaseOf(m.recipient) # NoCase
    BY <2>1 DEF m
  <2> QED
    BY <1>4, <2>1, <2>2, OpenCaseFacts DEF CaseInv, IsAbout, m
<1> QED
  BY <1>3, <1>4

\* What a report does.
LEMMA BounceWrites ==
  ASSUME CaseInv, HandleBounce
  PROVE  Written
<1> DEFINE q == Correlated(Head(poll.got))
<1>1. poll.got # <<>>
  BY DEF HandleBounce
<1>2. IF q # NoCase /\ case[q].state \notin TERMINAL THEN SetState(q, "bounced") ELSE NoWrite
  BY DEF HandleBounce
<1>3. CASE q # NoCase /\ case[q].state \notin TERMINAL
  <2>1. q \in QueueIds /\ case[q].state # "absent" /\ IsAbout(Head(poll.got), q)
    BY <1>1, <1>3, CorrelatedFacts
  <2> HIDE DEF q
  <2>2. Write(q, [case[q] EXCEPT !.state = "bounced"]) \/ NoWrite
    BY <1>2, <1>3 DEF SetState
  <2>3. CASE Write(q, [case[q] EXCEPT !.state = "bounced"])
    <3>1. \E row : RowWrite(q, row) /\ row.state = "bounced"
      BY <2>1, <2>3, StateWrite DEF CaseInv, FlowState
    <3> QED
      BY <2>1, <3>1 DEF Written, Writes
  <2> QED
    BY <2>2, <2>3 DEF Written
<1>4. CASE ~(q # NoCase /\ case[q].state \notin TERMINAL)
  <2> HIDE DEF q
  <2> QED
    BY <1>2, <1>4 DEF Written
<1> QED
  BY <1>3, <1>4

\* No step writes a row in any other way.
LEMMA EveryWrite ==
  ASSUME CaseInv, [Next]_vars
  PROVE  Written
<1>1. ASSUME NEW h \in Hooks, HookStep(h)
      PROVE  Written
  <2>1. CASE FirstDetection(h)
    BY <2>1, FirstDetectionWrites
  <2>2. CASE Redetection(h)
    BY <2>2, RedetectionWrites
  <2>3. CASE Skipped(h) \/ Acknowledge(h)
    BY <2>3 DEF Skipped, Acknowledge, Written, NoWrite
  <2>4. CASE ExReplies(h) \/ MailerReplies(h)
    BY <2>4, ReplyWrites
  <2> QED
    BY <1>1, <2>1, <2>2, <2>3, <2>4 DEF HookStep
<1>2. ASSUME NEW h \in Hooks, NEW p \in Payloads, Receive(h, p)
      PROVE  Written
  BY <1>2 DEF Receive, Written, NoWrite
<1>3. ASSUME NEW q \in QueueIds, FlowGoesOn(q)
      PROVE  Written
  <2>1. case[q].state # "absent" /\ \E s \in {"resubmitted", "done_passed"} : SetState(q, s)
    BY <1>3 DEF FlowGoesOn
  <2> QED
    BY <2>1, StateWrites DEF CaseInv, FlowState
<1>4. ASSUME NEW a \in Addresses, StrayReport(a) \/ \E e \in Emails : Bounces(e, a)
      PROVE  Written
  BY <1>4 DEF Bounces, StrayReport, Written, NoWrite
<1>5. CASE PollStep
  <2>1. CASE HandleBounce
    BY <2>1, BounceWrites
  <2>2. CASE Search \/ (\E m \in poll.found : Fetch(m)) \/ FetchFails \/ PollEnds
    BY <2>2 DEF Search, Fetch, FetchFails, PollEnds, Written, NoWrite
  <2> QED
    BY <1>5, <2>1, <2>2 DEF PollStep
<1>6. CASE Configured \/ Crash \/ Restart \/ UNCHANGED vars
  BY <1>6 DEF Configured, Crash, Restart, vars, Written, NoWrite
<1> QED
  BY <1>1, <1>2, <1>3, <1>4, <1>5, <1>6 DEF Next

(***************************************************************************)
(* The invariant, part by part.                                            *)
(***************************************************************************)

\* The rows after a write.
LEMMA RowsStep ==
  ASSUME CaseInv, Written
  PROVE  /\ RowsOK' /\ ReanalysisCreatesNoCase'
         /\ \A q \in QueueIds : Later(case[q], case'[q])
<1>0. RowsOK /\ ReanalysisCreatesNoCase
  BY DEF CaseInv, TypeOK, RowsOK
<1>1. CASE NoWrite
  BY <1>0, <1>1 DEF NoWrite, RowsOK, ReanalysisCreatesNoCase, Later
<1>2. ASSUME NEW q, NEW row, Writes(q, row)
      PROVE  /\ RowsOK' /\ ReanalysisCreatesNoCase'
             /\ \A r \in QueueIds : Later(case[r], case'[r])
  <2>1. /\ q \in QueueIds /\ row \in Row /\ row.state # "absent" /\ row.recipient # <<>>
        /\ Later(case[q], row) /\ Write(q, row) /\ (case[q].state = "absent" => q[2] = 0)
    BY <1>2 DEF Writes, RowWrite
  <2>2. case \in [QueueIds -> Row] /\ case' = [case EXCEPT ![q] = row]
    BY <1>0, <2>1 DEF RowsOK, Write
  <2>3. \A r \in QueueIds : case'[r] = IF r = q THEN row ELSE case[r]
    BY <2>1, <2>2
  <2>4. /\ recent' \in Seq(QueueIds) /\ IsInjective(recent')
        /\ ToSet(recent') = ToSet(recent) \cup {q}
    BY <1>0, <2>1, WriteMoves
  <2>5. RowsOK'
    <3>1. case' \in [QueueIds -> Row]
      BY <2>1, <2>2
    <3>2. \A r \in QueueIds : (case'[r].state = "absent") <=> (case'[r].recipient = <<>>)
      BY <1>0, <2>1, <2>3 DEF RowsOK
    <3>3. ToSet(recent') = {r \in QueueIds : case'[r].state # "absent"}
      BY <1>0, <2>1, <2>3, <2>4 DEF RowsOK
    <3> QED
      BY <2>4, <3>1, <3>2, <3>3 DEF RowsOK
  <2>6. ReanalysisCreatesNoCase'
    BY <1>0, <2>1, <2>3 DEF ReanalysisCreatesNoCase, QueueIds
  <2>7. ASSUME NEW r \in QueueIds
        PROVE  Later(case[r], case'[r])
    <3>1. Later(case[r], case[r])
      BY DEF Later
    <3> QED
      BY <2>1, <2>3, <3>1
  <2> QED
    BY <2>5, <2>6, <2>7
<1> QED
  BY <1>1, <1>2 DEF Written

\* The requests in flight after one of them is given its next state.
HookUpdate(h, j) ==
  /\ Becomes(h, j)
  /\ j.pc # "idle" => j.payload \in Payloads
  /\ j.pc \in {"mail", "ex"} => j.at \in QueueIds /\ case'[j.at].state # "absent"
  /\ j \in [pc : {"idle", "loop", "mail", "ex"}, payload : Payloads \cup {<<>>},
            rest : Seq(Parsed), at : QueueIds \cup {NoCase}, to : Seq(Addresses)]

LEMMA HookUpdateStep ==
  ASSUME CaseInv, Written, NEW h \in Hooks, NEW j, HookUpdate(h, j)
  PROVE  HookType' /\ HooksHaveCases'
<1>1. /\ HookType /\ HooksHaveCases
      /\ \A q \in QueueIds : Later(case[q], case'[q])
  BY RowsStep DEF CaseInv
<1>2. hook' = [hook EXCEPT ![h] = j]
  BY DEF HookUpdate, Becomes
<1>3. HookType'
  BY <1>1, <1>2 DEF HookType, HookUpdate
<1>4. ASSUME NEW g \in Hooks
      PROVE  /\ hook'[g].pc # "idle" => hook'[g].payload \in Payloads
             /\ hook'[g].pc \in {"mail", "ex"} =>
                  hook'[g].at \in QueueIds /\ case'[hook'[g].at].state # "absent"
  <2>1. CASE g = h
    <3>1. hook'[g] = j
      BY <1>1, <1>2, <2>1 DEF HookType
    <3> QED
      BY <3>1 DEF HookUpdate
  <2>2. CASE g # h
    <3>1. hook'[g] = hook[g]
      BY <1>1, <1>2, <2>2 DEF HookType
    <3> QED
      BY <1>1, <3>1 DEF HooksHaveCases, Later
  <2> QED
    BY <2>1, <2>2
<1> QED
  BY <1>3, <1>4 DEF HooksHaveCases

\* The requests that no step of theirs changes.
LEMMA HooksStay ==
  ASSUME CaseInv, Written, UNCHANGED hook
  PROVE  HookType' /\ HooksHaveCases'
<1>1. \A q \in QueueIds : Later(case[q], case'[q])
  BY RowsStep
<1> QED
  BY <1>1 DEF CaseInv, HookType, HooksHaveCases, Later

IdleFits == IdleHook \in [pc : {"idle", "loop", "mail", "ex"}, payload : Payloads \cup {<<>>},
                          rest : Seq(Parsed), at : QueueIds \cup {NoCase}, to : Seq(Addresses)]

\* A request without work is well-formed.
LEMMA IdleHookType == IdleFits /\ IdleHook.pc = "idle"
<1>1. <<>> \in Seq(Parsed) /\ <<>> \in Seq(Addresses)
  OBVIOUS
<1> QED
  BY <1>1 DEF IdleHook, IdleFits

\* Each step of a request leaves it about its payload and about a case there is.
LEMMA HookSteps ==
  ASSUME CaseInv, NEW h \in Hooks, HookStep(h)
  PROVE  /\ \E j : HookUpdate(h, j) /\ (j.pc # "idle" => j.payload = hook[h].payload)
         /\ Written
<1>0. Written
  BY EveryWrite DEF Next
<1>1. /\ hook[h] \in [pc : {"idle", "loop", "mail", "ex"}, payload : Payloads \cup {<<>>},
                      rest : Seq(Parsed), at : QueueIds \cup {NoCase}, to : Seq(Addresses)]
      /\ hook[h].pc # "idle" => hook[h].payload \in Payloads
  BY DEF CaseInv, HookType, HooksHaveCases
<1>2. \A q \in QueueIds : case[q].state # "absent" => case'[q].state # "absent"
  BY <1>0, RowsStep DEF Later
<1>3. ASSUME Taken(h)
      PROVE  /\ hook[h].pc = "loop" /\ Tail(hook[h].rest) \in Seq(Parsed)
             /\ Becomes(h, Passed(h)) => HookUpdate(h, Passed(h))
  <2>1. hook[h].pc = "loop" /\ Tail(hook[h].rest) \in Seq(Parsed)
    BY <1>3, AlertFacts DEF Taken, In
  <2> QED
    BY <1>1, <2>1 DEF HookUpdate, Passed
<1>4. ASSUME Taken(h), NEW q \in QueueIds, NEW to \in Seq(Addresses),
             case'[q].state # "absent", Becomes(h, Mailing(h, q, to))
      PROVE  HookUpdate(h, Mailing(h, q, to))
  BY <1>1, <1>3, <1>4 DEF HookUpdate, Passed, Mailing
<1>5. Becomes(h, IdleHook) => HookUpdate(h, IdleHook)
  BY IdleHookType DEF HookUpdate, IdleFits
<1>6. /\ Passed(h).payload = hook[h].payload
      /\ \A q, to : Mailing(h, q, to).payload = hook[h].payload
      /\ \A q : Asking(h, q).payload = hook[h].payload
  BY <1>1 DEF Passed, Mailing, Asking
<1>7. CASE FirstDetection(h)
  <2> DEFINE q == Alert(h).queue_id
             to == split_addrs(case'[q].recipient)
  <2>1. q \in QueueIds /\ case'[q] \in Row /\ to = case'[q].recipient
    BY <1>7, FirstDetectionWrites
  <2>2. to \in Seq(Addresses)
    BY <2>1 DEF Row, Lists
  <2>3. case'[q].state # "absent"
    BY <1>7, FirstDetectionWrites
  <2>4. Taken(h)
    BY <1>7 DEF FirstDetection
  <2>5. Becomes(h, Mailing(h, q, to)) \/ Becomes(h, Passed(h))
    BY <1>7, FirstDetectionBecomes
  <2> HIDE DEF q, to
  <2>6. CASE Becomes(h, Mailing(h, q, to))
    <3>1. HookUpdate(h, Mailing(h, q, to))
      BY <1>4, <2>1, <2>2, <2>3, <2>4, <2>6
    <3> QED
      BY <1>0, <1>6, <3>1
  <2>7. CASE Becomes(h, Passed(h))
    BY <1>0, <1>3, <1>6, <2>4, <2>7
  <2> QED
    BY <2>5, <2>6, <2>7
<1>8. CASE Redetection(h)
  <2> DEFINE q == Base(Alert(h).queue_id)
             to == split_addrs(case[q].recipient)
  <2>1. /\ q \in QueueIds /\ case[q] \in Row /\ case[q].state # "absent"
        /\ to = case[q].recipient
    BY <1>8, RedetectionCase
  <2>2. to \in Seq(Addresses)
    BY <2>1 DEF Row, Lists
  <2>3. case'[q].state # "absent"
    BY <1>2, <2>1
  <2>4. Taken(h)
    BY <1>8 DEF Redetection
  <2>5. \/ Becomes(h, Passed(h)) \/ Becomes(h, Mailing(h, q, to))
        \/ Becomes(h, Asking(h, q))
    BY <1>8 DEF Redetection
  <2> HIDE DEF q, to
  <2>6. CASE Becomes(h, Mailing(h, q, to))
    <3>1. HookUpdate(h, Mailing(h, q, to))
      BY <1>4, <2>1, <2>2, <2>3, <2>4, <2>6
    <3> QED
      BY <1>0, <1>6, <3>1
  <2>7. CASE Becomes(h, Passed(h))
    BY <1>0, <1>3, <1>6, <2>4, <2>7
  <2>8. CASE Becomes(h, Asking(h, q))
    <3>1. HookUpdate(h, Asking(h, q))
      BY <1>1, <1>3, <2>1, <2>3, <2>4, <2>8 DEF HookUpdate, Passed, Asking
    <3> QED
      BY <1>0, <1>6, <3>1
  <2> QED
    BY <2>5, <2>6, <2>7, <2>8
<1>9. CASE Skipped(h)
  <2>1. Taken(h) /\ Becomes(h, Passed(h))
    BY <1>9 DEF Skipped, AfterIgnored
  <2> QED
    BY <1>0, <1>3, <1>6, <2>1
<1>10. CASE ExReplies(h) \/ MailerReplies(h)
  <2> DEFINE j == [hook[h] EXCEPT !.pc = "loop"]
  <2>1. hook[h].pc \in {"ex", "mail"} /\ (Becomes(h, j) \/ Becomes(h, IdleHook))
    BY <1>10 DEF ExReplies, MailerReplies, In
  <2>2. Becomes(h, j) => HookUpdate(h, j) /\ j.payload = hook[h].payload
    BY <1>1, <2>1 DEF HookUpdate
  <2> HIDE DEF j
  <2> QED
    BY <1>0, <1>5, <2>1, <2>2, IdleHookType
<1>11. CASE Acknowledge(h)
  <2>1. Becomes(h, IdleHook)
    BY <1>11 DEF Acknowledge
  <2> QED
    BY <1>0, <1>5, <2>1, IdleHookType
<1> QED
  BY <1>7, <1>8, <1>9, <1>10, <1>11 DEF HookStep

\* Every step keeps the requests well-formed.
LEMMA HooksStep ==
  ASSUME CaseInv, [Next]_vars
  PROVE  HookType' /\ HooksHaveCases'
<1>0. Written
  BY EveryWrite
<1>1. ASSUME NEW h \in Hooks, HookStep(h)
      PROVE  HookType' /\ HooksHaveCases'
  BY <1>1, HookSteps, HookUpdateStep
<1>2. ASSUME NEW h \in Hooks, NEW p \in Payloads, Receive(h, p)
      PROVE  HookType' /\ HooksHaveCases'
  <2> DEFINE j == [IdleHook EXCEPT !.pc = "loop", !.payload = p, !.rest = Events[p]]
  <2>1. Becomes(h, j)
    BY <1>2 DEF Receive
  <2>2. Events[p] \in Seq(Parsed)
    BY ParsedFacts
  <2>3. HookUpdate(h, j)
    BY <2>1, <2>2, IdleHookType DEF HookUpdate, IdleFits, IdleHook
  <2> HIDE DEF j
  <2> QED
    BY <1>0, <2>3, HookUpdateStep
<1>3. CASE Crash
  <2>1. hook' = [h \in Hooks |-> IdleHook]
    BY <1>3 DEF Crash
  <2>2. IdleFits /\ IdleHook.pc = "idle"
    BY IdleHookType
  <2> QED
    BY <2>1, <2>2 DEF HookType, HooksHaveCases, IdleFits
<1>4. ASSUME UNCHANGED hook
      PROVE  HookType' /\ HooksHaveCases'
  BY <1>0, <1>4, HooksStay
<1>5. \/ \E h \in Hooks : HookStep(h)
      \/ \E h \in Hooks, p \in Payloads : Receive(h, p)
      \/ Crash
      \/ UNCHANGED hook
  BY DEF Next, FlowGoesOn, Bounces, StrayReport, PollStep, Search, Fetch, FetchFails, HandleBounce,
         PollEnds, Configured, Restart, vars
<1> QED
  BY <1>1, <1>2, <1>3, <1>4, <1>5

\* What a request does to the variables that are not its own.
LEMMA HookRest ==
  ASSUME CaseInv, NEW h \in Hooks, HookStep(h)
  PROVE  /\ UNCHANGED <<ready, unseen, poll, up>>
         /\ acked' \in SUBSET Payloads
         /\ \/ UNCHANGED mailed
            \/ \E e \in Emails, to \in SUBSET Addresses :
                 /\ mailed' = [mailed EXCEPT ![e] = @ \cup to]
                 /\ case[<<e, 0>>].state # "absent"
<1>0. acked \subseteq Payloads
  BY DEF CaseInv, TypeOK
<1>1. CASE FirstDetection(h) \/ Redetection(h) \/ Skipped(h) \/ ExReplies(h)
  BY <1>0, <1>1 DEF FirstDetection, Redetection, Skipped, ExReplies
<1>2. CASE MailerReplies(h)
  <2> DEFINE q == hook[h].at
             to == ToSet(hook[h].to)
  <2>1. q \in QueueIds /\ case[q].state # "absent"
    BY <1>2 DEF CaseInv, HooksHaveCases, MailerReplies, In
  <2>2. hook[h].to \in Seq(Addresses)
    BY DEF CaseInv, HookType
  <2>3. to \in SUBSET Addresses
    BY <2>2 DEF ToSet
  <2>4. UNCHANGED mailed \/ mailed' = [mailed EXCEPT ![q[1]] = @ \cup to]
    BY <1>2 DEF MailerReplies
  <2>5. q[1] \in Emails /\ q = <<q[1], 0>>
    <3>1. ~(q[2] > 0)
      BY <2>1 DEF CaseInv, ReanalysisCreatesNoCase
    <3> HIDE DEF q
    <3> QED
      BY <2>1, <3>1 DEF QueueIds
  <2>6. UNCHANGED <<ready, acked, unseen, poll, up>>
    BY <1>2 DEF MailerReplies
  <2> HIDE DEF q, to
  <2>7. case[<<q[1], 0>>].state # "absent"
    BY <2>1, <2>5
  <2> QED
    BY <1>0, <2>3, <2>4, <2>5, <2>6, <2>7
<1>3. CASE Acknowledge(h)
  <2>1. hook[h].payload \in Payloads
    BY <1>3 DEF CaseInv, HooksHaveCases, Acknowledge, In
  <2> QED
    BY <1>0, <1>3, <2>1 DEF Acknowledge
<1> QED
  BY <1>1, <1>2, <1>3 DEF HookStep

\* What the monitor does to its own state and the mailbox.
LEMMA PollSteps ==
  ASSUME CaseInv, PollStep
  PROVE  /\ UNCHANGED <<mailed, ready, hook, acked, up>>
         /\ PollType' /\ unseen' \subseteq unseen
         /\ \A m \in poll'.found \cup ToSet(poll'.got) :
              m \in unseen \cup poll.found \cup ToSet(poll.got)
<1>0. /\ poll.found \in SUBSET Report /\ poll.got \in Seq(Report) /\ unseen \subseteq Report
      /\ poll \in [pc : {"idle", "fetch"}, found : SUBSET Report, got : Seq(Report)]
  BY DEF CaseInv, PollType, TypeOK
<1>1. IdlePoll.found = {} /\ ToSet(IdlePoll.got) = {} /\ IdlePoll.got \in Seq(Report)
      /\ IdlePoll \in [pc : {"idle", "fetch"}, found : SUBSET Report, got : Seq(Report)]
  BY DEF IdlePoll, ToSet
<1>2. CASE Search
  <2>1. poll' = [IdlePoll EXCEPT !.pc = "fetch", !.found = unseen]
    BY <1>2 DEF Search
  <2>2. poll'.found = unseen /\ poll'.got = IdlePoll.got /\ PollType'
    BY <1>0, <1>1, <2>1 DEF IdlePoll, PollType
  <2> QED
    BY <1>1, <1>2, <2>2 DEF Search
<1>3. ASSUME NEW m \in poll.found, Fetch(m)
      PROVE  /\ UNCHANGED <<mailed, ready, hook, acked, up>>
             /\ PollType' /\ unseen' \subseteq unseen
             /\ poll'.found \subseteq poll.found
             /\ ToSet(poll'.got) \subseteq ToSet(poll.got) \cup {m}
  <2>1. /\ poll' = [poll EXCEPT !.found = @ \ {m}, !.got = Append(@, m)]
        /\ unseen' \subseteq unseen
    BY <1>3 DEF Fetch
  <2>2. poll'.found = poll.found \ {m} /\ poll'.got = Append(poll.got, m)
    BY <1>0, <2>1
  <2>3. PollType'
    <3>1. poll.found \ {m} \in SUBSET Report /\ Append(poll.got, m) \in Seq(Report)
      BY <1>0
    <3> QED
      BY <1>0, <2>1, <3>1 DEF PollType
  <2>4. ToSet(Append(poll.got, m)) \subseteq ToSet(poll.got) \cup {m}
    <3>1. \A i \in 1 .. Len(poll.got) + 1 :
            Append(poll.got, m)[i] = IF i = Len(poll.got) + 1 THEN m ELSE poll.got[i]
      BY <1>0
    <3>2. DOMAIN Append(poll.got, m) = 1 .. Len(poll.got) + 1
      BY <1>0
    <3>3. \A i \in 1 .. Len(poll.got) + 1 : i # Len(poll.got) + 1 => i \in DOMAIN poll.got
      BY <1>0
    <3> QED
      BY <3>1, <3>2, <3>3 DEF ToSet
  <2> QED
    BY <1>3, <2>1, <2>2, <2>3, <2>4 DEF Fetch
<1>4. CASE FetchFails \/ PollEnds
  <2>1. poll' = IdlePoll
    BY <1>4 DEF FetchFails, PollEnds
  <2>2. PollType' /\ poll'.found = {} /\ ToSet(poll'.got) = {}
    BY <1>1, <2>1 DEF PollType
  <2> QED
    BY <1>4, <2>2 DEF FetchFails, PollEnds
<1>5. CASE HandleBounce
  <2>1. poll' = [poll EXCEPT !.got = Tail(@)] /\ poll.got # <<>>
    BY <1>5 DEF HandleBounce, Remaining
  <2>2. poll'.found = poll.found /\ poll'.got = Tail(poll.got) /\ PollType'
    <3>1. Tail(poll.got) \in Seq(Report)
      BY <1>0, <2>1
    <3> QED
      BY <1>0, <2>1, <3>1 DEF PollType
  <2>3. ToSet(Tail(poll.got)) \subseteq ToSet(poll.got)
    <3>1. /\ DOMAIN Tail(poll.got) = 1 .. Len(poll.got) - 1
          /\ \A i \in 1 .. Len(poll.got) - 1 :
               Tail(poll.got)[i] = poll.got[i + 1] /\ i + 1 \in DOMAIN poll.got
      BY <1>0, <2>1
    <3> QED
      BY <3>1 DEF ToSet
  <2> QED
    BY <1>5, <2>2, <2>3 DEF HandleBounce
<1>6. ASSUME NEW m \in poll.found, Fetch(m)
      PROVE  \A x \in poll'.found \cup ToSet(poll'.got) :
               x \in unseen \cup poll.found \cup ToSet(poll.got)
  BY <1>3, <1>6
<1> QED
  BY <1>2, <1>3, <1>4, <1>5, <1>6 DEF PollStep

\* A mail or a report that is about a case goes on being about one.
LEMMA ReportsStep ==
  ASSUME CaseInv, [Next]_vars
  PROVE  /\ mailed' \in [Emails -> SUBSET Addresses]
         /\ unseen' \subseteq Report
         /\ acked' \subseteq Payloads
         /\ ready' \in BOOLEAN /\ up' \in BOOLEAN
         /\ PollType' /\ ReportsHaveCases'
<1>0. /\ mailed \in [Emails -> SUBSET Addresses] /\ unseen \subseteq Report
      /\ acked \subseteq Payloads /\ ready \in BOOLEAN /\ up \in BOOLEAN
      /\ PollType /\ ReportsHaveCases
  BY DEF CaseInv, TypeOK
<1>1. \A e \in Emails : case[<<e, 0>>].state # "absent" => case'[<<e, 0>>].state # "absent"
  BY EveryWrite, RowsStep DEF Later, QueueIds
<1>2. ASSUME UNCHANGED <<mailed, unseen, poll>>
      PROVE  PollType' /\ ReportsHaveCases'
  BY <1>0, <1>1, <1>2 DEF PollType, ReportsHaveCases
<1>3. ASSUME NEW h \in Hooks, HookStep(h)
      PROVE  /\ mailed' \in [Emails -> SUBSET Addresses]
             /\ PollType' /\ ReportsHaveCases'
  <2>1. UNCHANGED <<unseen, poll>>
    BY <1>3, HookRest
  <2>2. CASE UNCHANGED mailed
    BY <1>0, <1>2, <2>1, <2>2
  <2>3. ASSUME NEW e \in Emails, NEW to \in SUBSET Addresses,
               mailed' = [mailed EXCEPT ![e] = @ \cup to],
               case[<<e, 0>>].state # "absent"
        PROVE  mailed' \in [Emails -> SUBSET Addresses] /\ ReportsHaveCases'
    <3>1. \A f \in Emails : f # e => mailed'[f] = mailed[f]
      BY <1>0, <2>3
    <3> QED
      BY <1>0, <1>1, <2>1, <2>3, <3>1 DEF ReportsHaveCases
  <2> QED
    BY <1>0, <1>3, <2>1, <2>2, <2>3, HookRest DEF PollType
<1>4. ASSUME NEW e \in Emails, NEW a \in Addresses, Bounces(e, a)
      PROVE  unseen' \subseteq Report /\ PollType' /\ ReportsHaveCases'
  <2> DEFINE m == [case |-> IF a \in Returning THEN e ELSE NoCase, recipient |-> a]
  <2>1. /\ mailed[e] # {} /\ unseen' = unseen \cup {m} /\ UNCHANGED <<mailed, poll>>
    BY <1>4 DEF Bounces
  <2>2. m \in Report /\ m.case \in {e, NoCase}
    BY DEF Report
  <2> HIDE DEF m
  <2>3. case[<<e, 0>>].state # "absent"
    BY <1>0, <2>1 DEF ReportsHaveCases
  <2>4. NoCase \notin Emails
    BY IntakeAssumption
  <2> QED
    BY <1>0, <1>1, <2>1, <2>2, <2>3, <2>4 DEF PollType, ReportsHaveCases
<1>5. ASSUME PollStep
      PROVE  PollType' /\ ReportsHaveCases'
  <2>1. /\ UNCHANGED mailed /\ PollType' /\ unseen' \subseteq unseen
        /\ \A m \in poll'.found \cup ToSet(poll'.got) :
             m \in unseen \cup poll.found \cup ToSet(poll.got)
    BY <1>5, PollSteps
  <2>2. ASSUME NEW e \in Emails,
               \/ mailed'[e] # {}
               \/ \E m \in unseen' \cup poll'.found \cup ToSet(poll'.got) : m.case = e
        PROVE  case'[<<e, 0>>].state # "absent"
    <3>1. \/ mailed[e] # {}
          \/ \E m \in unseen \cup poll.found \cup ToSet(poll.got) : m.case = e
      BY <2>1, <2>2
    <3> QED
      BY <1>0, <1>1, <3>1 DEF ReportsHaveCases
  <2> QED
    BY <2>1, <2>2 DEF ReportsHaveCases
<1>6. ASSUME Crash
      PROVE  PollType' /\ ReportsHaveCases'
  <2>1. poll' = IdlePoll /\ UNCHANGED <<mailed, unseen>>
    BY <1>6 DEF Crash
  <2>2. PollType' /\ poll'.found = {} /\ ToSet(poll'.got) = {}
    BY <2>1 DEF PollType, IdlePoll, ToSet
  <2>3. ASSUME NEW e \in Emails,
               \/ mailed'[e] # {}
               \/ \E m \in unseen' \cup poll'.found \cup ToSet(poll'.got) : m.case = e
        PROVE  case'[<<e, 0>>].state # "absent"
    <3>1. mailed[e] # {} \/ \E m \in unseen : m.case = e
      BY <2>1, <2>2, <2>3
    <3> QED
      BY <1>0, <1>1, <3>1 DEF ReportsHaveCases
  <2> QED
    BY <2>2, <2>3 DEF ReportsHaveCases
<1>10. ASSUME NEW a \in Addresses, StrayReport(a)
       PROVE  unseen' \subseteq Report /\ PollType' /\ ReportsHaveCases'
  <2> DEFINE m == [case |-> UnknownCase, recipient |-> a]
  <2>1. unseen' = unseen \cup {m} /\ UNCHANGED <<mailed, poll>>
    BY <1>10 DEF StrayReport
  <2>2. m \in Report /\ m.case \notin Emails
    BY IntakeAssumption DEF Report
  <2> HIDE DEF m
  <2> QED
    BY <1>0, <1>1, <2>1, <2>2 DEF PollType, ReportsHaveCases
<1>7. \/ \E h \in Hooks : HookStep(h)
      \/ \E e \in Emails, a \in Addresses : Bounces(e, a)
      \/ \E a \in Addresses : StrayReport(a)
      \/ PollStep
      \/ Crash
      \/ UNCHANGED <<mailed, unseen, poll>>
  BY DEF Next, Receive, FlowGoesOn, Configured, Restart, vars
<1>8. mailed' \in [Emails -> SUBSET Addresses] /\ unseen' \subseteq Report
  BY <1>0, <1>3, <1>4, <1>7, <1>10, HookRest, PollSteps DEF Bounces, StrayReport, Crash
<1>9. acked' \subseteq Payloads /\ ready' \in BOOLEAN /\ up' \in BOOLEAN
  BY <1>0, HookRest, PollSteps
     DEF Next, Receive, FlowGoesOn, Bounces, StrayReport, Configured, Crash, Restart, vars
<1> QED
  BY <1>2, <1>3, <1>4, <1>5, <1>6, <1>7, <1>8, <1>9, <1>10

\* The part of the invariant that the cases and the types make up.
LEMMA CaseInvStep ==
  ASSUME CaseInv, [Next]_vars
  PROVE  CaseInv'
<1>1. RowsOK' /\ ReanalysisCreatesNoCase'
  BY EveryWrite, RowsStep
<1>2. HookType' /\ HooksHaveCases'
  BY HooksStep
<1>3. \A h \in Hooks : hook'[h].pc \in {"idle", "loop", "mail", "ex"}
  BY <1>2 DEF HookType
<1>4. poll'.pc \in {"idle", "fetch"}
  BY ReportsStep DEF PollType
<1>5. TypeOK'
  BY <1>1, <1>3, <1>4, ReportsStep DEF TypeOK, RowsOK
<1> QED
  BY <1>1, <1>2, <1>5, ReportsStep DEF CaseInv

\* An alert is the one at hand or comes after it.
LEMMA AtHandOrLater ==
  ASSUME NEW rest \in Seq(Parsed), rest # <<>>, NEW d,
         \E i \in DOMAIN rest : Detects(rest[i], d)
  PROVE  Detects(Head(rest), d) \/ \E i \in DOMAIN Tail(rest) : Detects(Tail(rest)[i], d)
<1>1. PICK i \in DOMAIN rest : Detects(rest[i], d)
  OBVIOUS
<1>2. CASE i = 1
  BY <1>1, <1>2
<1>3. CASE i # 1
  <2>1. i - 1 \in DOMAIN Tail(rest) /\ Tail(rest)[i - 1] = rest[i]
    BY <1>3
  <2> QED
    BY <1>1, <2>1
<1> QED
  BY <1>2, <1>3

\* What is filed stays filed, and what is handled stays handled.
LEMMA HandledStays ==
  ASSUME CaseInv, [Next]_vars, NEW d, d.email \in Emails
  PROVE  (Filed(d) => Filed(d)') /\ (Handled(d) => Handled(d)')
<1>1. <<d.email, 0>> \in QueueIds
  BY DEF QueueIds
<1>2. Later(case[<<d.email, 0>>], case'[<<d.email, 0>>])
  BY <1>1, EveryWrite, RowsStep
<1> QED
  BY <1>2 DEF Filed, Handled, Later

\* A request passes no detection over: each step of it that takes an alert up
\* files its case, and goes on only when the mail is not, or no longer, due.
LEMMA NoneSkippedByStep ==
  ASSUME CaseInv, [Next]_vars, NEW h \in Hooks, HookStep(h),
         NEW d, d.email \in Emails, Stands(h, d), hook'[h].pc # "idle"
  PROVE  Stands(h, d)'
<1>0. /\ hook[h].rest \in Seq(Parsed) /\ h \in DOMAIN hook
      /\ hook[h] \in [pc : {"idle", "loop", "mail", "ex"}, payload : Payloads \cup {<<>>},
                      rest : Seq(Parsed), at : QueueIds \cup {NoCase}, to : Seq(Addresses)]
  BY DEF CaseInv, HookType
<1>1. \A j : Becomes(h, j) => hook'[h] = j
  BY <1>0 DEF Becomes
<1>2. (Filed(d) => Filed(d)') /\ (Handled(d) => Handled(d)')
  BY HandledStays
<1>3. ASSUME Taken(h), Detects(Alert(h), d) => Stands(h, d)',
             hook'[h].rest = Tail(hook[h].rest)
      PROVE  Stands(h, d)'
  <2>1. hook[h].pc = "loop" /\ hook[h].rest # <<>>
    BY <1>3 DEF Taken, In
  <2>2. Handled(d) \/ \E i \in DOMAIN hook[h].rest : Detects(hook[h].rest[i], d)
    BY <2>1 DEF Stands
  <2>3. CASE Handled(d)
    BY <1>2, <2>3 DEF Stands
  <2>4. CASE \E i \in DOMAIN hook[h].rest : Detects(hook[h].rest[i], d)
    <3>1. \/ Detects(Alert(h), d)
          \/ \E i \in DOMAIN Tail(hook[h].rest) : Detects(Tail(hook[h].rest)[i], d)
      BY <1>0, <2>1, <2>4, AtHandOrLater DEF Alert
    <3> QED
      BY <1>3, <3>1 DEF Stands
  <2> QED
    BY <2>2, <2>3, <2>4
<1>4. CASE FirstDetection(h)
  <2> DEFINE event == Alert(h)
             q == event.queue_id
             to == split_addrs(case'[q].recipient)
  <2>1. Taken(h)
    BY <1>4 DEF FirstDetection
  <2>2. \/ hook'[h] = Mailing(h, q, to)
        \/ case'[q].state # "received" /\ hook'[h] = Passed(h)
    BY <1>1, <1>4, FirstDetectionBecomes
  <2>3. hook'[h].rest = Tail(hook[h].rest)
    BY <1>0, <2>2 DEF Mailing, Passed
  <2>4. ASSUME Detects(event, d)
        PROVE  Stands(h, d)'
    <3>1. q = <<d.email, 0>> /\ d.to \subseteq ToSet(event.recipients)
      BY <2>4 DEF Detects
    <3>2. ToSet(event.recipients) \subseteq ToSet(case'[q].recipient)
      BY <1>4, FirstDetectionWrites
    <3>3. case'[q].state # "absent"
      BY <1>4, FirstDetectionWrites
    <3>4. Filed(d)'
      BY <3>1, <3>2, <3>3 DEF Filed
    <3>5. CASE hook'[h] = Mailing(h, q, to)
      <4>1. hook'[h].pc = "mail" /\ hook'[h].at = q
        BY <1>0, <3>5 DEF Mailing, Passed
      <4> QED
        BY <3>1, <3>4, <4>1 DEF Stands
    <3>6. CASE case'[q].state # "received"
      BY <3>1, <3>4, <3>6 DEF Stands, Handled
    <3> QED
      BY <2>2, <3>5, <3>6
  <2> HIDE DEF event, q, to
  <2> QED
    BY <1>3, <2>1, <2>3, <2>4 DEF event
<1>5. CASE Redetection(h)
  <2>1. Taken(h) /\ IsReanalysis(Alert(h))
    BY <1>5 DEF Redetection
  <2>2. ~Detects(Alert(h), d)
    BY <2>1 DEF Detects, IsReanalysis, Base
  <2>3. \/ hook'[h] = Passed(h)
        \/ \E q, to : hook'[h] = Mailing(h, q, to)
        \/ \E q : hook'[h] = Asking(h, q)
    BY <1>1, <1>5 DEF Redetection
  <2>4. hook'[h].rest = Tail(hook[h].rest)
    BY <1>0, <2>3 DEF Mailing, Passed, Asking
  <2> QED
    BY <1>3, <2>1, <2>2, <2>4
<1>6. CASE Skipped(h)
  <2>1. Taken(h) /\ Ignored(Alert(h)) /\ hook'[h] = Passed(h)
    BY <1>1, <1>6 DEF Skipped, AfterIgnored
  <2>2. ~Detects(Alert(h), d)
    BY <2>1 DEF Detects, Ignored, IsReanalysis, Base
  <2>3. hook'[h].rest = Tail(hook[h].rest)
    BY <1>0, <2>1 DEF Passed
  <2> QED
    BY <1>3, <2>1, <2>2, <2>3
<1>7. CASE ExReplies(h) \/ MailerReplies(h)
  <2>1. hook'[h] = [hook[h] EXCEPT !.pc = "loop"]
    <3>1. Becomes(h, [hook[h] EXCEPT !.pc = "loop"]) \/ Becomes(h, IdleHook)
      BY <1>7 DEF ExReplies, MailerReplies
    <3> QED
      BY <1>1, <3>1, IdleHookType
  <2>2. hook'[h].rest = hook[h].rest
    BY <1>0, <2>1
  <2>3. CASE \E i \in DOMAIN hook[h].rest : Detects(hook[h].rest[i], d)
    BY <2>2, <2>3 DEF Stands
  <2>4. CASE hook[h].pc = "mail" /\ hook[h].at = <<d.email, 0>> /\ Filed(d)
    <3> DEFINE q == <<d.email, 0>>
    <3>1. \E s \in {"awaiting_password", "notify_failed"} :
            SetState(q, s) \/ Write(q, [case[q] EXCEPT !.state = s])
      BY <1>7, <2>4 DEF ExReplies, MailerReplies, In
    <3>2. q \in QueueIds
      BY DEF QueueIds
    <3> HIDE DEF q
    <3>3. case'[q].state \in {"awaiting_password", "notify_failed"}
      BY <3>1, <3>2, StateAfter DEF CaseInv
    <3> QED
      BY <1>2, <2>4, <3>3 DEF Stands, Handled, q
  <2>5. CASE Handled(d)
    BY <1>2, <2>5 DEF Stands
  <2> QED
    BY <2>3, <2>4, <2>5 DEF Stands
<1>8. CASE Acknowledge(h)
  <2>1. hook'[h] = IdleHook
    BY <1>1, <1>8 DEF Acknowledge
  <2> QED
    BY <2>1, IdleHookType
<1> QED
  BY <1>4, <1>5, <1>6, <1>7, <1>8 DEF HookStep

\* The payload a request is about stays the same.
LEMMA SamePayload ==
  ASSUME CaseInv, [Next]_vars, NEW h \in Hooks, HookStep(h), hook'[h].pc # "idle"
  PROVE  hook'[h].payload = hook[h].payload /\ hook[h].pc # "idle"
<1>1. PICK j : HookUpdate(h, j) /\ (j.pc # "idle" => j.payload = hook[h].payload)
  BY HookSteps
<1>2. hook'[h] = j
  BY <1>1 DEF HookUpdate, Becomes, CaseInv, HookType
<1>3. hook[h].pc # "idle"
  BY DEF HookStep, FirstDetection, Redetection, Skipped, Taken, In, ExReplies,
         MailerReplies, Acknowledge
<1> QED
  BY <1>1, <1>2, <1>3

\* A step of one request leaves the others as they are.
LEMMA OtherHooks ==
  ASSUME CaseInv, [Next]_vars, NEW g \in Hooks, hook'[g].pc # "idle",
         ~HookStep(g), \A p \in Payloads : ~Receive(g, p)
  PROVE  hook'[g] = hook[g]
<1>0. DOMAIN hook = Hooks /\ IdleHook.pc = "idle"
  BY IdleHookType DEF CaseInv, HookType
<1>1. ASSUME NEW h \in Hooks, HookStep(h)
      PROVE  hook'[g] = hook[g]
  <2>1. PICK j : hook' = [hook EXCEPT ![h] = j]
    BY <1>1, HookSteps DEF HookUpdate, Becomes
  <2>2. h # g
    BY <1>1
  <2> QED
    BY <1>0, <2>1, <2>2
<1>2. ASSUME NEW h \in Hooks, NEW p \in Payloads, Receive(h, p)
      PROVE  hook'[g] = hook[g]
  <2>1. h # g
    BY <1>2
  <2> QED
    BY <1>0, <1>2, <2>1 DEF Receive, Becomes
<1>3. CASE Crash
  BY <1>0, <1>3 DEF Crash
<1>4. \/ \E h \in Hooks : HookStep(h)
      \/ \E h \in Hooks, p \in Payloads : Receive(h, p)
      \/ Crash
      \/ UNCHANGED hook
  BY DEF Next, FlowGoesOn, Bounces, StrayReport, PollStep, Search, Fetch, FetchFails, HandleBounce,
         PollEnds, Configured, Restart, vars
<1> QED
  BY <1>1, <1>2, <1>3, <1>4

\* No detection of a payload on its way gets lost.
LEMMA NoneSkippedStep ==
  ASSUME CaseInv, NoneSkipped, [Next]_vars
  PROVE  NoneSkipped'
<1> SUFFICES ASSUME NEW g \in Hooks, hook'[g].pc # "idle",
                    NEW d \in Detections[hook'[g].payload]
             PROVE  Stands(g, d)'
  BY DEF NoneSkipped
<1>0. hook'[g].payload \in Payloads
  BY HooksStep DEF HooksHaveCases
<1>1. d.email \in Emails /\ d.to # {}
  BY <1>0, PayloadAssumption
<1>2. (Filed(d) => Filed(d)') /\ (Handled(d) => Handled(d)')
  BY <1>1, HandledStays
<1>3. CASE HookStep(g)
  <2>1. hook'[g].payload = hook[g].payload /\ hook[g].pc # "idle"
    BY <1>3, SamePayload
  <2>2. Stands(g, d)
    BY <2>1 DEF NoneSkipped
  <2> QED
    BY <1>1, <1>3, <2>2, NoneSkippedByStep
<1>4. ASSUME NEW p \in Payloads, Receive(g, p)
      PROVE  Stands(g, d)'
  <2>1. hook'[g].payload = p /\ hook'[g].rest = Events[p]
    BY <1>4 DEF Receive, Becomes, CaseInv, HookType, IdleHook
  <2>2. PICK i \in DOMAIN p : Reports(p[i], d) /\ IsRaw(p[i])
    BY <2>1, PayloadAssumption
  <2>3. Detects(ParseAlert(p[i]), d)
    BY <1>1, <2>2, ParserReads
  <2>4. Events[p][i] = ParseAlert(p[i]) /\ i \in DOMAIN Events[p]
    BY <2>2, ParsedFacts DEF Events
  <2> QED
    BY <2>1, <2>3, <2>4 DEF Stands
<1>5. CASE ~HookStep(g) /\ \A p \in Payloads : ~Receive(g, p)
  <2>1. hook'[g] = hook[g]
    BY <1>5, OtherHooks
  <2>2. Stands(g, d)
    BY <2>1 DEF NoneSkipped
  <2> QED
    BY <1>2, <2>1, <2>2 DEF Stands
<1> QED
  BY <1>3, <1>4, <1>5

\* What is acknowledged was handled, and stays so.
LEMMA AcknowledgedStep ==
  ASSUME CaseInv, NoneSkipped, AcknowledgedMeansHandled, [Next]_vars
  PROVE  AcknowledgedMeansHandled'
<1>0. acked \subseteq Payloads
  BY DEF CaseInv, TypeOK
<1> SUFFICES ASSUME NEW p \in acked', NEW d \in Detections[p]
             PROVE  Handled(d)'
  BY DEF AcknowledgedMeansHandled, Handled, Filed
<1>1. p \in Payloads
  BY ReportsStep
<1>2. d.email \in Emails
  BY <1>1, PayloadAssumption
<1>3. Handled(d) => Handled(d)'
  BY <1>2, HandledStays
<1>4. CASE p \in acked
  BY <1>3, <1>4 DEF AcknowledgedMeansHandled, Handled, Filed
<1>5. ASSUME NEW h \in Hooks, Acknowledge(h), p = hook[h].payload
      PROVE  Handled(d)'
  <2>1. hook[h].pc = "loop" /\ hook[h].rest = <<>>
    BY <1>5 DEF Acknowledge, In
  <2>2. Stands(h, d)
    BY <1>5, <2>1 DEF NoneSkipped
  <2> QED
    BY <1>3, <2>1, <2>2 DEF Stands
<1>6. \/ p \in acked
      \/ \E h \in Hooks : Acknowledge(h) /\ p = hook[h].payload
  BY DEF Next, HookStep, FirstDetection, Redetection, Skipped, ExReplies, MailerReplies,
         Acknowledge, Receive, FlowGoesOn, Bounces, StrayReport, PollStep, Search, Fetch, FetchFails,
         HandleBounce, PollEnds, Configured, Crash, Restart, vars
<1> QED
  BY <1>4, <1>5, <1>6

(***************************************************************************)
(* The theorems.                                                           *)
(***************************************************************************)

LEMMA IntakeInit ==
  ASSUME Init
  PROVE  IntakeInv
<1>1. IdleHook \in [pc : {"idle", "loop", "mail", "ex"}, payload : Payloads \cup {<<>>},
                    rest : Seq(Parsed), at : QueueIds \cup {NoCase}, to : Seq(Addresses)]
      /\ IdleHook.pc = "idle"
  BY IdleHookType DEF IdleFits
<1>2. HookType /\ \A h \in Hooks : hook[h].pc = "idle"
  BY <1>1 DEF Init, HookType
<1>3. PollType /\ poll.pc = "idle" /\ poll.found = {} /\ poll.got = <<>>
  BY DEF Init, PollType, IdlePoll
<1>4. RowsOK
  <2> DEFINE row == [state |-> "absent", recipient |-> <<>>]
  <2>1. row \in Row
    BY DEF Row, Lists, IsInjective
  <2>2. case = [q \in QueueIds |-> row]
    BY DEF Init
  <2>3. row.state = "absent" /\ row.recipient = <<>>
    OBVIOUS
  <2> HIDE DEF row
  <2>4. case \in [QueueIds -> Row] /\ \A q \in QueueIds : case[q] = row
    BY <2>1, <2>2
  <2>5. recent = <<>> /\ recent \in Seq(QueueIds) /\ IsInjective(recent) /\ ToSet(recent) = {}
    BY DEF Init, IsInjective, ToSet
  <2>6. {q \in QueueIds : case[q].state # "absent"} = {}
    BY <2>3, <2>4
  <2> QED
    BY <2>3, <2>4, <2>5, <2>6 DEF RowsOK
<1>5. \A q \in QueueIds : case[q].state = "absent"
  BY DEF Init
<1>6. TypeOK
  BY <1>2, <1>3, <1>4 DEF TypeOK, RowsOK, Init
<1>7. HooksHaveCases /\ NoneSkipped
  BY <1>2 DEF HooksHaveCases, NoneSkipped
<1>8. ReportsHaveCases
  BY <1>3 DEF Init, ReportsHaveCases, ToSet
<1>9. ReanalysisCreatesNoCase /\ AcknowledgedMeansHandled
  BY <1>5 DEF Init, ReanalysisCreatesNoCase, AcknowledgedMeansHandled
<1> QED
  BY <1>2, <1>3, <1>6, <1>7, <1>8, <1>9 DEF IntakeInv, CaseInv

LEMMA IntakeStep ==
  ASSUME IntakeInv, [Next]_vars
  PROVE  IntakeInv'
<1>1. CaseInv /\ NoneSkipped /\ AcknowledgedMeansHandled
  BY DEF IntakeInv
<1> QED
  BY <1>1, CaseInvStep, NoneSkippedStep, AcknowledgedStep DEF IntakeInv

THEOREM IntakeInvariant == Spec => []IntakeInv
<1>1. Init => IntakeInv
  BY IntakeInit
<1>2. IntakeInv /\ [Next]_vars => IntakeInv'
  BY IntakeStep
<1> QED
  BY <1>1, <1>2, PTL DEF Spec

\* For any payloads, requests and addresses, and however the pushes, the polls
\* and the crashes interleave: a case has its recipients, each once, and the
\* order of the rows is that of the cases there are.
THEOREM IntakeTypeCorrect == Spec => []TypeOK
<1>1. IntakeInv => TypeOK
  BY DEF IntakeInv, CaseInv
<1> QED
  BY <1>1, IntakeInvariant, PTL

\* A 200 is given only for a payload whose first detections, in either wire
\* format, have each their case, with all recipients and past RECEIVED.
THEOREM AcknowledgedIsHandled == Spec => []AcknowledgedMeansHandled
<1>1. IntakeInv => AcknowledgedMeansHandled
  BY DEF IntakeInv
<1> QED
  BY <1>1, IntakeInvariant, PTL

\* No "_RA" alert ever files a case of its own.
THEOREM ReanalysisFilesNothing == Spec => []ReanalysisCreatesNoCase
<1>1. IntakeInv => ReanalysisCreatesNoCase
  BY DEF IntakeInv, CaseInv
<1> QED
  BY <1>1, IntakeInvariant, PTL

\* Whatever else goes on, a report ends the case it names; one that names no case
\* of this database ends the open case of its recipient that was updated last,
\* whichever rows were touched between its arrival and its turn; neither ends a
\* settled case, and no other step ends a case as bounced.
THEOREM ReportsEndTheirCase == Spec => ReportEndsOwnCase
<1>1. ASSUME CaseInv, [Next]_vars, NEW r \in QueueIds,
             case[r].state # "bounced", case'[r].state = "bounced"
      PROVE  IsAbout(Head(poll.got), r)
  <2>1. ~NoWrite
    BY <1>1 DEF NoWrite
  <2>2. PICK q, row : Writes(q, row)
    BY <1>1, <2>1, EveryWrite DEF Written
  <2>3. q \in QueueIds /\ case \in [QueueIds -> Row] /\ case' = [case EXCEPT ![q] = row]
    BY <1>1, <2>2 DEF Writes, RowWrite, Write, CaseInv, TypeOK
  <2>4. r = q /\ row.state = "bounced"
    BY <1>1, <2>3
  <2> QED
    BY <1>1, <2>2, <2>4 DEF Writes
<1>2. IntakeInv /\ [Next]_vars =>
        [\A q \in QueueIds :
           case[q].state # "bounced" /\ case'[q].state = "bounced"
             => IsAbout(Head(poll.got), q)]_vars
  BY <1>1 DEF IntakeInv
<1> QED
  BY <1>2, IntakeInvariant, PTL DEF Spec, ReportEndsOwnCase

\* A case only goes on: it is never unmade, never RECEIVED again once its mail
\* was tried, and keeps every recipient that an alert has brought it.
THEOREM CasesGoOn == Spec => [][\A q \in QueueIds : Later(case[q], case'[q])]_vars
<1>1. IntakeInv /\ [Next]_vars => [\A q \in QueueIds : Later(case[q], case'[q])]_vars
  <2> SUFFICES ASSUME IntakeInv, [Next]_vars
               PROVE  \A q \in QueueIds : Later(case[q], case'[q])
    OBVIOUS
  <2> QED
    BY EveryWrite, RowsStep DEF IntakeInv
<1> QED
  BY <1>1, IntakeInvariant, PTL DEF Spec
===============================================================================
