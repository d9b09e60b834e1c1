------------------------------ MODULE Induction ------------------------------
(***************************************************************************)
(* Induction over the numbers, and what it says of functions defined by    *)
(* recursion: that there are such functions, and what holds all along      *)
(* them.  It comes from the least element of a set of numbers, which a set *)
(* well founded has.                                                       *)
(***************************************************************************)
EXTENDS Naturals, SequencesExt, WellFoundedInduction, TLAPS

Less == {p \in Nat \X Nat : p[1] < p[2]}

\* A set of numbers has a least one.
LEMMA Least ==
    ASSUME NEW S, S \subseteq Nat, S # {}
    PROVE  \E m \in S : \A k \in S : m <= k
<1>1. IsWellFoundedOn(Less, Nat)
  BY NatLessThanWellFounded DEF OpToRel, Less
<1>2. PICK m \in S : \A k \in S : ~(<<k, m>> \in Less)
  BY <1>1, WFMin
<1>3. ASSUME NEW k \in S
      PROVE  m <= k
  <2>1. k \in Nat /\ m \in Nat
    OBVIOUS
  <2>2. (k < m) => <<k, m>> \in Less
    BY <2>1 DEF Less
  <2> QED BY <1>2, <2>1, <2>2
<1> QED BY <1>3

LEMMA Induct ==
    ASSUME NEW S, S \subseteq Nat, 0 \in S, \A n \in S : n + 1 \in S
    PROVE  S = Nat
<1> DEFINE T == Nat \ S
<1>1. T \subseteq Nat
  OBVIOUS
<1>2. SUFFICES ASSUME T # {}
               PROVE  FALSE
  OBVIOUS
<1> HIDE DEF T
<1>3. PICK m \in T : \A k \in T : m <= k
  BY <1>1, <1>2, Least
<1>4. m \in Nat /\ m \notin S
  BY <1>3 DEF T
<1>5. m # 0
  BY <1>4
<1>6. m - 1 \in Nat /\ m - 1 \notin T
  BY <1>3, <1>4, <1>5, <1>1
<1>7. m - 1 \in S
  BY <1>6 DEF T
<1>8. (m - 1) + 1 \in S
  BY <1>7
<1> QED BY <1>4, <1>8

\* A function made step by step from where to begin.
Iterates(f, n, base, Step) ==
    f = [i \in 0..n |-> IF i = 0 THEN base ELSE Step[i][f[i - 1]]]

LEMMA IterateExists ==
    ASSUME NEW T, NEW base \in T, NEW n \in Nat, NEW Step \in [1..n -> [T -> T]]
    PROVE  \E f \in [0..n -> T] : Iterates(f, n, base, Step)
<1> DEFINE S == {m \in Nat : m <= n => \E f \in [0..m -> T] : Iterates(f, m, base, Step)}
<1>1. 0 \in S
  <2> DEFINE f == [i \in 0..0 |-> base]
  <2>1. f \in [0..0 -> T] /\ Iterates(f, 0, base, Step)
    BY DEF Iterates
  <2> QED BY <2>1
<1>2. ASSUME NEW m \in S
      PROVE  m + 1 \in S
  <2>0. SUFFICES ASSUME m + 1 <= n
                 PROVE  \E f \in [0..(m + 1) -> T] : Iterates(f, m + 1, base, Step)
    OBVIOUS
  <2>1. PICK f \in [0..m -> T] : Iterates(f, m, base, Step)
    BY <2>0
  <2> DEFINE g == [i \in 0..(m + 1) |-> IF i = m + 1 THEN Step[m + 1][f[m]] ELSE f[i]]
  <2>2. f[m] \in T /\ m + 1 \in 1..n
    BY <2>0
  <2>3. g \in [0..(m + 1) -> T]
    <3>1. Step[m + 1][f[m]] \in T
      BY <2>2
    <3> QED BY <3>1
  <2>4. \A i \in 0..(m + 1) : g[i] = IF i = 0 THEN base ELSE Step[i][g[i - 1]]
    <3> TAKE i \in 0..(m + 1)
    <3>1. CASE i = m + 1
      BY <3>1
    <3>2. CASE i \in 0..m
      <4>1. f[i] = IF i = 0 THEN base ELSE Step[i][f[i - 1]]
        BY <2>1, <3>2 DEF Iterates
      <4>2. g[i] = f[i] /\ (i # 0 => g[i - 1] = f[i - 1])
        BY <3>2
      <4> QED BY <4>1, <4>2
    <3> QED BY <3>1, <3>2
  <2>5. Iterates(g, m + 1, base, Step)
    BY <2>4 DEF Iterates
  <2> QED BY <2>3, <2>5
<1> HIDE DEF S
<1>3. S \subseteq Nat
  BY DEF S
<1>4. S = Nat
  BY <1>1, <1>2, <1>3, Induct
<1> QED BY <1>4 DEF S

\* What holds at 0 and is kept up to n.
LEMMA Along ==
    ASSUME NEW n \in Nat, NEW P, 0 \in P, \A i \in Nat : i < n /\ i \in P => i + 1 \in P
    PROVE  \A i \in 0..n : i \in P
<1> DEFINE S == {m \in Nat : m <= n => m \in P}
<1>1. S \subseteq Nat /\ 0 \in S /\ \A m \in S : m + 1 \in S
  OBVIOUS
<1> HIDE DEF S
<1>2. S = Nat
  BY <1>1, Induct
<1> QED BY <1>2 DEF S

\* A concatenation, part by part.
Concatenates(g, ss, n) == g[0] = << >> /\ \A i \in 1..n : g[i] = g[i - 1] \o ss[i]

LEMMA FlattenIs ==
    ASSUME NEW S, NEW ss \in Seq(Seq(S)), NEW n, n = Len(ss)
    PROVE  \E g \in [0..n -> Seq(S)] : Concatenates(g, ss, n) /\ FlattenSeq(ss) = g[n]
<1> DEFINE T == Seq(S)
           Next0(F) == [i \in 1..n |-> IF i = 1 THEN ss[i] ELSE F[i - 1] \o ss[i]]
           F1 == CHOOSE F : F = Next0(F)
           Steps == [i \in 1..n |-> [g \in T |-> g \o ss[i]]]
<1>1. n \in Nat /\ (\A i \in 1..n : ss[i] \in T) /\ << >> \in T
  OBVIOUS
<1>2. Steps \in [1..n -> [T -> T]]
  BY <1>1
<1>3. PICK g \in [0..n -> T] : Iterates(g, n, << >>, Steps)
  <2> HIDE DEF Steps, T
  <2> QED BY <1>1, <1>2, IterateExists
<1>4. ASSUME NEW i \in 1..n
      PROVE  g[i] = g[i - 1] \o ss[i] /\ g[i - 1] \in T
  <2>1. i \in 0..n /\ i # 0 /\ i - 1 \in 0..n
    BY <1>1
  <2>2. g[i] = Steps[i][g[i - 1]] /\ g[i - 1] \in T
    <3> HIDE DEF Steps
    <3> QED BY <1>3, <2>1 DEF Iterates
  <2> QED BY <2>2
<1>5. g[0] = << >>
  <2>1. 0 \in 0..n
    BY <1>1
  <2> HIDE DEF Steps
  <2> QED BY <1>3, <2>1 DEF Iterates
<1>6. CASE n = 0
  <2>1. ss = << >>
    <3>1. PICK T2 : T2 = Seq(S)
      OBVIOUS
    <3>2. ss \in Seq(T2) /\ Len(ss) = 0
      BY <1>6, <3>1
    <3> QED BY <3>2
  <2>2. FlattenSeq(ss) = ss
    BY <1>6 DEF FlattenSeq
  <2> QED BY <1>3, <1>4, <1>5, <1>6, <2>1, <2>2 DEF Concatenates
<1>7. CASE n # 0
  <2> DEFINE f == [i \in 1..n |-> g[i]]
  <2>1. f = Next0(f)
    <3>1. ASSUME NEW i \in 1..n
          PROVE  g[i] = IF i = 1 THEN ss[i] ELSE f[i - 1] \o ss[i]
      <4>1. CASE i = 1
        <5>1. i - 1 = 0 /\ ss[i] \in T
          BY <1>1, <4>1
        <5>2. g[i] = << >> \o ss[i]
          BY <1>4, <1>5, <5>1
        <5>3. \A s \in Seq(S) : << >> \o s = s
          OBVIOUS
        <5> QED BY <4>1, <5>1, <5>2, <5>3
      <4>2. CASE i # 1
        <5>1. i - 1 \in 1..n
          BY <1>1, <4>2
        <5>2. f[i - 1] = g[i - 1]
          BY <5>1
        <5> QED BY <1>4, <4>2, <5>2
      <4> QED BY <4>1, <4>2
    <3> QED BY <3>1
  <2>2. F1 = Next0(F1)
    <3> HIDE DEF f
    <3> QED BY <2>1
  <2>3. FlattenSeq(ss) = F1[n]
    BY <1>7 DEF FlattenSeq
  <2> HIDE DEF F1, T
  <2> DEFINE P == {i \in 0..n : i = 0 \/ F1[i] = g[i]}
  <2>4. 0 \in P
    BY <1>1
  <2>5. ASSUME NEW i \in Nat, i < n, i \in P
        PROVE  i + 1 \in P
    <3>1. i + 1 \in 1..n /\ i + 1 \in 0..n /\ (i + 1) - 1 = i
      BY <1>1, <2>5
    <3>2. F1[i + 1] = IF i + 1 = 1 THEN ss[i + 1] ELSE F1[i] \o ss[i + 1]
      BY <2>2, <3>1
    <3>3. g[i + 1] = g[i] \o ss[i + 1]
      BY <1>4, <3>1
    <3>4. CASE i = 0
      <4>1. i + 1 = 1 /\ ss[i + 1] \in Seq(S)
        BY <1>1, <3>1, <3>4 DEF T
      <4>2. << >> \o ss[i + 1] = ss[i + 1]
        BY <4>1
      <4> QED BY <1>5, <3>1, <3>2, <3>3, <3>4, <4>1, <4>2
    <3>5. CASE i # 0
      <4>1. F1[i] = g[i] /\ i + 1 # 1
        BY <2>5, <3>5
      <4> QED BY <3>1, <3>2, <3>3, <4>1
    <3> QED BY <3>4, <3>5
  <2>6. n \in P
    <3>1. n \in 0..n
      BY <1>1
    <3> HIDE DEF P
    <3>2. \A i \in 0..n : i \in P
      BY <1>1, <2>4, <2>5, Along
    <3> QED BY <3>1, <3>2
  <2>7. FlattenSeq(ss) = g[n]
    BY <1>1, <1>7, <2>3, <2>6
  <2> QED BY <1>3, <1>4, <1>5, <2>7 DEF T, Concatenates
<1> QED BY <1>6, <1>7

\* What comes first in a concatenation and what comes last are both in it.
LEMMA ConcatHas ==
    ASSUME NEW S, NEW s \in Seq(S), NEW t \in Seq(S)
    PROVE  s \o t \in Seq(S) /\ Range(s \o t) = Range(s) \cup Range(t)
<1>1. PICK u : u = s \o t
  OBVIOUS
<1>2. PICK n, m : n = Len(s) /\ m = Len(t)
  OBVIOUS
<1>3. /\ n \in Nat /\ m \in Nat /\ DOMAIN s = 1..n /\ DOMAIN t = 1..m
      /\ u \in Seq(S) /\ DOMAIN u = 1..(n + m)
  BY <1>1, <1>2
<1>4. \A i \in 1..(n + m) : u[i] = IF i <= n THEN s[i] ELSE t[i - n]
  BY <1>1, <1>2
<1>5. \A i \in 1..n : i \in 1..(n + m) /\ u[i] = s[i]
  BY <1>3, <1>4
<1>6. \A i \in 1..m : n + i \in 1..(n + m) /\ u[n + i] = t[i]
  <2> TAKE i \in 1..m
  <2>1. n + i \in 1..(n + m) /\ ~(n + i <= n) /\ (n + i) - n = i
    BY <1>3
  <2> QED BY <1>4, <2>1
<1>7. \A i \in 1..(n + m) : i \in 1..n \/ i - n \in 1..m
  BY <1>3
<1>8. Range(s) \subseteq Range(u) /\ Range(t) \subseteq Range(u)
  BY <1>3, <1>5, <1>6 DEF Range
<1>9. Range(u) \subseteq Range(s) \cup Range(t)
  <2> SUFFICES ASSUME NEW i \in 1..(n + m) PROVE u[i] \in Range(s) \cup Range(t)
    BY <1>3 DEF Range
  <2>1. CASE i <= n
    <3>1. i \in 1..n
      BY <1>3, <2>1
    <3> QED BY <1>3, <1>5, <3>1 DEF Range
  <2>2. CASE ~(i <= n)
    <3>1. i - n \in 1..m
      BY <1>3, <2>2
    <3> QED BY <1>3, <1>4, <2>2, <3>1 DEF Range
  <2> QED BY <2>1, <2>2
<1> QED BY <1>1, <1>3, <1>8, <1>9

\* A concatenation has what its parts have, and nothing else.
LEMMA FlattenType ==
    ASSUME NEW S, NEW ss \in Seq(Seq(S))
    PROVE  FlattenSeq(ss) \in Seq(S)
<1>1. PICK n : n = Len(ss)
  OBVIOUS
<1>2. n \in 0..n
  BY <1>1
<1>3. PICK g \in [0..n -> Seq(S)] : Concatenates(g, ss, n) /\ FlattenSeq(ss) = g[n]
  BY <1>1, FlattenIs
<1> QED BY <1>2, <1>3

LEMMA FlattenHas ==
    ASSUME NEW S, NEW ss \in Seq(Seq(S)), NEW k \in DOMAIN ss, NEW x \in Range(ss[k])
    PROVE  x \in Range(FlattenSeq(ss))
<1>1. PICK n : n = Len(ss)
  OBVIOUS
<1>2. n \in Nat /\ k \in 1..n /\ \A i \in 1..n : ss[i] \in Seq(S)
  BY <1>1
<1>3. PICK g \in [0..n -> Seq(S)] : Concatenates(g, ss, n) /\ FlattenSeq(ss) = g[n]
  BY <1>1, FlattenIs
<1>4. \A i \in 1..n : g[i - 1] \in Seq(S) /\ Range(g[i]) = Range(g[i - 1]) \cup Range(ss[i])
  <2> TAKE i \in 1..n
  <2>1. i - 1 \in 0..n
    BY <1>2
  <2>2. g[i - 1] \in Seq(S) /\ ss[i] \in Seq(S)
    BY <1>2, <2>1
  <2>3. Range(g[i - 1] \o ss[i]) = Range(g[i - 1]) \cup Range(ss[i])
    BY <2>2, ConcatHas
  <2> QED BY <1>3, <2>2, <2>3 DEF Concatenates
<1> DEFINE P == {i \in Nat : k <= i /\ i <= n => x \in Range(g[i])}
<1>5. 0 \in P
  BY <1>2
<1>6. ASSUME NEW i \in Nat, i < n, i \in P
      PROVE  i + 1 \in P
  <2> SUFFICES ASSUME k <= i + 1 PROVE x \in Range(g[i + 1])
    OBVIOUS
  <2>1. i + 1 \in 1..n /\ (i + 1) - 1 = i
    BY <1>2, <1>6
  <2>2. Range(g[i + 1]) = Range(g[i]) \cup Range(ss[i + 1])
    BY <1>4, <2>1
  <2>3. CASE k = i + 1
    BY <2>2, <2>3
  <2>4. CASE k # i + 1
    <3>1. k <= i
      BY <1>2, <2>4
    <3>2. x \in Range(g[i])
      BY <1>2, <1>6, <3>1
    <3> QED BY <2>2, <3>2
  <2> QED BY <2>3, <2>4
<1>7. n \in P
  <2>1. n \in 0..n
    BY <1>2
  <2> HIDE DEF P
  <2>2. \A i \in 0..n : i \in P
    BY <1>2, <1>5, <1>6, Along
  <2> QED BY <2>1, <2>2
<1> QED BY <1>2, <1>3, <1>7
=============================================================================
