----------------------------- MODULE CommonLemmas -----------------------------
(***************************************************************************)
(* What several proofs rest on: induction over the natural numbers, stated *)
(* over sets, so that the provers can use it; the existence of functions   *)
(* that are defined by recursion; the pieces of sequences, and sequences   *)
(* that are put together.                                                  *)
(***************************************************************************)
EXTENDS Integers, SequencesExt, SequenceTheorems, WellFoundedInduction, TLAPS

Below == {p \in Nat \X Nat : p[1] < p[2]}

LEMMA BelowWellFounded == IsWellFoundedOn(Below, Nat)
<1>1. OpToRel(<, Nat) = Below
  BY DEF OpToRel, Below
<1> QED
  BY <1>1, NatLessThanWellFounded

\* Every set of natural numbers that is not empty has a least element.
LEMMA NatMin ==
  ASSUME NEW T, T \subseteq Nat, T # {}
  PROVE  \E x \in T : \A y \in T : x <= y
<1>1. PICK x \in T : \A y \in T : <<y, x>> \notin Below
  BY BelowWellFounded, WFMin
<1>2. ASSUME NEW y \in T PROVE x <= y
  <2>1. x \in Nat /\ y \in Nat /\ ~(<<y, x>> \in Nat \X Nat /\ y < x)
    BY <1>1 DEF Below
  <2> QED
    BY <2>1
<1> QED
  BY <1>2

LEMMA NatInd ==
  ASSUME NEW T, 0 \in T, \A n \in Nat : n \in T => n + 1 \in T
  PROVE  Nat \subseteq T
<1> DEFINE U == {n \in Nat : n \notin T}
<1> SUFFICES ASSUME U # {} PROVE FALSE
  OBVIOUS
<1>1. U \subseteq Nat
  OBVIOUS
<1> HIDE DEF U
<1>2. PICK x \in U : \A y \in U : x <= y
  BY <1>1, NatMin
<1>3. x \in Nat /\ x \notin T
  BY <1>2 DEF U
<1>4. x - 1 \in Nat
  BY <1>3
<1>5. x - 1 \notin U
  BY <1>2, <1>3, <1>4
<1>6. x - 1 \in T
  BY <1>4, <1>5 DEF U
<1> QED
  BY <1>3, <1>4, <1>6

StepsIn(F, N, S) == \A n \in 1 .. N, x \in S : F[n][x] \in S
Iterates(f, F, N, base) == f[0] = base /\ \A n \in 1 .. N : f[n] = F[n][f[n - 1]]

\* A recursive definition over 0 .. N, by a step function, has a solution.
LEMMA RecursionExists ==
  ASSUME NEW S, NEW N \in Nat, NEW base \in S, NEW F, StepsIn(F, N, S)
  PROVE  \E f \in [0 .. N -> S] : Iterates(f, F, N, base)
<1>0. \A n \in 1 .. N, x \in S : F[n][x] \in S
  BY DEF StepsIn
<1> DEFINE Solves(f, m) == f[0] = base /\ \A n \in 1 .. m : f[n] = F[n][f[n - 1]]
           T == {m \in Nat : m <= N => \E f \in [0 .. m -> S] : Solves(f, m)}
<1>1. 0 \in T
  <2>1. [i \in 0 .. 0 |-> base] \in [0 .. 0 -> S] /\ Solves([i \in 0 .. 0 |-> base], 0)
    OBVIOUS
  <2> QED
    BY <2>1
<1>2. ASSUME NEW m \in Nat, m \in T PROVE m + 1 \in T
  <2> SUFFICES ASSUME m + 1 <= N PROVE \E f \in [0 .. m + 1 -> S] : Solves(f, m + 1)
    OBVIOUS
  <2>1. PICK f \in [0 .. m -> S] : Solves(f, m)
    BY <1>2
  <2> DEFINE g == [i \in 0 .. m + 1 |-> IF i = m + 1 THEN F[m + 1][f[m]] ELSE f[i]]
  <2>2. f[m] \in S /\ F[m + 1][f[m]] \in S
    BY <1>0
  <2>3. g \in [0 .. m + 1 -> S]
    BY <2>2
  <2>4. Solves(g, m + 1)
    <3>1. g[0] = base
      BY <2>1
    <3>2. ASSUME NEW n \in 1 .. m + 1 PROVE g[n] = F[n][g[n - 1]]
      <4>1. CASE n = m + 1
        BY <4>1
      <4>2. CASE n \in 1 .. m
        BY <2>1, <4>2
      <4> QED
        BY <4>1, <4>2
    <3> QED
      BY <3>1, <3>2
  <2> QED
    BY <2>3, <2>4
<1> HIDE DEF T
<1>3. N \in T
  BY <1>1, <1>2, NatInd
<1> QED
  BY <1>3 DEF T, Iterates

(***************************************************************************)
(* Pieces of sequences.                                                    *)
(***************************************************************************)

LEMMA SeqFacts ==
  ASSUME NEW S, NEW s \in Seq(S)
  PROVE  Len(s) \in Nat /\ DOMAIN s = 1 .. Len(s) /\ \A i \in 1 .. Len(s) : s[i] \in S
BY LenProperties, ElementOfSeq

LEMMA CutFacts ==
  ASSUME NEW S, NEW s \in Seq(S), NEW m \in Nat, NEW n \in Nat, 1 <= m, m <= n + 1, n <= Len(s)
  PROVE  /\ SubSeq(s, m, n) \in Seq(S) /\ Len(SubSeq(s, m, n)) = n + 1 - m
         /\ DOMAIN SubSeq(s, m, n) = 1 .. n + 1 - m
         /\ \A i \in 1 .. n + 1 - m : SubSeq(s, m, n)[i] = s[m + i - 1]
<1>1. Len(s) \in Nat /\ \A i \in m .. n : s[i] \in S
  BY SeqFacts
<1> DEFINE t == SubSeq(s, m, n)
<1>2. /\ t \in Seq(S)
      /\ Len(t) = IF m <= n THEN n - m + 1 ELSE 0
      /\ \A i \in 1 .. n - m + 1 : t[i] = s[m + i - 1]
  BY <1>1, SubSeqProperties
<1>3. DOMAIN t = 1 .. Len(t)
  BY <1>2, LenProperties
<1> HIDE DEF t
<1>4. n - m + 1 = n + 1 - m /\ (IF m <= n THEN n - m + 1 ELSE 0) = n + 1 - m
  OBVIOUS
<1>5. Len(t) = n + 1 - m
  BY <1>2, <1>4
<1>6. DOMAIN t = 1 .. n + 1 - m
  BY <1>3, <1>5
<1>7. \A i \in 1 .. n + 1 - m : t[i] = s[m + i - 1]
  BY <1>2, <1>4
<1> QED
  BY <1>2, <1>5, <1>6, <1>7 DEF t

LEMMA FunctionIsSeq ==
  ASSUME NEW S, NEW n \in Nat, NEW f \in [1 .. n -> S]
  PROVE  f \in Seq(S) /\ Len(f) = n
<1>1. DOMAIN f = 1 .. n
  OBVIOUS
<1>2. f \in Seq(S)
  OBVIOUS
<1>3. Len(f) = n
  OBVIOUS
<1> QED
  BY <1>2, <1>3

\* Two sequences with the same elements are the same.
LEMMA SameSeq ==
  ASSUME NEW S, NEW s \in Seq(S), NEW t \in Seq(S), Len(s) = Len(t), \A i \in 1 .. Len(s) : s[i] = t[i]
  PROVE  s = t
BY SeqEqual

\* A sequence that is found at the end of another one is a suffix of it.
LEMMA SuffixAt ==
  ASSUME NEW S, NEW a \in Seq(S), NEW b \in Seq(S), Len(a) <= Len(b),
         \A i \in 1 .. Len(a) : a[i] = b[Len(b) - Len(a) + i]
  PROVE  IsSuffix(a, b)
<1> DEFINE ra == Reverse(a)
           rb == Reverse(b)
           m == Len(a)
           n == Len(b)
<1>1. /\ m \in Nat /\ n \in Nat
      /\ \A i \in 1 .. m : a[i] \in S
      /\ \A i \in 1 .. n : b[i] \in S
  BY SeqFacts
<1>2. /\ \A i \in 1 .. m : (m - i) + 1 \in 1 .. m
      /\ \A i \in 1 .. n : (n - i) + 1 \in 1 .. n
  BY <1>1
<1>3. ra \in [1 .. m -> S] /\ rb \in [1 .. n -> S]
  BY <1>1, <1>2 DEF Reverse
<1>4. ra \in Seq(S) /\ rb \in Seq(S) /\ Len(ra) = m /\ Len(rb) = n
  BY <1>1, <1>3, FunctionIsSeq
<1>5. /\ \A i \in 1 .. m : ra[i] = a[(m - i) + 1]
      /\ \A i \in 1 .. n : rb[i] = b[(n - i) + 1]
  BY DEF Reverse
<1>6. SubSeq(ra, 1, m) = ra
  BY <1>4, SubSeqFull
<1> HIDE DEF ra, rb
<1>7. /\ SubSeq(rb, 1, m) \in Seq(S) /\ Len(SubSeq(rb, 1, m)) = m + 1 - 1
      /\ \A i \in 1 .. m + 1 - 1 : SubSeq(rb, 1, m)[i] = rb[1 + i - 1]
  <2>1. 1 <= m + 1 /\ m <= Len(rb)
    BY <1>1, <1>4
  <2> HIDE DEF m
  <2> QED
    BY <1>1, <1>4, <2>1, CutFacts
<1>8. \A i \in 1 .. m : SubSeq(rb, 1, m)[i] = ra[i]
  <2> SUFFICES ASSUME NEW i \in 1 .. m PROVE SubSeq(rb, 1, m)[i] = ra[i]
    OBVIOUS
  <2>1. SubSeq(rb, 1, m)[i] = rb[1 + i - 1]
    BY <1>1, <1>7
  <2>2. 1 + i - 1 = i /\ i \in 1 .. n
    BY <1>1
  <2>3. rb[i] = b[(n - i) + 1] /\ ra[i] = a[(m - i) + 1]
    BY <1>5, <2>2
  <2>4. (m - i) + 1 \in 1 .. m /\ n - m + ((m - i) + 1) = (n - i) + 1
    BY <1>1
  <2>5. a[(m - i) + 1] = b[n - m + ((m - i) + 1)]
    BY <2>4
  <2> QED
    BY <2>1, <2>2, <2>3, <2>4, <2>5
<1>9. SubSeq(rb, 1, m) = ra
  <2>1. Len(SubSeq(rb, 1, m)) = m
    BY <1>1, <1>7
  <2> HIDE DEF m
  <2> QED
    BY <1>4, <1>7, <1>8, <2>1, SameSeq
<1> QED
  BY <1>4, <1>6, <1>9 DEF IsSuffix, IsPrefix, ra, rb

LEMMA CatFacts ==
  ASSUME NEW S, NEW a \in Seq(S), NEW b \in Seq(S)
  PROVE  /\ a \o b \in Seq(S) /\ Len(a \o b) = Len(a) + Len(b)
         /\ \A i \in 1 .. Len(a) : (a \o b)[i] = a[i]
         /\ \A i \in 1 .. Len(b) : (a \o b)[Len(a) + i] = b[i]
<1>1. Len(a) \in Nat /\ Len(b) \in Nat
  BY SeqFacts
<1>2. /\ a \o b \in Seq(S) /\ Len(a \o b) = Len(a) + Len(b)
      /\ \A i \in 1 .. Len(a) + Len(b) : (a \o b)[i] = IF i <= Len(a) THEN a[i] ELSE b[i - Len(a)]
  BY ConcatProperties
<1>3. ASSUME NEW i \in 1 .. Len(b) PROVE (a \o b)[Len(a) + i] = b[i]
  <2>1. Len(a) + i \in 1 .. Len(a) + Len(b) /\ ~(Len(a) + i <= Len(a)) /\ (Len(a) + i) - Len(a) = i
    BY <1>1
  <2> QED
    BY <1>2, <2>1
<1>4. \A i \in 1 .. Len(a) : (a \o b)[i] = a[i]
  BY <1>1, <1>2
<1> QED
  BY <1>2, <1>3, <1>4

\* What is left of s without its first n elements.
Drop(s, n) == SubSeq(s, n + 1, Len(s))

LEMMA DropFacts ==
  ASSUME NEW S, NEW s \in Seq(S), NEW n \in 0 .. Len(s)
  PROVE  /\ Drop(s, n) \in Seq(S) /\ Len(Drop(s, n)) = Len(s) - n
         /\ \A i \in 1 .. Len(s) - n : Drop(s, n)[i] = s[n + i]
<1>1. Len(s) \in Nat
  BY SeqFacts
<1> DEFINE N == Len(s)
           m == n + 1
<1>2. m \in Nat /\ N \in Nat /\ 1 <= m /\ m <= N + 1 /\ N <= Len(s) /\ N + 1 - m = N - n
  BY <1>1
<1>3. \A i \in Int : m + i - 1 = n + i
  OBVIOUS
<1>4. Drop(s, n) = SubSeq(s, m, N)
  BY DEF Drop
<1> HIDE DEF N, m
<1>5. /\ SubSeq(s, m, N) \in Seq(S) /\ Len(SubSeq(s, m, N)) = N + 1 - m
      /\ \A i \in 1 .. N + 1 - m : SubSeq(s, m, N)[i] = s[m + i - 1]
  BY <1>2, CutFacts
<1>6. \A i \in 1 .. N - n : SubSeq(s, m, N)[i] = s[n + i]
  BY <1>2, <1>3, <1>5
<1> QED
  BY <1>2, <1>4, <1>5, <1>6 DEF N

LEMMA DropOfCat ==
  ASSUME NEW S, NEW a \in Seq(S), NEW b \in Seq(S), NEW n \in 0 .. Len(a)
  PROVE  Drop(a \o b, n) = Drop(a, n) \o b
<1> DEFINE c == a \o b
           l == Drop(a, n)
           x == Drop(c, n)
<1>1. Len(a) \in Nat /\ Len(b) \in Nat
  BY SeqFacts
<1>2. /\ c \in Seq(S) /\ Len(c) = Len(a) + Len(b)
      /\ \A i \in 1 .. Len(a) : c[i] = a[i]
      /\ \A i \in 1 .. Len(b) : c[Len(a) + i] = b[i]
  BY CatFacts
<1>3. /\ l \in Seq(S) /\ Len(l) = Len(a) - n
      /\ \A i \in 1 .. Len(a) - n : l[i] = a[n + i]
  BY DropFacts
<1> HIDE DEF c
<1>4. n \in 0 .. Len(c)
  BY <1>1, <1>2
<1>5. /\ x \in Seq(S) /\ Len(x) = Len(c) - n
      /\ \A i \in 1 .. Len(c) - n : x[i] = c[n + i]
  BY <1>2, <1>4, DropFacts
<1> HIDE DEF l, x
<1>6. /\ l \o b \in Seq(S) /\ Len(l \o b) = Len(l) + Len(b)
      /\ \A i \in 1 .. Len(l) : (l \o b)[i] = l[i]
      /\ \A i \in 1 .. Len(b) : (l \o b)[Len(l) + i] = b[i]
  <2>1. l \in Seq(S)
    BY <1>3
  <2> QED
    BY <2>1, CatFacts
<1>7. Len(x) = Len(l \o b)
  BY <1>1, <1>2, <1>3, <1>5, <1>6
<1>8. ASSUME NEW i \in 1 .. Len(x) PROVE x[i] = (l \o b)[i]
  <2>0. i \in Int /\ i \in 1 .. Len(c) - n
    BY <1>5, <1>1, <1>2
  <2>1. CASE i <= Len(l)
    <3>1. i \in 1 .. Len(l) /\ i \in 1 .. Len(a) - n /\ n + i \in 1 .. Len(a)
      BY <1>1, <1>3, <2>0, <2>1
    <3> QED
      BY <1>2, <1>3, <1>5, <1>6, <2>0, <3>1
  <2>2. CASE Len(l) < i
    <3> DEFINE j == i - Len(l)
    <3>1. j \in 1 .. Len(b) /\ i = Len(l) + j /\ n + i = Len(a) + j
      BY <1>1, <1>2, <1>3, <2>0, <2>2
    <3> HIDE DEF j
    <3>2. x[i] = c[n + i] /\ c[Len(a) + j] = b[j] /\ (l \o b)[Len(l) + j] = b[j]
      BY <1>2, <1>5, <1>6, <2>0, <3>1
    <3> QED
      BY <3>1, <3>2
  <2>3. i <= Len(l) \/ Len(l) < i
    BY <1>1, <1>3, <2>0
  <2> QED
    BY <2>1, <2>2, <2>3
<1>9. x = l \o b
  BY <1>5, <1>6, <1>7, <1>8, SameSeq
<1> QED
  BY <1>9 DEF x, l, c

LEMMA DropAll ==
  ASSUME NEW S, NEW a \in Seq(S), NEW b \in Seq(S)
  PROVE  /\ Drop(a \o b, Len(a)) = b
         /\ Drop(a, Len(a)) = <<>>
         /\ Drop(a, 0) = a
<1>1. Len(a) \in Nat /\ Len(a) \in 0 .. Len(a)
  BY SeqFacts
<1>2. Drop(a, Len(a)) = <<>>
  BY <1>1, SubSeqEmpty DEF Drop
<1>3. Drop(a \o b, Len(a)) = Drop(a, Len(a)) \o b
  BY <1>1, DropOfCat
<1>4. Drop(a, 0) = a
  BY SubSeqFull DEF Drop
<1> QED
  BY <1>2, <1>3, <1>4, ConcatEmptySeq

LEMMA TakeAndDrop ==
  ASSUME NEW S, NEW s \in Seq(S), NEW n \in 0 .. Len(s)
  PROVE  s = SubSeq(s, 1, n) \o Drop(s, n)
<1>1. Len(s) \in Nat
  BY SeqFacts
<1>2. 1 \in 1 .. Len(s) + 1 /\ n \in 1 - 1 .. Len(s) /\ Len(s) \in n .. Len(s)
  BY <1>1
<1>3. SubSeq(s, 1, n) \o SubSeq(s, n + 1, Len(s)) = SubSeq(s, 1, Len(s))
  BY <1>2, ConcatAdjacentSubSeq
<1> QED
  BY <1>3, SubSeqFull DEF Drop

(***************************************************************************)
(* FlattenSeq and Checksum: what their recursive functions compute.        *)
(***************************************************************************)

\* g[n] is the first n sequences of ss in one.
Flattens(g, ss) == g[0] = <<>> /\ \A n \in 1 .. Len(ss) : g[n] = g[n - 1] \o ss[n]

LEMMA HasFlattening ==
  ASSUME NEW S, NEW ss \in Seq(Seq(S))
  PROVE  \E g \in [0 .. Len(ss) -> Seq(S)] : Flattens(g, ss)
<1> DEFINE N == Len(ss)
           Q == Seq(S)
           F == [n \in 1 .. N |-> [x \in Q |-> x \o ss[n]]]
<1>1. N \in Nat /\ \A n \in 1 .. N : ss[n] \in Q
  BY SeqFacts
<1>2. ASSUME NEW n \in 1 .. N, NEW x \in Q PROVE x \o ss[n] \in Q
  BY <1>1, ConcatProperties
<1>3. \A n \in 1 .. N, x \in Q : F[n][x] = x \o ss[n]
  OBVIOUS
<1>4. <<>> \in Q
  OBVIOUS
<1> HIDE DEF F, Q, N
<1>5. StepsIn(F, N, Q)
  BY <1>2, <1>3 DEF StepsIn
<1>6. PICK g \in [0 .. N -> Q] : Iterates(g, F, N, <<>>)
  BY <1>1, <1>4, <1>5, RecursionExists
<1>7. ASSUME NEW n \in 1 .. N PROVE g[n] = g[n - 1] \o ss[n]
  <2>1. g[n - 1] \in Q
    BY <1>1, <1>6
  <2> QED
    BY <1>3, <1>6, <2>1 DEF Iterates
<1> QED
  BY <1>6, <1>7 DEF Iterates, Flattens, N, Q

LEMMA FlattenIs ==
  ASSUME NEW S, NEW ss \in Seq(Seq(S)), NEW g, Flattens(g, ss)
  PROVE  FlattenSeq(ss) = g[Len(ss)]
<1> DEFINE N == Len(ss)
           unfolded(f) == [i \in 1 .. N |-> IF i = 1 THEN ss[i] ELSE f[i - 1] \o ss[i]]
           solves(f) == f = unfolded(f)
           flat == CHOOSE f : f = unfolded(f)
<1>1. N \in Nat /\ \A n \in 1 .. N : ss[n] \in Seq(S)
  BY SeqFacts
<1>2. CASE N = 0
  <2>1. ss = <<>> /\ FlattenSeq(ss) = ss
    BY <1>2, EmptySeq DEF FlattenSeq
  <2> QED
    BY <1>2, <2>1 DEF Flattens
<1>3. CASE N # 0
  <2>1. FlattenSeq(ss) = flat[N]
    BY <1>3 DEF FlattenSeq
  <2>2. g[1] = ss[1]
    <3>1. 1 \in 1 .. N /\ 1 - 1 = 0
      BY <1>1, <1>3
    <3>2. g[1] = <<>> \o ss[1]
      BY <3>1 DEF Flattens
    <3> QED
      BY <1>1, <3>1, <3>2, ConcatEmptySeq
  <2> DEFINE f0 == [i \in 1 .. N |-> g[i]]
  <2>3. ASSUME NEW i \in 1 .. N PROVE f0[i] = IF i = 1 THEN ss[i] ELSE f0[i - 1] \o ss[i]
    <3>1. CASE i = 1
      BY <1>1, <2>2, <3>1
    <3>2. CASE i # 1
      <4>1. i - 1 \in 1 .. N /\ i \in 1 .. Len(ss)
        BY <1>1, <3>2
      <4>2. g[i] = g[i - 1] \o ss[i]
        BY <4>1 DEF Flattens
      <4>3. f0[i] = g[i] /\ f0[i - 1] = g[i - 1]
        BY <4>1
      <4> HIDE DEF f0
      <4> QED
        BY <3>2, <4>2, <4>3
    <3> QED
      BY <3>1, <3>2
  <2>4. f0 = unfolded(f0)
    <3>1. DOMAIN f0 = 1 .. N
      OBVIOUS
    <3>2. f0 = [i \in 1 .. N |-> f0[i]]
      OBVIOUS
    <3> HIDE DEF f0
    <3> QED
      BY <2>3, <3>2
  <2>5. solves(flat)
    <3>1. \E f : f = unfolded(f)
      <4> HIDE DEF unfolded
      <4> QED
        BY <2>4
    <3> HIDE DEF unfolded
    <3> QED
      BY <3>1
  <2>6. ASSUME NEW i \in 1 .. N PROVE flat[i] = IF i = 1 THEN ss[i] ELSE flat[i - 1] \o ss[i]
    <3>1. ASSUME NEW f PROVE unfolded(f)[i] = IF i = 1 THEN ss[i] ELSE f[i - 1] \o ss[i]
      OBVIOUS
    <3> HIDE DEF unfolded
    <3>2. flat = unfolded(flat)
      BY <2>5
    <3> HIDE DEF flat
    <3> QED
      BY <3>1, <3>2
  <2> DEFINE T == {n \in Nat : n + 1 <= N => flat[n + 1] = g[n + 1]}
  <2> HIDE DEF flat
  <2>7. 0 \in T
    <3>1. 1 \in 1 .. N
      BY <1>1, <1>3
    <3>2. flat[1] = ss[1]
      BY <2>6, <3>1
    <3> QED
      BY <2>2, <3>2
  <2>8. ASSUME NEW n \in Nat, n \in T PROVE n + 1 \in T
    <3> DEFINE k == n + 2
    <3> SUFFICES ASSUME k <= N PROVE flat[k] = g[k]
      OBVIOUS
    <3>1. k \in 1 .. N /\ k # 1 /\ k - 1 = n + 1 /\ n + 1 <= N
      BY <1>1
    <3>2. flat[n + 1] = g[n + 1]
      BY <2>8, <3>1
    <3> HIDE DEF k
    <3>3. flat[k] = flat[k - 1] \o ss[k]
      BY <2>6, <3>1
    <3>4. g[k] = g[k - 1] \o ss[k]
      BY <3>1 DEF Flattens
    <3> QED
      BY <3>1, <3>2, <3>3, <3>4
  <2> HIDE DEF T
  <2>9. Nat \subseteq T
    BY <2>7, <2>8, NatInd
  <2>10. N - 1 \in Nat /\ (N - 1) + 1 = N
    BY <1>1, <1>3
  <2>11. N - 1 \in T
    BY <2>9, <2>10
  <2>12. flat[N] = g[N]
    BY <2>10, <2>11 DEF T
  <2> QED
    BY <2>1, <2>12
<1> QED
  BY <1>2, <1>3

LEMMA FlattenAppend ==
  ASSUME NEW S, NEW ss \in Seq(Seq(S)), NEW x \in Seq(S)
  PROVE  /\ FlattenSeq(<<>>) = <<>>
         /\ FlattenSeq(ss) \in Seq(S)
         /\ FlattenSeq(Append(ss, x)) = FlattenSeq(ss) \o x
<1> DEFINE st == Append(ss, x)
           N == Len(ss)
           Q == Seq(S)
<1>0. ss \in Seq(Q) /\ x \in Q
  OBVIOUS
<1> HIDE DEF Q
<1>1. /\ N \in Nat
      /\ st \in Seq(Q) /\ Len(st) = N + 1 /\ st[N + 1] = x
      /\ \A i \in 1 .. N : st[i] = ss[i]
  BY <1>0, AppendProperties, LenProperties
<1> HIDE DEF st, N
<1>2. PICK g \in [0 .. Len(st) -> Seq(S)] : Flattens(g, st)
  BY <1>1, HasFlattening DEF Q
<1>3. Flattens(g, ss)
  <2> SUFFICES ASSUME NEW n \in 1 .. N PROVE g[n] = g[n - 1] \o ss[n]
    BY <1>2 DEF Flattens, N
  <2>1. n \in 1 .. Len(st) /\ st[n] = ss[n]
    BY <1>1
  <2> QED
    BY <1>2, <2>1 DEF Flattens
<1>4. FlattenSeq(ss) = g[N]
  BY <1>3, FlattenIs DEF N
<1>5. FlattenSeq(st) = g[N + 1]
  <2>1. FlattenSeq(st) = g[Len(st)]
    BY <1>1, <1>2, FlattenIs DEF Q
  <2> QED
    BY <1>1, <2>1
<1>6. g[N + 1] = g[N] \o x /\ g[N] \in Seq(S)
  <2>1. N + 1 \in 1 .. Len(st) /\ (N + 1) - 1 = N /\ N \in 0 .. Len(st)
    BY <1>1
  <2> QED
    BY <1>1, <1>2, <2>1 DEF Flattens
<1>7. FlattenSeq(<<>>) = <<>>
  BY DEF FlattenSeq
<1> QED
  BY <1>4, <1>5, <1>6, <1>7 DEF st

\* The first sequence stands in front.
LEMMA FlattenCons ==
  ASSUME NEW S, NEW ss \in Seq(Seq(S)), ss # <<>>
  PROVE  FlattenSeq(ss) = ss[1] \o FlattenSeq(Tail(ss))
<1> DEFINE Q == Seq(S)
           N == Len(ss)
           part(n) == SubSeq(ss, 1, n)
           rest(n) == SubSeq(ss, 2, n)
           Good(n) == FlattenSeq(part(n)) = ss[1] \o FlattenSeq(rest(n))
           T == {n \in Nat : n + 1 <= N => Good(n + 1)}
<1>1. N \in Nat /\ N # 0 /\ \A i \in 1 .. N : ss[i] \in Q
  BY SeqFacts, EmptySeq
<1>0. ss \in Seq(Q) /\ <<>> \in Seq(Q)
  OBVIOUS
<1> HIDE DEF Q, N, Good, T
<1>2. ASSUME NEW n \in Nat, n + 1 <= N
      PROVE  /\ part(n) \in Seq(Q) /\ part(n + 1) = Append(part(n), ss[n + 1])
             /\ ss[n + 1] \in Q
  <2>1. n + 1 \in 1 .. N /\ n + 1 \in 1 .. Len(ss) /\ (n + 1) - 1 = n /\ n <= Len(ss) /\ n + 1 \in Nat
    BY <1>1, <1>2 DEF N
  <2>2. part(n) \in Seq(Q)
    BY <1>0, <2>1, CutFacts
  <2>3. part(n + 1) = part(n) \o <<ss[n + 1]>>
    <3> DEFINE k == n + 1
    <3>1. k \in 1 .. Len(ss) /\ 1 \in 1 .. Len(ss) /\ k \in 1 .. Len(ss) /\ k - 1 = n
      BY <2>1, <1>1 DEF N
    <3> HIDE DEF k
    <3>2. SubSeq(ss, 1, k) = SubSeq(ss, 1, k - 1) \o <<ss[k]>>
      BY <1>0, <3>1, SubSeqRecursiveSecond
    <3> QED
      BY <3>1, <3>2 DEF k
  <2>4. ss[n + 1] \in Q
    BY <1>1, <2>1
  <2> HIDE DEF part
  <2> QED
    BY <2>2, <2>3, <2>4, AppendIsConcat
<1>3. ASSUME NEW n \in Nat, 1 <= n, n + 1 <= N
      PROVE  rest(n) \in Seq(Q) /\ rest(n + 1) = Append(rest(n), ss[n + 1])
  <2> DEFINE k == n + 1
  <2>1. k \in 2 .. Len(ss) /\ 2 \in 1 .. Len(ss) /\ k - 1 = n /\ n <= Len(ss) /\ 2 <= n + 1
    BY <1>1, <1>3 DEF N
  <2>2. rest(n) \in Seq(Q)
    BY <1>0, <2>1, CutFacts
  <2> HIDE DEF k
  <2>3. SubSeq(ss, 2, k) = SubSeq(ss, 2, k - 1) \o <<ss[k]>>
    BY <1>0, <2>1, SubSeqRecursiveSecond
  <2>4. rest(n + 1) = rest(n) \o <<ss[n + 1]>>
    BY <2>1, <2>3 DEF k
  <2>5. ss[n + 1] \in Q
    BY <1>2, <1>3
  <2> HIDE DEF rest
  <2> QED
    BY <2>2, <2>4, <2>5, AppendIsConcat
<1>4. 0 \in T
  <2>1. 0 + 1 <= N /\ 0 \in Nat
    BY <1>1
  <2>2. /\ part(0) \in Seq(Q) /\ part(0 + 1) = Append(part(0), ss[0 + 1])
        /\ ss[0 + 1] \in Q
    <3> HIDE DEF part
    <3> QED
      BY <1>2, <2>1
  <2>3. part(0) = <<>> /\ rest(1) = <<>>
    BY SubSeqEmpty
  <2>4. FlattenSeq(part(1)) = FlattenSeq(<<>>) \o ss[1] /\ FlattenSeq(<<>>) = <<>>
    <3> HIDE DEF part, rest
    <3>0. 0 + 1 = 1
      OBVIOUS
    <3>1. part(1) = Append(<<>>, ss[1]) /\ ss[1] \in Q
      BY <2>2, <2>3, <3>0
    <3>2. FlattenSeq(Append(<<>>, ss[1])) = FlattenSeq(<<>>) \o ss[1] /\ FlattenSeq(<<>>) = <<>>
      BY <1>0, <3>1, FlattenAppend DEF Q
    <3> QED
      BY <3>1, <3>2
  <2>5. <<>> \o ss[1] = ss[1] /\ ss[1] \o <<>> = ss[1]
    BY <2>2, ConcatEmptySeq DEF Q
  <2>6. FlattenSeq(part(1)) = ss[1] \o FlattenSeq(rest(1))
    <3> HIDE DEF part, rest
    <3> QED
      BY <2>3, <2>4, <2>5
  <2> HIDE DEF part, rest
  <2>7. Good(1)
    BY <2>6 DEF Good
  <2> QED
    BY <2>7 DEF T
<1>5. ASSUME NEW n \in Nat, n \in T PROVE n + 1 \in T
  <2> HIDE DEF part, rest
  <2> DEFINE k == n + 1
  <2> SUFFICES ASSUME k + 1 <= N PROVE Good(k + 1)
    BY DEF T
  <2>1. k \in Nat /\ 1 <= k /\ n + 1 <= N
    BY <1>1
  <2>2. FlattenSeq(part(k)) = ss[1] \o FlattenSeq(rest(k))
    BY <1>5, <2>1 DEF T, Good
  <2> HIDE DEF k
  <2>3. /\ part(k) \in Seq(Q) /\ part(k + 1) = Append(part(k), ss[k + 1])
        /\ ss[k + 1] \in Q
    BY <1>2, <2>1
  <2>4. rest(k) \in Seq(Q) /\ rest(k + 1) = Append(rest(k), ss[k + 1])
    BY <1>3, <2>1
  <2>5. FlattenSeq(part(k + 1)) = FlattenSeq(part(k)) \o ss[k + 1]
    BY <2>3, FlattenAppend DEF Q
  <2>6. FlattenSeq(rest(k)) \in Seq(S) /\ FlattenSeq(rest(k + 1)) = FlattenSeq(rest(k)) \o ss[k + 1]
    BY <2>3, <2>4, FlattenAppend DEF Q
  <2>7. ss[1] \in Seq(S) /\ ss[k + 1] \in Seq(S)
    BY <1>1, <2>3 DEF Q
  <2> DEFINE x == FlattenSeq(rest(k))
             y == ss[k + 1]
             z == ss[1]
  <2>8. x \in Seq(S) /\ y \in Seq(S) /\ z \in Seq(S)
    BY <2>6, <2>7
  <2>9. FlattenSeq(part(k)) = z \o x /\ FlattenSeq(rest(k + 1)) = x \o y
        /\ FlattenSeq(part(k + 1)) = FlattenSeq(part(k)) \o y
    BY <2>2, <2>5, <2>6
  <2> HIDE DEF x, y, z
  <2>10. (z \o x) \o y = z \o (x \o y)
    BY <2>8, ConcatAssociative, SMTT(40)
  <2> QED
    BY <2>9, <2>10 DEF z, Good
<1> HIDE DEF part, rest
<1>6. Nat \subseteq T
  BY <1>4, <1>5, NatInd
<1>7. N - 1 \in T /\ (N - 1) + 1 = N
  BY <1>1, <1>6
<1>8. FlattenSeq(part(N)) = ss[1] \o FlattenSeq(rest(N))
  BY <1>1, <1>7 DEF T, Good
<1>9. part(N) = ss /\ rest(N) = Tail(ss)
  BY <1>0, SubSeqFull, TailIsSubSeq DEF N, part, rest
<1> QED
  BY <1>8, <1>9

=============================================================================
