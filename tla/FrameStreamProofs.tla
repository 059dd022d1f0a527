---------------------------- MODULE FrameStreamProofs ----------------------------
(***************************************************************************)
(* Proofs about Framing and FrameStream: for both codecs, any script of    *)
(* messages whose contents fit the two digits of the length, any noise in  *)
(* which no frame begins, any pieces and any room in the socket's buffers. *)
(***************************************************************************)
EXTENDS FrameStream, CommonLemmas

\* g[n] is the sum of the first n numbers of c.
Sums(g, c) == g[0] = 0 /\ \A n \in 1 .. Len(c) : g[n] = g[n - 1] + c[n]

LEMMA HasSums ==
  ASSUME NEW c \in Seq(Nat)
  PROVE  \E g \in [0 .. Len(c) -> Nat] : Sums(g, c)
<1> DEFINE N == Len(c)
           F == [n \in 1 .. N |-> [x \in Nat |-> x + c[n]]]
<1>1. N \in Nat /\ \A n \in 1 .. N : c[n] \in Nat
  BY SeqFacts
<1>2. \A n \in 1 .. N, x \in Nat : F[n][x] = x + c[n]
  OBVIOUS
<1> HIDE DEF F, N
<1>3. StepsIn(F, N, Nat)
  <2>1. ASSUME NEW n \in 1 .. N, NEW x \in Nat PROVE F[n][x] \in Nat
    <3>1. F[n][x] = x + c[n] /\ c[n] \in Nat
      BY <1>1, <1>2
    <3> QED
      BY <3>1
  <2> QED
    BY <2>1 DEF StepsIn
<1>4. PICK g \in [0 .. N -> Nat] : Iterates(g, F, N, 0)
  BY <1>1, <1>3, RecursionExists
<1>5. ASSUME NEW n \in 1 .. N PROVE g[n] = g[n - 1] + c[n]
  <2>1. g[n - 1] \in Nat
    BY <1>1, <1>4
  <2> QED
    BY <1>2, <1>4, <2>1 DEF Iterates
<1> QED
  BY <1>4, <1>5 DEF Iterates, Sums, N

LEMMA ChecksumIs ==
  ASSUME NEW c \in Seq(Nat), NEW g \in [0 .. Len(c) -> Nat], Sums(g, c)
  PROVE  Checksum(c) = g[Len(c)] % 255
<1> DEFINE N == Len(c)
           unfolded(f) == [i \in 0 .. N |-> IF i = 0 THEN 0 ELSE f[i - 1] + c[i]]
           sum == CHOOSE f : f = unfolded(f)
<1>1. N \in Nat
  BY SeqFacts
<1>2. Checksum(c) = sum[N] % 255
  BY DEF Checksum
<1>3. g = unfolded(g)
  <2>1. ASSUME NEW i \in 0 .. N PROVE g[i] = IF i = 0 THEN 0 ELSE g[i - 1] + c[i]
    <3>1. CASE i = 0
      BY <3>1 DEF Sums
    <3>2. CASE i # 0
      <4>1. i \in 1 .. Len(c)
        BY <1>1, <3>2
      <4> QED
        BY <3>2, <4>1 DEF Sums
    <3> QED
      BY <3>1, <3>2
  <2>2. g = [i \in 0 .. N |-> g[i]]
    OBVIOUS
  <2> QED
    BY <2>1, <2>2
<1>4. sum = unfolded(sum)
  <2>1. \E f : f = unfolded(f)
    <3> HIDE DEF unfolded
    <3> QED
      BY <1>3
  <2> HIDE DEF unfolded
  <2> QED
    BY <2>1
<1>5. ASSUME NEW i \in 0 .. N PROVE sum[i] = IF i = 0 THEN 0 ELSE sum[i - 1] + c[i]
  <2>1. ASSUME NEW f PROVE unfolded(f)[i] = IF i = 0 THEN 0 ELSE f[i - 1] + c[i]
    OBVIOUS
  <2> HIDE DEF unfolded
  <2>2. sum = unfolded(sum)
    BY <1>4
  <2> HIDE DEF sum
  <2> QED
    BY <2>1, <2>2
<1> DEFINE T == {n \in Nat : n <= N => sum[n] = g[n]}
<1> HIDE DEF sum
<1>6. 0 \in T
  <2>1. sum[0] = 0
    BY <1>1, <1>5
  <2> QED
    BY <2>1 DEF Sums
<1>7. ASSUME NEW n \in Nat, n \in T PROVE n + 1 \in T
  <2> DEFINE k == n + 1
  <2> SUFFICES ASSUME k <= N PROVE sum[k] = g[k]
    OBVIOUS
  <2>1. k \in 0 .. N /\ k # 0 /\ k - 1 = n /\ k \in 1 .. Len(c) /\ sum[n] = g[n]
    BY <1>1, <1>7
  <2> HIDE DEF k, T
  <2>2. sum[k] = sum[k - 1] + c[k]
    BY <1>5, <2>1
  <2>3. g[k] = g[k - 1] + c[k]
    BY <2>1 DEF Sums
  <2> QED
    BY <2>1, <2>2, <2>3
<1> HIDE DEF T
<1>8. N \in T
  BY <1>1, <1>6, <1>7, NatInd
<1> QED
  BY <1>2, <1>8 DEF T

LEMMA ByteSeq ==
  ASSUME NEW b \in Seq(Byte)
  PROVE  b \in Seq(Nat) /\ Len(b) \in Nat /\ \A i \in 1 .. Len(b) : b[i] \in Byte
<1>1. Byte \subseteq Nat
  BY DEF Byte
<1> QED
  BY <1>1, SeqFacts, SeqMonotonic

LEMMA ChecksumRange ==
  ASSUME NEW c \in Seq(Byte)
  PROVE  Checksum(c) \in 0 .. 254
<1>1. c \in Seq(Nat) /\ Len(c) \in Nat
  BY ByteSeq
<1>2. PICK g \in [0 .. Len(c) -> Nat] : Sums(g, c)
  BY <1>1, HasSums
<1>3. Checksum(c) = g[Len(c)] % 255
  BY <1>1, <1>2, ChecksumIs
<1> DEFINE x == g[Len(c)]
<1>4. x \in Nat /\ Checksum(c) = x % 255
  BY <1>1, <1>3
<1> HIDE DEF x
<1> QED
  BY <1>4

LEMMA ChecksumByte ==
  ASSUME NEW c \in Seq(Byte)
  PROVE  Checksum(c) \in Byte
<1> DEFINE x == Checksum(c)
<1>1. x \in 0 .. 254
  BY ChecksumRange
<1> HIDE DEF x
<1>2. x \in 0 .. 255
  BY <1>1
<1> QED
  BY <1>2 DEF Byte, x

LEMMA Residues ==
  ASSUME NEW x \in Nat, NEW y \in Nat, x - y \in -254 .. 254, x # y
  PROVE  x % 255 # y % 255
OBVIOUS

LEMMA SumShifts ==
  ASSUME NEW c \in Seq(Nat), NEW d \in Seq(Nat), Len(d) = Len(c),
         NEW i \in 1 .. Len(c), NEW w \in Nat, NEW v \in Nat, c[i] = w, d[i] = v,
         \A j \in 1 .. Len(c) : j # i => d[j] = c[j],
         NEW g \in [0 .. Len(c) -> Nat], Sums(g, c), NEW h \in [0 .. Len(c) -> Nat], Sums(h, d)
  PROVE  h[Len(c)] = g[Len(c)] + (v - w)
<1> DEFINE N == Len(c)
           Good(n) == h[n] = IF n < i THEN g[n] ELSE g[n] + (v - w)
           T == {n \in Nat : n <= N => Good(n)}
<1>1. N \in Nat /\ i \in 1 .. N /\ \A j \in 1 .. N : c[j] \in Nat /\ d[j] \in Nat
  BY SeqFacts
<1>2. /\ g[0] = 0 /\ h[0] = 0
      /\ \A n \in 1 .. N : g[n] = g[n - 1] + c[n] /\ h[n] = h[n - 1] + d[n]
  BY DEF Sums
<1>3. \A n \in 0 .. N : g[n] \in Nat /\ h[n] \in Nat
  OBVIOUS
<1>4. \A j \in 1 .. N : j # i => d[j] = c[j]
  OBVIOUS
<1> HIDE DEF N, Good, T
<1>5. 0 \in T
  BY <1>1, <1>2 DEF T, Good
<1>6. ASSUME NEW n \in Nat, n \in T PROVE n + 1 \in T
  <2> DEFINE k == n + 1
  <2> SUFFICES ASSUME k <= N PROVE Good(k)
    BY DEF T
  <2>1. k \in 1 .. N /\ k - 1 = n /\ k = n + 1 /\ n \in 0 .. N
    BY <1>1
  <2>2. h[n] = IF n < i THEN g[n] ELSE g[n] + (v - w)
    BY <1>6, <2>1 DEF T, Good
  <2> HIDE DEF k
  <2> DEFINE x == g[n]
             y == h[n]
             e == c[k]
  <2>3. x \in Nat /\ y \in Nat /\ e \in Nat
    BY <1>1, <1>3, <2>1
  <2>4. g[k] = x + e /\ h[k] = y + d[k]
    BY <1>2, <2>1
  <2>5. y = IF n < i THEN x ELSE x + (v - w)
    BY <2>2
  <2>6. k # i => d[k] = e
    BY <1>4, <2>1
  <2>7. k = i => d[k] = v /\ e = w
    OBVIOUS
  <2> HIDE DEF x, y, e
  <2>8. CASE k < i
    <3>1. h[k] = g[k]
      BY <1>1, <2>1, <2>4, <2>5, <2>6, <2>8
    <3> QED
      BY <2>8, <3>1 DEF Good
  <2>9. CASE k = i
    <3>1. h[k] = x + v /\ g[k] = x + w
      BY <1>1, <2>1, <2>4, <2>5, <2>7, <2>9
    <3>2. h[k] = g[k] + (v - w)
      BY <2>3, <3>1
    <3> QED
      BY <1>1, <2>9, <3>2 DEF Good
  <2>10. CASE k > i
    <3>1. h[k] = (x + (v - w)) + e /\ g[k] = x + e
      BY <1>1, <2>1, <2>4, <2>5, <2>6, <2>10
    <3>2. h[k] = g[k] + (v - w)
      BY <2>3, <3>1
    <3> QED
      BY <1>1, <2>1, <2>10, <3>2 DEF Good
  <2>11. k < i \/ k = i \/ k > i
    BY <1>1, <2>1
  <2> QED
    BY <2>8, <2>9, <2>10, <2>11
<1>7. N \in T
  BY <1>1, <1>5, <1>6, NatInd
<1>8. Good(N) /\ ~(N < i)
  BY <1>1, <1>7 DEF T
<1> QED
  BY <1>8 DEF Good, N

\* The sum notices one byte that changed, unless it is 0 for 255 or 255 for 0.
LEMMA ChecksumDiffers ==
  ASSUME NEW c \in Seq(Byte), NEW i \in 1 .. Len(c), NEW v \in Byte, v # c[i],
         {c[i], v} # {0, 255}
  PROVE  Checksum([c EXCEPT ![i] = v]) # Checksum(c)
<1> DEFINE d == [c EXCEPT ![i] = v]
           w == c[i]
<1>0. c \in Seq(Nat) /\ Len(c) \in Nat /\ w \in Byte
  BY ByteSeq
<1>1. w \in 0 .. 255 /\ v \in 0 .. 255
  BY <1>0 DEF Byte
<1>2. /\ d \in Seq(Nat) /\ Len(d) = Len(c)
      /\ \A j \in 1 .. Len(c) : d[j] = IF j = i THEN v ELSE c[j]
  <2>1. v \in Nat
    BY <1>1
  <2> QED
    BY <1>0, <2>1, ExceptSeq
<1> HIDE DEF d
<1>3. PICK g \in [0 .. Len(c) -> Nat] : Sums(g, c)
  BY <1>0, HasSums
<1>4. PICK h \in [0 .. Len(c) -> Nat] : Sums(h, d)
  <2>1. \E h \in [0 .. Len(d) -> Nat] : Sums(h, d)
    BY <1>2, HasSums
  <2> QED
    BY <1>2, <2>1
<1> DEFINE x == g[Len(c)]
           y == h[Len(c)]
<1>5. x \in Nat /\ y \in Nat
  BY <1>0
<1>6. y = x + (v - w)
  <2>1. d[i] = v /\ \A j \in 1 .. Len(c) : j # i => d[j] = c[j]
    BY <1>2
  <2>2. c[i] = w
    OBVIOUS
  <2> HIDE DEF w
  <2>3. w \in Nat /\ v \in Nat
    BY <1>1
  <2>4. c \in Seq(Nat) /\ d \in Seq(Nat) /\ Len(d) = Len(c)
    BY <1>0, <1>2
  <2> QED
    BY <1>3, <1>4, <2>1, <2>2, <2>3, <2>4, SumShifts
<1>7. Checksum(c) = x % 255
  BY <1>0, <1>3, ChecksumIs
<1>8. Checksum(d) = y % 255
  <2>1. h \in [0 .. Len(d) -> Nat] /\ Len(d) = Len(c)
    BY <1>2, <1>4
  <2>2. Checksum(d) = h[Len(d)] % 255
    BY <1>2, <1>4, <2>1, ChecksumIs
  <2> QED
    BY <2>1, <2>2
<1> HIDE DEF x, y, w
<1>9. v # w /\ ~(v = 0 /\ w = 255) /\ ~(v = 255 /\ w = 0)
  BY DEF w
<1>10. y - x \in -254 .. 254 /\ y # x
  BY <1>1, <1>5, <1>6, <1>9
<1>11. y % 255 # x % 255
  BY <1>5, <1>10, Residues, ZenonT(30)
<1> QED
  BY <1>7, <1>8, <1>11 DEF d

(***************************************************************************)
(* Two hex digits.                                                         *)
(***************************************************************************)

LEMMA DigitFacts ==
  ASSUME NEW k \in 0 .. 15
  PROVE  HexDigit(k) \in (48 .. 57) \cup (97 .. 102) /\ HexValue(HexDigit(k)) = k
<1>1. CASE k < 10
  <2>1. HexDigit(k) = 48 + k /\ 48 + k \in 48 .. 57
    BY <1>1 DEF HexDigit
  <2>2. HexValue(48 + k) = (48 + k) - 48
    BY <2>1 DEF HexValue
  <2> QED
    BY <2>1, <2>2
<1>2. CASE k >= 10
  <2>1. /\ HexDigit(k) = 87 + k /\ 87 + k \in 97 .. 102
        /\ 87 + k \notin 48 .. 57 /\ 87 + k \notin 65 .. 70
    BY <1>2 DEF HexDigit
  <2>2. HexValue(87 + k) = (87 + k) - 87
    BY <2>1 DEF HexValue
  <2> QED
    BY <2>1, <2>2
<1> QED
  BY <1>1, <1>2

LEMMA Hex2Facts ==
  ASSUME NEW n \in Byte
  PROVE  /\ Hex2(n) \in Seq(Byte) /\ Len(Hex2(n)) = 2
         /\ SizeOf(Hex2(n)[1], Hex2(n)[2]) = n
<1> DEFINE p == n \div 16
           q == n % 16
           x == HexDigit(p)
           y == HexDigit(q)
<1>1. p \in 0 .. 15 /\ q \in 0 .. 15 /\ 16 * p + q = n /\ n < 256
  BY DEF Byte
<1>2. Hex2(n) = <<x, y>>
  BY <1>1 DEF Hex2
<1> HIDE DEF p, q
<1>3. x \in (48 .. 57) \cup (97 .. 102) /\ y \in (48 .. 57) \cup (97 .. 102) /\ HexValue(x) = p /\ HexValue(y) = q
  BY <1>1, DigitFacts
<1> HIDE DEF x, y
<1>4. p # -1 /\ q # -1
  BY <1>1
<1>5. SizeOf(x, y) = 16 * p + q
  BY <1>3, <1>4 DEF SizeOf, HexValue
<1>6. <<x, y>> \in Seq(Byte) /\ Len(<<x, y>>) = 2 /\ <<x, y>>[1] = x /\ <<x, y>>[2] = y
  <2>1. x \in Byte /\ y \in Byte
    BY <1>3 DEF Byte
  <2> QED
    BY <2>1
<1> QED
  BY <1>1, <1>2, <1>5, <1>6

LEMMA SizeIsNumber ==
  ASSUME NEW x, NEW y
  PROVE  SizeOf(x, y) \in Nat \cup {-1}
<1>1. \A b : HexValue(b) \in 0 .. 15 \cup {-1}
  BY DEF HexValue
<1>2. Huge \in Nat
  BY DEF Huge
<1> DEFINE h1 == HexValue(x)
           h2 == HexValue(y)
<1>3. h1 \in 0 .. 15 \cup {-1} /\ h2 \in 0 .. 15 \cup {-1}
  BY <1>1
<1> HIDE DEF Huge
<1> SUFFICES ASSUME SizeOf(x, y) # -1 PROVE SizeOf(x, y) \in Nat
  OBVIOUS
<1>4. CASE h1 # -1 /\ h2 # -1
  <2>1. SizeOf(x, y) = 16 * h1 + h2
    BY <1>4 DEF SizeOf, HexValue
  <2> QED
    BY <1>3, <1>4, <2>1
<1>5. CASE h1 # -1 /\ h2 = -1
  <2>1. SizeOf(x, y) = h1
    BY <1>5 DEF SizeOf, HexValue
  <2> QED
    BY <1>3, <1>5, <2>1
<1>6. CASE h1 = -1
  <2>1. SizeOf(x, y) \in {h2, Huge, -1}
    BY <1>6 DEF SizeOf
  <2> QED
    BY <1>2, <1>3, <2>1
<1> QED
  BY <1>4, <1>5, <1>6

\* Nothing that a sum or a size can be confused with.
LEMMA HarmlessFacts ==
  /\ Harmless \subseteq Byte
  /\ 1 \in Harmless /\ 2 \in Harmless
  /\ \A x \in Harmless, y \in Byte : SizeOf(x, y) = -1
<1>1. ASSUME NEW x \in {1, 2}, NEW y \in Byte PROVE SizeOf(x, y) = -1
  <2>1. HexValue(x) = -1
    BY DEF HexValue
  <2> QED
    BY <2>1 DEF SizeOf
<1> QED
  BY <1>1 DEF Harmless, Byte

(***************************************************************************)
(* Contents: what is packed is unpacked.                                   *)
(***************************************************************************)

\* p stands in b behind the first o bytes.
At(b, o, p) == o + Len(p) <= Len(b) /\ \A i \in 1 .. Len(p) : b[o + i] = p[i]

LEMMA AtCat ==
  ASSUME NEW S, NEW b \in Seq(S), NEW o \in Nat, NEW p \in Seq(S), NEW q \in Seq(S), At(b, o, p \o q)
  PROVE  At(b, o, p) /\ At(b, o + Len(p), q)
<1>1. Len(p) \in Nat /\ Len(q) \in Nat /\ Len(b) \in Nat
  BY SeqFacts
<1>2. /\ Len(p \o q) = Len(p) + Len(q)
      /\ \A i \in 1 .. Len(p) : (p \o q)[i] = p[i]
      /\ \A i \in 1 .. Len(q) : (p \o q)[Len(p) + i] = q[i]
  BY CatFacts
<1> DEFINE pq == p \o q
<1>3. o + Len(pq) <= Len(b) /\ \A i \in 1 .. Len(pq) : b[o + i] = pq[i]
  BY DEF At
<1>4. /\ Len(pq) = Len(p) + Len(q)
      /\ \A i \in 1 .. Len(p) : pq[i] = p[i]
      /\ \A i \in 1 .. Len(q) : pq[Len(p) + i] = q[i]
  BY <1>2
<1> HIDE DEF pq
<1>5. At(b, o, p)
  BY <1>1, <1>3, <1>4 DEF At
<1>6. ASSUME NEW i \in 1 .. Len(q) PROVE b[(o + Len(p)) + i] = q[i]
  <2>1. Len(p) + i \in 1 .. Len(pq) /\ (o + Len(p)) + i = o + (Len(p) + i)
    BY <1>1, <1>4
  <2>2. b[o + (Len(p) + i)] = pq[Len(p) + i]
    BY <1>3, <2>1
  <2> QED
    BY <1>4, <2>1, <2>2
<1>7. (o + Len(p)) + Len(q) <= Len(b)
  BY <1>1, <1>3, <1>4
<1> QED
  BY <1>5, <1>6, <1>7 DEF At

LEMMA AtIs ==
  ASSUME NEW S, NEW b \in Seq(S), NEW o \in Nat, NEW p \in Seq(S), At(b, o, p)
  PROVE  SubSeq(b, o + 1, o + Len(p)) = p
<1> DEFINE m == o + 1
           n == o + Len(p)
           s == SubSeq(b, m, n)
<1>1. Len(p) \in Nat /\ Len(b) \in Nat
  BY SeqFacts
<1>2. m \in Nat /\ n \in Nat /\ 1 <= m /\ m <= n + 1 /\ n <= Len(b) /\ n + 1 - m = Len(p)
  BY <1>1 DEF At
<1>3. ASSUME NEW i \in 1 .. Len(p) PROVE m + i - 1 = o + i
  BY <1>1
<1>4. s \in Seq(S) /\ Len(s) = n + 1 - m /\ \A i \in 1 .. n + 1 - m : s[i] = b[m + i - 1]
  <2> HIDE DEF m, n
  <2> QED
    BY <1>2, CutFacts
<1> HIDE DEF m, n, s
<1>5. ASSUME NEW i \in 1 .. Len(p) PROVE s[i] = p[i]
  <2>1. s[i] = b[m + i - 1] /\ b[o + i] = p[i]
    BY <1>2, <1>4 DEF At
  <2> QED
    BY <1>3, <2>1
<1>6. s = p
  BY <1>2, <1>4, <1>5, SameSeq
<1> QED
  BY <1>6 DEF s, m, n

LEMMA Tuples ==
  ASSUME NEW S, NEW x \in S, NEW y \in S, NEW z \in S
  PROVE  /\ <<x>> \in Seq(S) /\ Len(<<x>>) = 1 /\ <<x>>[1] = x
         /\ <<x, y>> \in Seq(S) /\ Len(<<x, y>>) = 2 /\ <<x, y>>[1] = x /\ <<x, y>>[2] = y
         /\ <<x, y, z>> \in Seq(S) /\ Len(<<x, y, z>>) = 3
OBVIOUS

\* The head that msgpack puts in front of a string of n bytes.
StrHead(n) ==
  IF n < 32 THEN <<160 + n>> ELSE IF n < 256 THEN <<217, n>> ELSE <<218, n \div 256, n % 256>>

LEMMA HeadFacts ==
  ASSUME NEW n \in Nat
  PROVE  /\ StrHead(n) \in Seq(Nat)
         /\ n < 32 => StrHead(n) \in Seq(Byte) /\ Len(StrHead(n)) = 1 /\ StrHead(n)[1] = 160 + n
         /\ n >= 32 /\ n < 256 => StrHead(n) \in Seq(Byte) /\ Len(StrHead(n)) = 2 /\ StrHead(n)[1] = 217 /\ StrHead(n)[2] = n
<1>1. CASE n < 32
  <2> DEFINE x == 160 + n
  <2>1. x \in Nat /\ x \in Byte /\ StrHead(n) = <<x>>
    BY <1>1 DEF StrHead, Byte
  <2> HIDE DEF x
  <2>2. StrHead(n) \in Seq(Nat)
    BY <2>1, Tuples
  <2>3. StrHead(n) \in Seq(Byte) /\ Len(StrHead(n)) = 1 /\ StrHead(n)[1] = x
    BY <2>1, Tuples
  <2> QED
    BY <1>1, <2>2, <2>3 DEF x
<1>2. CASE n >= 32 /\ n < 256
  <2>1. 217 \in Nat /\ 217 \in Byte /\ n \in Byte /\ StrHead(n) = <<217, n>>
    BY <1>2 DEF StrHead, Byte
  <2>2. StrHead(n) \in Seq(Nat)
    BY <2>1, Tuples
  <2>3. StrHead(n) \in Seq(Byte) /\ Len(StrHead(n)) = 2 /\ StrHead(n)[1] = 217 /\ StrHead(n)[2] = n
    BY <2>1, Tuples
  <2> QED
    BY <1>2, <2>2, <2>3
<1>3. CASE n >= 256
  <2> DEFINE x == n \div 256
             y == n % 256
  <2>1. x \in Nat /\ y \in Nat /\ 218 \in Nat /\ StrHead(n) = <<218, x, y>>
    BY <1>3 DEF StrHead
  <2> HIDE DEF x, y
  <2>2. StrHead(n) \in Seq(Nat)
    BY <2>1, Tuples
  <2> QED
    BY <1>3, <2>2
<1> QED
  BY <1>1, <1>2, <1>3

LEMMA PackStringFacts ==
  ASSUME NEW s \in Seq(Byte)
  PROVE  /\ PackString(s) = StrHead(Len(s)) \o s
         /\ PackString(s) \in Seq(Nat) /\ Len(s) <= Len(PackString(s))
         /\ Len(s) <= 255 => PackString(s) \in Seq(Byte)
<1> DEFINE n == Len(s)
           h == StrHead(n)
<1>1. s \in Seq(Nat) /\ n \in Nat
  BY ByteSeq
<1>2. PackString(s) = h \o s
  BY DEF PackString, StrHead
<1>3. h \in Seq(Nat) /\ (n < 256 => h \in Seq(Byte))
  <2> HIDE DEF n
  <2>1. h \in Seq(Nat)
    BY <1>1, HeadFacts
  <2>2. n < 32 => h \in Seq(Byte)
    BY <1>1, HeadFacts
  <2>3. n >= 32 /\ n < 256 => h \in Seq(Byte)
    BY <1>1, HeadFacts
  <2> QED
    BY <1>1, <2>1, <2>2, <2>3
<1> HIDE DEF h
<1>4. h \o s \in Seq(Nat) /\ Len(h \o s) = Len(h) + n /\ Len(h) \in Nat
  BY <1>1, <1>3, ConcatProperties, SeqFacts
<1>5. n < 256 => h \o s \in Seq(Byte)
  BY <1>3, ConcatProperties
<1>6. n <= Len(PackString(s))
  BY <1>1, <1>2, <1>4
<1>7. n <= 255 => PackString(s) \in Seq(Byte)
  BY <1>1, <1>2, <1>5
<1> QED
  BY <1>2, <1>4, <1>6, <1>7 DEF h

LEMMA StringBack ==
  ASSUME NEW b \in Seq(Byte), NEW o \in Nat, NEW s \in Seq(Byte), Len(s) <= 255, At(b, o, PackString(s))
  PROVE  StringAt(b, o) = [str |-> s, end |-> o + Len(PackString(s))]
<1> DEFINE n == Len(s)
           h == StrHead(n)
           k == Len(h)
<1>1. n \in Nat /\ Len(b) \in Nat /\ n < 256
  BY SeqFacts
<1>2. PackString(s) = h \o s
  BY PackStringFacts
<1>3. /\ h \in Seq(Byte)
      /\ n < 32 => k = 1 /\ h[1] = 160 + n
      /\ n >= 32 => k = 2 /\ h[1] = 217 /\ h[2] = n
  <2> HIDE DEF n
  <2>1. n < 32 => h \in Seq(Byte) /\ k = 1 /\ h[1] = 160 + n
    BY <1>1, HeadFacts
  <2>2. n >= 32 /\ n < 256 => h \in Seq(Byte) /\ k = 2 /\ h[1] = 217 /\ h[2] = n
    BY <1>1, HeadFacts
  <2> QED
    BY <1>1, <2>1, <2>2
<1> HIDE DEF h, n
<1>4. At(b, o, h) /\ At(b, o + k, s) /\ Len(h \o s) = k + n
  <2>1. At(b, o, h \o s)
    BY <1>2
  <2>2. At(b, o, h) /\ At(b, o + k, s)
    BY <1>3, <2>1, AtCat
  <2>3. Len(h \o s) = k + n
    BY <1>3, CatFacts DEF n
  <2> QED
    BY <2>2, <2>3
<1> DEFINE e == o + k
<1>5. e \in Nat /\ e \in Int /\ (k = 1 \/ k = 2) /\ e = o + k
  BY <1>1, <1>3
<1>6. e + n <= Len(b) /\ o + k <= Len(b) /\ \A i \in 1 .. k : b[o + i] = h[i]
  BY <1>4 DEF At, n
<1>7. SubSeq(b, e + 1, e + n) = s
  BY <1>4, <1>5, AtIs DEF n
<1> HIDE DEF k, e
<1>8. CASE n < 32
  <2>1. k = 1 /\ b[o + 1] = 160 + n
    BY <1>3, <1>6, <1>8
  <2> DEFINE t == b[o + 1]
  <2>2. t \in 160 .. 191 /\ t - 160 = n /\ 0 <= o /\ o < Len(b) /\ o + 1 + n <= Len(b)
    BY <1>1, <1>5, <1>6, <1>8, <2>1
  <2> HIDE DEF t
  <2>5. StringAt(b, o) = IF o + 1 + (t - 160) <= Len(b)
                         THEN [str |-> SubSeq(b, o + 1 + 1, o + 1 + (t - 160)), end |-> o + 1 + (t - 160)]
                         ELSE [str |-> <<>>, end |-> -1]
    <3>1. b[o + 1] = t
      BY DEF t
    <3>2. 0 <= o /\ o < Len(b) /\ t \in 160 .. 191 /\ t # 217 /\ t # 218
      BY <2>2
    <3> QED
      BY <3>1, <3>2 DEF StringAt
  <2>3. StringAt(b, o) = [str |-> SubSeq(b, (o + 1) + 1, (o + 1) + n), end |-> (o + 1) + n]
    BY <2>2, <2>5
  <2>4. e = o + 1 /\ (o + 1) + n = o + (k + n)
    BY <1>1, <1>5, <2>1
  <2> QED
    BY <1>2, <1>4, <1>7, <2>3, <2>4
<1>9. CASE n >= 32
  <2>1. k = 2 /\ b[o + 1] = 217 /\ b[o + 2] = n
    BY <1>3, <1>6, <1>9
  <2> DEFINE t == b[o + 1]
  <2>2. t = 217 /\ 0 <= o /\ o < Len(b) /\ o + 2 <= Len(b) /\ o + 2 + n <= Len(b)
    BY <1>1, <1>5, <1>6, <1>9, <2>1
  <2> HIDE DEF t
  <2>3. StringAt(b, o) = [str |-> SubSeq(b, (o + 2) + 1, (o + 2) + n), end |-> (o + 2) + n]
    BY <2>1, <2>2 DEF StringAt, t
  <2>4. e = o + 2 /\ (o + 2) + n = o + (k + n)
    BY <1>1, <1>5, <2>1
  <2> QED
    BY <1>2, <1>4, <1>7, <2>3, <2>4
<1> QED
  BY <1>1, <1>8, <1>9

LEMMA FlattenFew ==
  ASSUME NEW S, NEW x \in Seq(S), NEW y \in Seq(S)
  PROVE  FlattenSeq(<<>>) = <<>> /\ FlattenSeq(<<x>>) = x /\ FlattenSeq(<<x, y>>) = x \o y
<1> DEFINE Q == Seq(S)
<1>1. x \in Q /\ y \in Q
  OBVIOUS
<1> HIDE DEF Q
<1>2. /\ <<x>> \in Seq(Q) /\ <<x>> # <<>> /\ <<x>>[1] = x /\ Tail(<<x>>) = <<>>
      /\ <<y>> \in Seq(Q) /\ <<y>> # <<>> /\ <<y>>[1] = y /\ Tail(<<y>>) = <<>>
      /\ <<x, y>> \in Seq(Q) /\ <<x, y>> # <<>> /\ <<x, y>>[1] = x /\ Tail(<<x, y>>) = <<y>>
  BY <1>1
<1>3. FlattenSeq(<<>>) = <<>>
  BY DEF FlattenSeq
<1>4. x \o <<>> = x /\ y \o <<>> = y
  BY ConcatEmptySeq
<1>5. FlattenSeq(<<x>>) = x /\ FlattenSeq(<<y>>) = y
  <2>1. FlattenSeq(<<x>>) = <<x>>[1] \o FlattenSeq(Tail(<<x>>))
    BY <1>2, FlattenCons DEF Q
  <2>2. FlattenSeq(<<y>>) = <<y>>[1] \o FlattenSeq(Tail(<<y>>))
    BY <1>2, FlattenCons DEF Q
  <2> QED
    BY <1>2, <1>3, <1>4, <2>1, <2>2
<1>6. FlattenSeq(<<x, y>>) = <<x, y>>[1] \o FlattenSeq(Tail(<<x, y>>))
  BY <1>2, FlattenCons DEF Q
<1> QED
  BY <1>2, <1>3, <1>5, <1>6

Strs(fields) == [i \in DOMAIN fields |-> PackString(fields[i])]

\* The three shapes of a message's content.
LEMMA MessageContent ==
  ASSUME NEW t, NEW f \in Seq(Seq(Byte)), Len(f) \in 0 .. 2
  PROVE  LET c == PackMessage([type |-> t, fields |-> f])
         IN  /\ Len(f) = 0 => c = <<t>>
             /\ Len(f) = 1 => c = <<t>> \o PackString(f[1])
             /\ Len(f) = 2 => c = <<t>> \o (PackString(f[1]) \o PackString(f[2]))
<1> DEFINE m == [type |-> t, fields |-> f]
           c == PackMessage(m)
           Q == Seq(Byte)
<1>1. f \in Seq(Q) /\ \A s \in Q : PackString(s) \in Seq(Nat)
  BY PackStringFacts
<1>2. c = <<t>> \o FlattenSeq(Strs(f))
  BY DEF PackMessage, Strs
<1>3. DOMAIN f = 1 .. Len(f) /\ \A i \in 1 .. Len(f) : f[i] \in Q
  <2> HIDE DEF Q
  <2> QED
    BY <1>1, SeqFacts
<1> HIDE DEF Q, c
<1>4. CASE Len(f) = 0
  <2>1. Strs(f) = <<>>
    BY <1>3, <1>4 DEF Strs
  <2>2. FlattenSeq(Strs(f)) = <<>>
    BY <2>1 DEF FlattenSeq
  <2>3. <<t>> \o <<>> = <<t>>
    OBVIOUS
  <2> QED
    BY <1>2, <1>4, <2>2, <2>3 DEF c
<1>5. CASE Len(f) = 1
  <2> DEFINE x == PackString(f[1])
  <2>1. x \in Seq(Nat)
    BY <1>1, <1>3, <1>5
  <2>2. Strs(f) = <<x>>
    BY <1>3, <1>5 DEF Strs
  <2> HIDE DEF x
  <2>3. FlattenSeq(Strs(f)) = x
    BY <2>1, <2>2, FlattenFew
  <2> QED
    BY <1>2, <1>5, <2>3 DEF c, x
<1>6. CASE Len(f) = 2
  <2> DEFINE x == PackString(f[1])
             y == PackString(f[2])
  <2>1. x \in Seq(Nat) /\ y \in Seq(Nat)
    BY <1>1, <1>3, <1>6
  <2>2. Strs(f) = <<x, y>>
    BY <1>3, <1>6 DEF Strs
  <2> HIDE DEF x, y
  <2>3. FlattenSeq(Strs(f)) = x \o y
    BY <2>1, <2>2, FlattenFew
  <2> QED
    BY <1>2, <1>6, <2>3 DEF c, x, y
<1> QED
  BY <1>4, <1>5, <1>6 DEF c

LEMMA FieldCounts == \A t \in 0 .. 5 : FieldCount[t] \in 0 .. 2
BY DEF FieldCount

LEMMA UnpackNone ==
  ASSUME NEW b, b # <<>>, b[1] \in 0 .. 5, FieldCount[b[1]] = 0
  PROVE  Unpack(b) = [type |-> b[1], fields |-> <<>>]
<1> DEFINE x == StringAt(b, 1)
           y == StringAt(b, x.end)
           s == SubSeq(<<x, y>>, 1, FieldCount[b[1]])
<1>1. s = <<>>
  <2>1. SubSeq(<<x, y>>, 1, 0) = <<>>
    BY SubSeqEmpty
  <2> QED
    BY <2>1
<1>2. Unpack(b) = IF \E i \in DOMAIN s : s[i].end = -1 THEN Thrown
                  ELSE [type |-> b[1], fields |-> [i \in DOMAIN s |-> s[i].str]]
  BY DEF Unpack
<1> HIDE DEF s
<1>3. DOMAIN s = {} /\ [i \in DOMAIN s |-> s[i].str] = <<>>
  BY <1>1
<1> QED
  BY <1>2, <1>3

LEMMA UnpackOne ==
  ASSUME NEW b, b # <<>>, b[1] \in 0 .. 5, FieldCount[b[1]] = 1, StringAt(b, 1).end # -1
  PROVE  Unpack(b) = [type |-> b[1], fields |-> <<StringAt(b, 1).str>>]
<1> DEFINE x == StringAt(b, 1)
           y == StringAt(b, x.end)
           xy == <<x, y>>
           s == SubSeq(xy, 1, FieldCount[b[1]])
<1>1. s = <<x>>
  <2> HIDE DEF x, y
  <2>1. xy \in Seq({x, y}) /\ 1 \in 1 .. Len(xy) /\ xy[1] = x
    OBVIOUS
  <2> HIDE DEF xy
  <2>2. SubSeq(xy, 1, 1) = <<xy[1]>> \o SubSeq(xy, 1 + 1, 1)
    BY <2>1, SubSeqRecursiveFirst
  <2>3. SubSeq(xy, 1 + 1, 1) = <<>> /\ <<x>> \o <<>> = <<x>>
    BY SubSeqEmpty
  <2>4. SubSeq(xy, 1, 1) = <<x>>
    BY <2>1, <2>2, <2>3
  <2> QED
    BY <2>4
<1>2. Unpack(b) = IF \E i \in DOMAIN s : s[i].end = -1 THEN Thrown
                  ELSE [type |-> b[1], fields |-> [i \in DOMAIN s |-> s[i].str]]
  BY DEF Unpack
<1> HIDE DEF s, x
<1>3. DOMAIN s = {1} /\ s[1] = x /\ [i \in DOMAIN s |-> s[i].str] = <<x.str>>
  BY <1>1
<1> QED
  BY <1>2, <1>3 DEF x

LEMMA UnpackTwo ==
  ASSUME NEW b, b # <<>>, b[1] \in 0 .. 5, FieldCount[b[1]] = 2, NEW x, NEW y,
         x = StringAt(b, 1), y = StringAt(b, x.end), x.end # -1, y.end # -1
  PROVE  Unpack(b) = [type |-> b[1], fields |-> <<x.str, y.str>>]
<1> DEFINE xy == <<x, y>>
           s == SubSeq(xy, 1, FieldCount[b[1]])
<1>1. s = <<x, y>>
  <2>1. xy \in Seq({x, y}) /\ Len(xy) = 2
    OBVIOUS
  <2> HIDE DEF xy
  <2>2. SubSeq(xy, 1, 2) = xy
    BY <2>1, SubSeqFull
  <2> QED
    BY <2>2 DEF xy
<1>2. Unpack(b) = IF \E i \in DOMAIN s : s[i].end = -1 THEN Thrown
                  ELSE [type |-> b[1], fields |-> [i \in DOMAIN s |-> s[i].str]]
  BY DEF Unpack
<1> HIDE DEF s
<1>3. DOMAIN s = {1, 2} /\ s[1] = x /\ s[2] = y /\ [i \in DOMAIN s |-> s[i].str] = <<x.str, y.str>>
  BY <1>1
<1> QED
  BY <1>2, <1>3

LEMMA TypedContent ==
  ASSUME NEW t \in 0 .. 5, NEW x \in Seq(Byte)
  PROVE  /\ <<t>> \o x \in Seq(Byte) /\ Len(<<t>> \o x) = 1 + Len(x)
         /\ <<t>> \o x # <<>> /\ (<<t>> \o x)[1] = t /\ At(<<t>> \o x, 1, x)
<1> DEFINE h == <<t>>
           c == h \o x
<1>1. t \in Byte
  BY DEF Byte
<1>2. h \in Seq(Byte) /\ Len(h) = 1 /\ h[1] = t
  BY <1>1, Tuples
<1> HIDE DEF h
<1>3. /\ c \in Seq(Byte) /\ Len(c) = Len(h) + Len(x)
      /\ \A i \in 1 .. Len(h) : c[i] = h[i]
      /\ \A i \in 1 .. Len(x) : c[Len(h) + i] = x[i]
  <2>1. h \in Seq(Byte)
    BY <1>2
  <2> QED
    BY <2>1, CatFacts
<1>4. Len(x) \in Nat
  BY SeqFacts
<1> HIDE DEF c
<1>5. Len(c) = 1 + Len(x) /\ c[1] = t /\ At(c, 1, x)
  BY <1>2, <1>3, <1>4 DEF At
<1>6. c # <<>>
  BY <1>3, <1>4, <1>5, EmptySeq
<1> QED
  BY <1>3, <1>5, <1>6 DEF c, h

\* Message::pack and Message::unpack, for a message whose content is not too long.
LEMMA UnpackPack ==
  ASSUME NEW t \in 0 .. 5, NEW f \in Seq(Seq(Byte)), Len(f) = FieldCount[t],
         Len(PackMessage([type |-> t, fields |-> f])) <= 255
  PROVE  LET c == PackMessage([type |-> t, fields |-> f])
         IN  c \in Seq(Byte) /\ Unpack(c) = [type |-> t, fields |-> f]
<1> DEFINE m == [type |-> t, fields |-> f]
           c == PackMessage(m)
           Q == Seq(Byte)
<1>1. Len(f) \in 0 .. 2
  BY FieldCounts
<1>2. /\ Len(f) = 0 => c = <<t>>
      /\ Len(f) = 1 => c = <<t>> \o PackString(f[1])
      /\ Len(f) = 2 => c = <<t>> \o (PackString(f[1]) \o PackString(f[2]))
  BY <1>1, MessageContent
<1>3. f \in Seq(Q) /\ DOMAIN f = 1 .. Len(f) /\ \A i \in 1 .. Len(f) : f[i] \in Q
  <2>1. f \in Seq(Q)
    OBVIOUS
  <2> HIDE DEF Q
  <2> QED
    BY <2>1, SeqFacts
<1>4. Len(c) <= 255
  OBVIOUS
<1> HIDE DEF c
<1> USE DEF Q
<1>5. CASE Len(f) = 0
  <2>1. c = <<t>> \o <<>> /\ <<>> \in Seq(Byte)
    BY <1>2, <1>5
  <2>2. c \in Seq(Byte) /\ c # <<>> /\ c[1] = t
    BY <2>1, TypedContent
  <2>3. Unpack(c) = [type |-> t, fields |-> <<>>]
    BY <1>5, <2>2, UnpackNone
  <2>4. f = <<>>
    BY <1>5, EmptySeq
  <2> QED
    BY <2>2, <2>3, <2>4 DEF c
<1>6. CASE Len(f) = 1
  <2> DEFINE s == f[1]
             x == PackString(s)
  <2>1. s \in Seq(Byte) /\ c = <<t>> \o x
    BY <1>2, <1>3, <1>6
  <2> HIDE DEF s
  <2>2. x \in Seq(Nat) /\ Len(s) <= Len(x) /\ (Len(s) <= 255 => x \in Seq(Byte)) /\ Len(s) \in Nat /\ Len(x) \in Nat
    BY <2>1, PackStringFacts, SeqFacts
  <2> HIDE DEF x
  <2>3. Len(s) <= 255
    <3>1. t \in Nat /\ <<t>> \in Seq(Nat) /\ Len(<<t>>) = 1
      OBVIOUS
    <3> DEFINE h == <<t>>
    <3>2. h \in Seq(Nat) /\ Len(h) = 1
      BY <3>1
    <3> HIDE DEF h
    <3>3. Len(h \o x) = 1 + Len(x)
      <4>1. h \in Seq(Nat) /\ x \in Seq(Nat)
        BY <2>2, <3>2
      <4>2. Len(h \o x) = Len(h) + Len(x)
        BY <4>1, CatFacts
      <4> QED
        BY <3>2, <4>2
    <3> QED
      BY <1>4, <2>1, <2>2, <3>3 DEF h
  <2>4. c \in Seq(Byte) /\ c # <<>> /\ c[1] = t /\ At(c, 1, x)
    BY <2>1, <2>2, <2>3, TypedContent
  <2>5. StringAt(c, 1) = [str |-> s, end |-> 1 + Len(x)]
    BY <2>1, <2>3, <2>4, StringBack DEF x
  <2>6. Unpack(c) = [type |-> c[1], fields |-> <<StringAt(c, 1).str>>]
    <3>1. StringAt(c, 1).end # -1
      BY <2>2, <2>5
    <3> QED
      BY <1>6, <2>4, <3>1, UnpackOne
  <2>7. f = <<s>>
    BY <1>3, <1>6 DEF s
  <2>8. Unpack(c) = [type |-> t, fields |-> f]
    BY <2>4, <2>5, <2>6, <2>7
  <2> QED
    BY <2>4, <2>8 DEF c
<1>7. CASE Len(f) = 2
  <2> DEFINE s == f[1]
             u == f[2]
             x == PackString(s)
             y == PackString(u)
             xy == x \o y
  <2>1. s \in Seq(Byte) /\ u \in Seq(Byte) /\ c = <<t>> \o xy
    BY <1>2, <1>3, <1>7, SMTT(30)
  <2> HIDE DEF s, u
  <2>2. x \in Seq(Nat) /\ Len(s) <= Len(x) /\ (Len(s) <= 255 => x \in Seq(Byte)) /\ Len(s) \in Nat /\ Len(x) \in Nat
    BY <2>1, PackStringFacts, SeqFacts
  <2>3. y \in Seq(Nat) /\ Len(u) <= Len(y) /\ (Len(u) <= 255 => y \in Seq(Byte)) /\ Len(u) \in Nat /\ Len(y) \in Nat
    BY <2>1, PackStringFacts, SeqFacts
  <2> HIDE DEF x, y
  <2>4. xy \in Seq(Nat) /\ Len(xy) = Len(x) + Len(y)
    BY <2>2, <2>3, CatFacts
  <2> HIDE DEF xy
  <2>5. Len(s) <= 255 /\ Len(u) <= 255
    <3> DEFINE h == <<t>>
    <3>2. h \in Seq(Nat) /\ Len(h) = 1
      OBVIOUS
    <3> HIDE DEF h
    <3>3. Len(h \o xy) = 1 + Len(xy)
      <4>1. h \in Seq(Nat) /\ xy \in Seq(Nat)
        BY <2>4, <3>2
      <4>2. Len(h \o xy) = Len(h) + Len(xy)
        BY <4>1, CatFacts
      <4> QED
        BY <3>2, <4>2
    <3>4. 1 + Len(xy) <= 255
      BY <1>4, <2>1, <3>3 DEF h
    <3> QED
      BY <2>2, <2>3, <2>4, <3>4
  <2>6. x \in Seq(Byte) /\ y \in Seq(Byte)
    BY <2>2, <2>3, <2>5
  <2>7. xy \in Seq(Byte)
    BY <2>6, CatFacts DEF xy
  <2>8. c \in Seq(Byte) /\ c # <<>> /\ c[1] = t /\ At(c, 1, xy)
    BY <2>1, <2>7, TypedContent
  <2>9. At(c, 1, x) /\ At(c, 1 + Len(x), y)
    BY <2>6, <2>8, AtCat DEF xy
  <2> DEFINE o == 1 + Len(x)
  <2>10. o \in Nat /\ o # -1 /\ o + Len(y) # -1
    BY <2>2, <2>3, SMTT(30)
  <2>11. StringAt(c, 1) = [str |-> s, end |-> o]
    BY <2>1, <2>5, <2>8, <2>9, StringBack DEF x
  <2> HIDE DEF o
  <2>12. StringAt(c, o) = [str |-> u, end |-> o + Len(y)]
    BY <2>1, <2>5, <2>8, <2>9, <2>10, StringBack DEF y, o
  <2> DEFINE a == [str |-> s, end |-> o]
             b == [str |-> u, end |-> o + Len(y)]
  <2>13. a = StringAt(c, 1) /\ b = StringAt(c, a.end) /\ a.end # -1 /\ b.end # -1 /\ a.str = s /\ b.str = u
    BY <2>10, <2>11, <2>12
  <2> HIDE DEF a, b
  <2>14. Unpack(c) = [type |-> c[1], fields |-> <<a.str, b.str>>]
    BY <1>7, <2>8, <2>13, UnpackTwo
  <2>15. f = <<s, u>>
    BY <1>3, <1>7 DEF s, u
  <2>16. Unpack(c) = [type |-> t, fields |-> f]
    BY <2>8, <2>13, <2>14, <2>15
  <2> QED
    BY <2>8, <2>16 DEF c
<1> QED
  BY <1>1, <1>5, <1>6, <1>7

\* Packing and unpacking give every sendable message back, in both codecs, and so
\* does the copy that is made whenever a message is handed on.
THEOREM RoundTrip ==
  ASSUME NEW codec \in Codecs, NEW m, Sendable(codec, m)
  PROVE  /\ Content(codec, m) \in Seq(Byte) /\ Len(Content(codec, m)) \in Byte
         /\ Decode(codec, Content(codec, m)) = m /\ m # Thrown
         /\ Copy(codec, m) = m
<1> DEFINE c == Content(codec, m)
           t == m.type
           f == m.fields
<1>00. \A n \in Nat : n <= 255 => n \in Byte
  BY DEF Byte
<1>0. Len(c) <= 255
  BY DEF Sendable
<1>1. m = [type |-> t, fields |-> f] /\ f \in Seq(Seq(Byte)) /\ Len(c) <= 255
  BY DEF Sendable
<1>2. CASE codec = "command"
  <2>1. t \in Letters /\ Len(f) = 1
    BY <1>2 DEF Sendable
  <2> DEFINE s == f[1]
             Q == Seq(Byte)
             h == <<t>>
  <2>2. s \in Q /\ f = <<s>>
    <3>1. f \in Seq(Q)
      BY <1>1
    <3> HIDE DEF Q
    <3>2. DOMAIN f = 1 .. Len(f) /\ f[1] \in Q
      BY <2>1, <3>1, SeqFacts
    <3> QED
      BY <2>1, <3>1, <3>2
  <2>3. c = h \o s
    BY <1>2 DEF Content, PackCommand
  <2>4. t \in Byte /\ h \in Seq(Byte) /\ Len(h) = 1 /\ h[1] = t
    <3>1. t \in Byte
      BY <2>1 DEF Letters, Byte
    <3> QED
      BY <3>1, Tuples
  <2> HIDE DEF s, h, c
  <2>5. c \in Seq(Byte) /\ c[1] = t /\ Len(c) = 1 + Len(s) /\ Len(c) \in Nat /\ Len(s) \in Nat
    BY <2>2, <2>3, <2>4, CatFacts, SeqFacts
  <2>6. c # <<>>
    BY <2>5, EmptySeq
  <2>7. Tail(c) = s
    <3>1. Tail(c) = SubSeq(c, 2, Len(c))
      BY <2>5, <2>6, TailIsSubSeq
    <3>2. Drop(c, 1) = s
      <4>1. h \in Seq(Byte) /\ s \in Seq(Byte)
        BY <2>2, <2>4
      <4>2. Drop(h \o s, Len(h)) = s
        BY <4>1, DropAll
      <4> QED
        BY <2>3, <2>4, <4>2
    <3> QED
      BY <3>1, <3>2 DEF Drop
  <2>8. Decode(codec, c) = [type |-> t, fields |-> <<s>>]
    BY <1>2, <2>1, <2>5, <2>6, <2>7 DEF Decode, ParseCommand
  <2>9. Copy(codec, m) = m
    BY <1>2 DEF Copy
  <2>10. t # -1
    BY <2>1 DEF Letters
  <2>11. m # Thrown
    BY <2>10 DEF Thrown
  <2>12. Len(c) \in Byte
    BY <1>0, <1>00, <2>5
  <2> QED
    BY <1>1, <2>2, <2>5, <2>8, <2>9, <2>11, <2>12 DEF c
<1>3. CASE codec = "message"
  <2>1. t \in 0 .. 5 /\ Len(f) = FieldCount[t] /\ codec # "command"
    BY <1>3 DEF Sendable
  <2>2. c = PackMessage(m)
    BY <2>1 DEF Content
  <2> DEFINE r == [type |-> t, fields |-> f]
  <2>3. Len(PackMessage(r)) <= 255
    BY <1>1, <2>2
  <2> HIDE DEF t, f, c
  <2>4. PackMessage(r) \in Seq(Byte) /\ Unpack(PackMessage(r)) = r
    BY <1>1, <2>1, <2>3, UnpackPack
  <2>5. c \in Seq(Byte) /\ Unpack(c) = m
    BY <1>1, <2>2, <2>4
  <2>6. Decode(codec, c) = m /\ Copy(codec, m) = m
    BY <2>1, <2>2, <2>5 DEF Decode, Copy
  <2>7. m # Thrown
    <3>1. t # -1
      BY <2>1
    <3> QED
      BY <3>1 DEF Thrown, t
  <2>8. Len(c) \in Byte
    <3>1. Len(c) \in Nat
      BY <2>5, SeqFacts
    <3> QED
      BY <1>0, <1>00, <3>1
  <2> QED
    BY <2>5, <2>6, <2>7, <2>8 DEF c
<1> QED
  BY <1>2, <1>3 DEF Codecs

(***************************************************************************)
(* Frames.                                                                 *)
(***************************************************************************)

Sync == <<1, 2>>

\* The four pieces of a packet.
LEMMA PacketPieces ==
  ASSUME NEW codec \in Codecs, NEW m, Sendable(codec, m)
  PROVE  LET c == Content(codec, m)
             l == Hex2(Len(c))
             k == Hex2(Checksum(c))
         IN  /\ Sync \in Seq(Byte) /\ l \in Seq(Byte) /\ c \in Seq(Byte) /\ k \in Seq(Byte)
             /\ Len(Sync) = 2 /\ Len(l) = 2 /\ Len(c) \in Nat /\ Len(k) = 2
             /\ SizeOf(l[1], l[2]) = Len(c)
             /\ Pack(codec, m) = ((Sync \o l) \o c) \o k
             /\ Pack(codec, m) \in Seq(Byte) /\ Len(Pack(codec, m)) = Len(c) + 6
<1> DEFINE c == Content(codec, m)
           l == Hex2(Len(c))
           k == Hex2(Checksum(c))
<1>1. c \in Seq(Byte) /\ Len(c) \in Byte
  BY RoundTrip
<1> HIDE DEF c
<1>2. l \in Seq(Byte) /\ Len(l) = 2 /\ SizeOf(l[1], l[2]) = Len(c)
  BY <1>1, Hex2Facts
<1>3. k \in Seq(Byte) /\ Len(k) = 2
  <2>1. Checksum(c) \in Byte
    BY <1>1, ChecksumByte
  <2> QED
    BY <2>1, Hex2Facts
<1>4. Sync \in Seq(Byte) /\ Len(Sync) = 2
  <2>1. 1 \in Byte /\ 2 \in Byte
    BY DEF Byte
  <2> QED
    BY <2>1, Tuples DEF Sync
<1>5. Pack(codec, m) = ((Sync \o l) \o c) \o k
  BY DEF Pack, Sync, c
<1> HIDE DEF l, k
<1> DEFINE x == Sync \o l
           y == x \o c
           z == y \o k
<1>6. x \in Seq(Byte) /\ Len(x) = 4
  <2>1. l \in Seq(Byte)
    BY <1>2
  <2>2. x \in Seq(Byte) /\ Len(x) = Len(Sync) + Len(l)
    BY <1>4, <2>1, CatFacts
  <2> QED
    BY <1>2, <1>4, <2>2
<1> HIDE DEF x
<1>7. y \in Seq(Byte) /\ Len(y) = Len(x) + Len(c)
  BY <1>1, <1>6, CatFacts
<1> HIDE DEF y
<1>8. z \in Seq(Byte) /\ Len(z) = Len(y) + Len(k)
  BY <1>3, <1>7, CatFacts, ZenonT(30)
<1>9. Len(c) \in Nat
  BY <1>1, SeqFacts
<1>10. Len(z) = Len(c) + 6
  BY <1>3, <1>6, <1>7, <1>8, <1>9
<1>11. Pack(codec, m) = z
  BY <1>5 DEF y, x
<1> HIDE DEF z
<1>12. Pack(codec, m) \in Seq(Byte) /\ Len(Pack(codec, m)) = Len(c) + 6
  BY <1>8, <1>10, <1>11
<1> QED
  BY <1>1, <1>2, <1>3, <1>4, <1>5, <1>9, <1>12 DEF c, l, k

\* A complete frame is taken for what it is.
LEMMA CompleteRead ==
  ASSUME NEW codec \in Codecs, NEW m, Sendable(codec, m),
         NEW b \in Seq(Byte), NEW o \in Nat, At(b, o, Pack(codec, m))
  PROVE  SyncRead(codec, b, o) = [code |-> "PARSE_OK", msg |-> m, end |-> o + Len(Pack(codec, m))]
<1> DEFINE c == Content(codec, m)
           l == Hex2(Len(c))
           k == Hex2(Checksum(c))
           x == Sync \o l
           y == x \o c
           n == Len(c)
<1>1. /\ l \in Seq(Byte) /\ c \in Seq(Byte) /\ k \in Seq(Byte) /\ Sync \in Seq(Byte)
      /\ Len(Sync) = 2 /\ Len(l) = 2 /\ n \in Nat /\ Len(k) = 2
      /\ SizeOf(l[1], l[2]) = n
      /\ Pack(codec, m) = y \o k /\ Len(Pack(codec, m)) = n + 6
  BY PacketPieces
<1>2. Decode(codec, c) = m /\ m # Thrown
  BY RoundTrip
<1>3. Len(b) \in Nat
  BY SeqFacts
<1>4. k = Hex2(Checksum(c))
  OBVIOUS
<1> HIDE DEF c, l, k
<1>5. l \in Seq(Byte) /\ c \in Seq(Byte) /\ k \in Seq(Byte) /\ Sync \in Seq(Byte)
  BY <1>1
<1>6. x \in Seq(Byte) /\ Len(x) = Len(Sync) + Len(l)
  BY <1>5, CatFacts
<1>7. At(b, o, y \o k)
  BY <1>1
<1> HIDE DEF x
<1>8. y \in Seq(Byte) /\ Len(y) = Len(x) + Len(c)
  BY <1>5, <1>6, CatFacts
<1> HIDE DEF y
<1>9. At(b, o, y) /\ At(b, o + Len(y), k)
  BY <1>5, <1>7, <1>8, AtCat
<1>10. At(b, o, x) /\ At(b, o + Len(x), c)
  BY <1>5, <1>6, <1>9, AtCat DEF y
<1>11. At(b, o, Sync) /\ At(b, o + Len(Sync), l)
  BY <1>5, <1>10, AtCat DEF x
<1> DEFINE o2 == o + 2
           o4 == o2 + 2
           on == o4 + n
<1>12. /\ o + Len(x) = o4 /\ o + Len(y) = on /\ o + Len(Sync) = o2
       /\ o2 \in Nat /\ o4 \in Nat /\ on \in Nat /\ on + 2 = o + Len(Pack(codec, m))
  BY <1>1, <1>6, <1>8
<1>13. At(b, on, k) /\ At(b, o4, c) /\ At(b, o2, l)
  BY <1>9, <1>10, <1>11, <1>12
<1> HIDE DEF on, o4, o2
<1>14. SubSeq(b, on + 1, on + 2) = k
  BY <1>1, <1>5, <1>12, <1>13, AtIs
<1>15. SubSeq(b, o4 + 1, o4 + n) = c
  BY <1>5, <1>12, <1>13, AtIs
<1>16. SubSeq(b, o + 1, o + 2) = Sync
  BY <1>1, <1>5, <1>11, AtIs
<1>17. b[o2 + 1] = l[1] /\ b[o2 + 2] = l[2]
  BY <1>1, <1>13 DEF At
<1>18. ~(Len(b) - o < 2) /\ ~(Len(b) - o2 < 2) /\ ~(Len(b) - o4 < n) /\ ~(Len(b) - on < 2)
  <2>1. on + 2 <= Len(b) /\ on = o4 + n /\ o4 = o2 + 2 /\ o2 = o + 2
    BY <1>1, <1>13 DEF At, on, o4, o2
  <2> QED
    BY <1>1, <1>3, <1>12, <2>1
<1>19. ChecksumRead(codec, b, on, c) = [code |-> "PARSE_OK", msg |-> m, end |-> on + 2]
  BY <1>2, <1>4, <1>14, <1>18 DEF ChecksumRead
<1>20. ContentRead(codec, b, o4, n) = ChecksumRead(codec, b, on, c)
  BY <1>2, <1>15, <1>18 DEF ContentRead, on
<1>21. SizeRead(codec, b, o2) = ContentRead(codec, b, o4, n)
  <2>1. SizeOf(b[o2 + 1], b[o2 + 2]) = n /\ n # -1
    BY <1>1, <1>17
  <2> QED
    BY <1>18, <2>1 DEF SizeRead, o4
<1>22. SyncRead(codec, b, o) = SizeRead(codec, b, o2)
  BY <1>16, <1>18 DEF SyncRead, o2, Sync
<1> QED
  BY <1>12, <1>19, <1>20, <1>21, <1>22

\* As far as b goes it is like p; it ends before p does.
Like(b, o, p) == \A i \in 1 .. Len(p) : o + i <= Len(b) => b[o + i] = p[i]
Begun(b, o, p) == o < Len(b) /\ Len(b) < o + Len(p) /\ Like(b, o, p)

\* A packet, byte by byte.
LEMMA PacketBytes ==
  ASSUME NEW codec \in Codecs, NEW m, Sendable(codec, m)
  PROVE  LET c == Content(codec, m)
             p == Pack(codec, m)
         IN  /\ p \in Seq(Byte) /\ c \in Seq(Byte) /\ Len(c) \in Nat /\ Len(p) = Len(c) + 6
             /\ p[1] = 1 /\ p[2] = 2 /\ SizeOf(p[3], p[4]) = Len(c)
             /\ \A i \in 1 .. Len(c) : p[4 + i] = c[i]
             /\ At(p, Len(c) + 4, Hex2(Checksum(c)))
<1> DEFINE c == Content(codec, m)
           p == Pack(codec, m)
           l == Hex2(Len(c))
           k == Hex2(Checksum(c))
           x == Sync \o l
           y == x \o c
<1>1. /\ l \in Seq(Byte) /\ c \in Seq(Byte) /\ k \in Seq(Byte) /\ Sync \in Seq(Byte)
      /\ Len(Sync) = 2 /\ Len(l) = 2 /\ Len(c) \in Nat /\ Len(k) = 2
      /\ SizeOf(l[1], l[2]) = Len(c)
      /\ p = y \o k /\ p \in Seq(Byte) /\ Len(p) = Len(c) + 6
  BY PacketPieces
<1> HIDE DEF c, l, k, p
<1>5. l \in Seq(Byte) /\ c \in Seq(Byte) /\ k \in Seq(Byte) /\ Sync \in Seq(Byte) /\ p \in Seq(Byte)
  BY <1>1
<1>6. x \in Seq(Byte) /\ Len(x) = Len(Sync) + Len(l)
  BY <1>5, CatFacts
<1> HIDE DEF x
<1>8. y \in Seq(Byte) /\ Len(y) = Len(x) + Len(c)
  BY <1>5, <1>6, CatFacts
<1> HIDE DEF y
<1>2. At(p, 0, p)
  BY <1>1 DEF At
<1>7. At(p, 0, y \o k)
  BY <1>1, <1>2
<1>9. At(p, 0, y) /\ At(p, 0 + Len(y), k)
  BY <1>5, <1>7, <1>8, AtCat
<1>10. At(p, 0, x) /\ At(p, 0 + Len(x), c)
  BY <1>5, <1>6, <1>9, AtCat DEF y
<1>11. At(p, 0, Sync) /\ At(p, 0 + Len(Sync), l)
  BY <1>5, <1>10, AtCat DEF x
<1>12. 0 + Len(x) = 4 /\ 0 + Len(y) = Len(c) + 4 /\ 0 + Len(Sync) = 2
  BY <1>1, <1>6, <1>8
<1>13. At(p, 4, c) /\ At(p, Len(c) + 4, k) /\ At(p, 2, l)
  BY <1>9, <1>10, <1>11, <1>12
<1>14. p[1] = 1 /\ p[2] = 2
  <2>1. p[0 + 1] = Sync[1] /\ p[0 + 2] = Sync[2]
    BY <1>1, <1>11, SMTT(30) DEF At
  <2> QED
    BY <2>1 DEF Sync
<1>15. p[3] = l[1] /\ p[4] = l[2]
  <2>1. p[2 + 1] = l[1] /\ p[2 + 2] = l[2]
    BY <1>1, <1>13 DEF At
  <2> QED
    BY <2>1
<1>16. \A i \in 1 .. Len(c) : p[4 + i] = c[i]
  BY <1>13 DEF At
<1> QED
  BY <1>1, <1>13, <1>14, <1>15, <1>16 DEF c, p, k

\* Of a frame that is not complete more is wanted.
LEMMA PartialRead ==
  ASSUME NEW codec \in Codecs, NEW m, Sendable(codec, m),
         NEW b \in Seq(Byte), NEW o \in Nat, Begun(b, o, Pack(codec, m))
  PROVE  SyncRead(codec, b, o) = Code("NOT_ENOUGH")
<1> DEFINE c == Content(codec, m)
           p == Pack(codec, m)
           n == Len(c)
           o2 == o + 2
           o4 == o2 + 2
           on == o4 + n
<1>1. /\ n \in Nat /\ Len(p) = n + 6
      /\ p[1] = 1 /\ p[2] = 2 /\ SizeOf(p[3], p[4]) = n
      /\ \A i \in 1 .. n : p[4 + i] = c[i]
  BY PacketBytes
<1>2. Decode(codec, c) = m /\ m # Thrown /\ c \in Seq(Byte)
  BY RoundTrip
<1>3. Len(b) \in Nat
  BY SeqFacts
<1>4. /\ o < Len(b) /\ Len(b) < o + Len(p)
      /\ \A i \in 1 .. Len(p) : o + i <= Len(b) => b[o + i] = p[i]
  BY DEF Begun, Like
<1> HIDE DEF c, p
<1>5. CASE Len(b) - o < 2
  BY <1>5 DEF SyncRead
<1>6. CASE ~(Len(b) - o < 2)
  <2>1. b[o + 1] = 1 /\ b[o + 2] = 2
    BY <1>1, <1>3, <1>4, <1>6
  <2>2. SubSeq(b, o + 1, o + 2) = <<1, 2>>
    <3>1. Sync \in Seq(Byte) /\ Len(Sync) = 2 /\ Sync[1] = 1 /\ Sync[2] = 2
      BY DEF Sync, Byte
    <3>2. At(b, o, Sync)
      BY <1>3, <1>6, <2>1, <3>1 DEF At
    <3>3. SubSeq(b, o + 1, o + Len(Sync)) = Sync
      BY <3>1, <3>2, AtIs
    <3> QED
      BY <3>1, <3>3 DEF Sync
  <2>3. SyncRead(codec, b, o) = SizeRead(codec, b, o2)
    BY <1>6, <2>2 DEF SyncRead
  <2>4. CASE Len(b) - o2 < 2
    <3> HIDE DEF o2
    <3> QED
      BY <2>3, <2>4 DEF SizeRead
  <2>5. CASE ~(Len(b) - o2 < 2)
    <3>1. b[o2 + 1] = p[3] /\ b[o2 + 2] = p[4]
      <4>1. o2 + 1 = o + 3 /\ o2 + 2 = o + 4 /\ o + 3 <= Len(b) /\ o + 4 <= Len(b)
        BY <1>3, <2>5
      <4>2. b[o + 3] = p[3] /\ b[o + 4] = p[4]
        BY <1>1, <1>4, <4>1
      <4> QED
        BY <4>1, <4>2
    <3>2. SizeOf(b[o2 + 1], b[o2 + 2]) = n /\ n # -1
      BY <1>1, <3>1
    <3>3. SizeRead(codec, b, o2) = ContentRead(codec, b, o4, n)
      <4> HIDE DEF o2, n
      <4> QED
        BY <2>5, <3>2 DEF SizeRead
    <3>4. CASE Len(b) - o4 < n
      <4> HIDE DEF o2, o4, n
      <4> QED
        BY <2>3, <3>3, <3>4 DEF ContentRead
    <3>5. CASE ~(Len(b) - o4 < n)
      <4>1. o4 \in Nat /\ o4 = o + 4 /\ on = o4 + n /\ o4 + n <= Len(b)
        BY <1>1, <1>3, <3>5
      <4>2. At(b, o4, c)
        <5>1. ASSUME NEW i \in 1 .. n PROVE b[o4 + i] = c[i]
          <6>1. 4 + i \in 1 .. Len(p) /\ o + (4 + i) = o4 + i /\ o4 + i <= Len(b)
            BY <1>1, <1>3, <4>1
          <6>2. b[o + (4 + i)] = p[4 + i]
            BY <1>4, <6>1
          <6> QED
            BY <1>1, <6>1, <6>2
        <5> QED
          BY <4>1, <5>1 DEF At
      <4>3. SubSeq(b, o4 + 1, o4 + n) = c
        <5> HIDE DEF o4
        <5> QED
          BY <1>2, <4>1, <4>2, AtIs
      <4>4. Len(b) - on < 2
        BY <1>1, <1>3, <1>4
      <4> HIDE DEF o4, n
      <4>5. ContentRead(codec, b, o4, n) = ChecksumRead(codec, b, on, c)
        BY <1>2, <3>5, <4>3 DEF ContentRead
      <4> HIDE DEF on, o2
      <4>6. ChecksumRead(codec, b, on, c) = Code("NOT_ENOUGH")
        BY <4>4 DEF ChecksumRead
      <4> QED
        BY <2>3, <3>3, <4>5, <4>6
    <3> QED
      BY <3>4, <3>5
  <2> QED
    BY <2>4, <2>5
<1> QED
  BY <1>5, <1>6

\* Where no frame can begin, none is found.
LEMMA NoiseRead ==
  ASSUME NEW codec, NEW b \in Seq(Byte), NEW o \in Nat, o < Len(b),
         o + 3 <= Len(b) => b[o + 3] \in Harmless
  PROVE  /\ SyncRead(codec, b, o) \in {Code("NOT_ENOUGH"), Code("BLURP")}
         /\ o + 4 <= Len(b) => SyncRead(codec, b, o) = Code("BLURP")
<1> DEFINE o2 == o + 2
<1>1. Len(b) \in Nat
  BY SeqFacts
<1>2. CASE Len(b) - o < 2
  BY <1>1, <1>2 DEF SyncRead
<1>3. CASE ~(Len(b) - o < 2) /\ SubSeq(b, o + 1, o + 2) # <<1, 2>>
  BY <1>1, <1>3 DEF SyncRead
<1>4. CASE ~(Len(b) - o < 2) /\ SubSeq(b, o + 1, o + 2) = <<1, 2>>
  <2>1. SyncRead(codec, b, o) = SizeRead(codec, b, o2)
    BY <1>4 DEF SyncRead
  <2>2. CASE Len(b) - o2 < 2
    <3>1. ~(o + 4 <= Len(b))
      BY <1>1, <2>2
    <3> HIDE DEF o2
    <3> QED
      BY <2>1, <2>2, <3>1 DEF SizeRead
  <2>3. CASE ~(Len(b) - o2 < 2)
    <3>1. o2 + 1 = o + 3 /\ o + 3 <= Len(b) /\ o2 + 2 \in 1 .. Len(b)
      BY <1>1, <2>3
    <3>2. b[o2 + 1] \in Harmless /\ b[o2 + 2] \in Byte
      BY <3>1, SeqFacts
    <3>3. SizeOf(b[o2 + 1], b[o2 + 2]) = -1
      BY <3>2, HarmlessFacts
    <3> HIDE DEF o2
    <3> QED
      BY <2>1, <2>3, <3>3 DEF SizeRead
  <2> QED
    BY <2>2, <2>3
<1> QED
  BY <1>2, <1>3, <1>4

(***************************************************************************)
(* Parsing.                                                                *)
(***************************************************************************)

Skips(codec, b, o) == SyncRead(codec, b, o).code \in {"BLURP", "BAD_CHECKSUM"}

\* What parse makes of the first offset at which it stops.
LEMMA ParseAt ==
  ASSUME NEW codec, NEW b, NEW f \in 0 .. Len(b) - 1, Len(b) \in Nat,
         ~Skips(codec, b, f), \A o \in 0 .. f - 1 : Skips(codec, b, o)
  PROVE  LET result == SyncRead(codec, b, f)
         IN  Parse(codec, b) =
               IF result.code = "PARSE_OK"
               THEN [code |-> "PARSE_OK", msg |-> result.msg, rest |-> Drop(b, result.end)]
               ELSE [code |-> result.code, rest |-> Drop(b, f)]
<1> DEFINE stops == {o \in 0 .. Len(b) - 1 : SyncRead(codec, b, o).code \notin {"BLURP", "BAD_CHECKSUM"}}
<1>1. f \in stops /\ \A o \in stops : f <= o
  BY DEF Skips
<1>2. \A x \in stops : (\A y \in stops : x <= y) => x = f
  BY <1>1
<1> HIDE DEF stops
<1>3. Min(stops) = f
  BY <1>1, <1>2 DEF Min
<1>4. stops # {}
  BY <1>1
<1>5. Parse(codec, b) =
        IF SyncRead(codec, b, f).code = "PARSE_OK"
        THEN [code |-> "PARSE_OK", msg |-> SyncRead(codec, b, f).msg,
              rest |-> SubSeq(b, SyncRead(codec, b, f).end + 1, Len(b))]
        ELSE [code |-> SyncRead(codec, b, f).code, rest |-> SubSeq(b, f + 1, Len(b))]
  BY <1>3, <1>4 DEF Parse, stops
<1> QED
  BY <1>5 DEF Drop

LEMMA LastByte ==
  ASSUME NEW codec, NEW b \in Seq(Byte), b # <<>>
  PROVE  Len(b) - 1 \in Nat /\ SyncRead(codec, b, Len(b) - 1) = Code("NOT_ENOUGH")
<1>1. Len(b) \in Nat /\ Len(b) # 0
  BY SeqFacts, EmptySeq
<1>2. Len(b) - (Len(b) - 1) < 2
  BY <1>1
<1> QED
  BY <1>1, <1>2 DEF SyncRead

\* There is a first offset at which parse stops.
LEMMA ParseStops ==
  ASSUME NEW codec, NEW b \in Seq(Byte), b # <<>>
  PROVE  \E f \in 0 .. Len(b) - 1 : ~Skips(codec, b, f) /\ \A o \in 0 .. f - 1 : Skips(codec, b, o)
<1> DEFINE T == {o \in 0 .. Len(b) - 1 : ~Skips(codec, b, o)}
<1>1. Len(b) - 1 \in Nat /\ SyncRead(codec, b, Len(b) - 1) = Code("NOT_ENOUGH")
  BY LastByte
<1>2. Len(b) - 1 \in T
  BY <1>1 DEF Code, Skips
<1>3. T \subseteq Nat
  OBVIOUS
<1> HIDE DEF T
<1>4. PICK f \in T : \A o \in T : f <= o
  BY <1>2, <1>3, NatMin
<1>5. f \in 0 .. Len(b) - 1 /\ ~Skips(codec, b, f)
  BY <1>4 DEF T
<1>6. ASSUME NEW o \in 0 .. f - 1 PROVE Skips(codec, b, o)
  <2>1. o \in 0 .. Len(b) - 1 /\ ~(f <= o)
    BY <1>1, <1>5
  <2> QED
    BY <1>4, <2>1 DEF T
<1> QED
  BY <1>5, <1>6

\* A frame that is taken ends within the bytes.
LEMMA EndInside ==
  ASSUME NEW codec, NEW b \in Seq(Byte), NEW o \in Nat, SyncRead(codec, b, o).code = "PARSE_OK"
  PROVE  SyncRead(codec, b, o).end \in 0 .. Len(b)
<1> DEFINE o2 == o + 2
           o4 == o2 + 2
           n == SizeOf(b[o2 + 1], b[o2 + 2])
           on == o4 + n
           c == SubSeq(b, o4 + 1, o4 + n)
<1>1. Len(b) \in Nat /\ n \in Nat \cup {-1} /\ o2 \in Nat /\ o4 \in Nat
  BY SeqFacts, SizeIsNumber
<1>2. Code("NOT_ENOUGH").code # "PARSE_OK" /\ Code("BLURP").code # "PARSE_OK"
      /\ Code("BAD_CHECKSUM").code # "PARSE_OK" /\ Code("THROW").code # "PARSE_OK"
  BY DEF Code
<1> HIDE DEF n
<1>3. SyncRead(codec, b, o) = SizeRead(codec, b, o2)
  BY <1>2 DEF SyncRead
<1>4. SizeRead(codec, b, o2) = ContentRead(codec, b, o4, n) /\ n # -1
  <2> HIDE DEF o2
  <2> QED
    BY <1>2, <1>3 DEF SizeRead, o4, n
<1>5. ContentRead(codec, b, o4, n) = ChecksumRead(codec, b, on, c)
  <2> HIDE DEF o4
  <2> QED
    BY <1>2, <1>3, <1>4 DEF ContentRead, on, c
<1>6. on \in Nat
  BY <1>1, <1>4
<1> HIDE DEF on, c, o4, o2
<1>7. ~(Len(b) - on < 2) /\ ChecksumRead(codec, b, on, c).end = on + 2
  BY <1>2, <1>3, <1>4, <1>5 DEF ChecksumRead
<1> QED
  BY <1>1, <1>3, <1>4, <1>5, <1>6, <1>7

\* Whatever was read, a part of it is left.
LEMMA ParseRest ==
  ASSUME NEW codec, NEW b \in Seq(Byte), b # <<>>
  PROVE  Parse(codec, b).rest \in Seq(Byte) /\ Len(Parse(codec, b).rest) <= Len(b)
<1>1. PICK f \in 0 .. Len(b) - 1 : ~Skips(codec, b, f) /\ \A o \in 0 .. f - 1 : Skips(codec, b, o)
  BY ParseStops
<1>2. Len(b) \in Nat /\ f \in Nat
  BY SeqFacts
<1> DEFINE result == SyncRead(codec, b, f)
<1>3. Parse(codec, b) =
        IF result.code = "PARSE_OK"
        THEN [code |-> "PARSE_OK", msg |-> result.msg, rest |-> Drop(b, result.end)]
        ELSE [code |-> result.code, rest |-> Drop(b, f)]
  BY <1>1, <1>2, ParseAt
<1>4. result.code = "PARSE_OK" => result.end \in 0 .. Len(b)
  BY <1>2, EndInside
<1> HIDE DEF result
<1>5. PICK g \in 0 .. Len(b) : Parse(codec, b).rest = Drop(b, g)
  <2>1. CASE result.code = "PARSE_OK"
    BY <1>3, <1>4, <2>1
  <2>2. CASE result.code # "PARSE_OK"
    BY <1>2, <1>3, <2>2
  <2> QED
    BY <2>1, <2>2
<1>6. Drop(b, g) \in Seq(Byte) /\ Len(Drop(b, g)) = Len(b) - g
  BY DropFacts
<1> QED
  BY <1>2, <1>5, <1>6

\* No frame can begin at the first z offsets.
Quiet(b, z) == \A o \in Nat : o < z /\ o + 3 <= Len(b) => b[o + 3] \in Harmless

\* protocol::parse takes a packet out of any buffer in which no frame begins before
\* it, as the message that was packed, and drops exactly what is up to its end.
THEOREM ParseFindsFrame ==
  ASSUME NEW codec \in Codecs, NEW m, Sendable(codec, m),
         NEW b \in Seq(Byte), NEW z \in Nat, Quiet(b, z), At(b, z, Pack(codec, m))
  PROVE  Parse(codec, b) = [code |-> "PARSE_OK", msg |-> m, rest |-> Drop(b, z + Len(Pack(codec, m)))]
<1> DEFINE p == Pack(codec, m)
           result == SyncRead(codec, b, z)
<1>1. result = [code |-> "PARSE_OK", msg |-> m, end |-> z + Len(p)]
  BY CompleteRead
<1>2. Len(b) \in Nat /\ Len(p) \in Nat /\ 6 <= Len(p)
  BY SeqFacts, PacketBytes
<1>3. z + Len(p) <= Len(b)
  BY DEF At
<1> HIDE DEF p, result
<1>4. z \in 0 .. Len(b) - 1
  BY <1>2, <1>3
<1>5. ASSUME NEW o \in 0 .. z - 1 PROVE Skips(codec, b, o)
  <2>1. o \in Nat /\ o < Len(b) /\ o + 4 <= Len(b) /\ o + 3 <= Len(b) /\ o < z
    BY <1>2, <1>3
  <2>2. b[o + 3] \in Harmless
    BY <2>1 DEF Quiet
  <2>3. SyncRead(codec, b, o) = Code("BLURP")
    BY <2>1, <2>2, NoiseRead
  <2> QED
    BY <2>3 DEF Skips, Code
<1>6. result.code = "PARSE_OK" /\ result.msg = m /\ result.end = z + Len(p)
  BY <1>1
<1>7. ~Skips(codec, b, z)
  BY <1>6 DEF Skips, result
<1>8. Parse(codec, b) =
        IF result.code = "PARSE_OK"
        THEN [code |-> "PARSE_OK", msg |-> result.msg, rest |-> Drop(b, result.end)]
        ELSE [code |-> result.code, rest |-> Drop(b, z)]
  BY <1>2, <1>4, <1>5, <1>7, ParseAt DEF result
<1> QED
  BY <1>6, <1>8 DEF p

LEMMA ParseWants ==
  ASSUME NEW codec, NEW b \in Seq(Byte), b # <<>>, NEW z \in Nat, Quiet(b, z),
         z < Len(b) => SyncRead(codec, b, z) = Code("NOT_ENOUGH")
  PROVE  \E f \in 0 .. Len(b) : f <= z /\ Parse(codec, b) = [code |-> "NOT_ENOUGH", rest |-> Drop(b, f)]
<1>1. PICK f \in 0 .. Len(b) - 1 : ~Skips(codec, b, f) /\ \A o \in 0 .. f - 1 : Skips(codec, b, o)
  BY ParseStops
<1>2. Len(b) \in Nat /\ f \in Nat
  BY SeqFacts
<1>3. f <= z
  <2> SUFFICES ASSUME z < f PROVE FALSE
    BY <1>2
  <2>1. z \in 0 .. f - 1 /\ z < Len(b)
    BY <1>2
  <2>2. Skips(codec, b, z) /\ SyncRead(codec, b, z) = Code("NOT_ENOUGH")
    BY <1>1, <2>1
  <2> QED
    BY <2>2 DEF Skips, Code
<1>4. SyncRead(codec, b, f) = Code("NOT_ENOUGH")
  <2>1. CASE f = z
    BY <1>2, <2>1
  <2>2. CASE f < z
    <3>1. f + 3 <= Len(b) => b[f + 3] \in Harmless
      BY <1>2, <2>2 DEF Quiet
    <3>2. f < Len(b)
      BY <1>2
    <3>3. SyncRead(codec, b, f) \in {Code("NOT_ENOUGH"), Code("BLURP")}
      BY <1>2, <3>1, <3>2, NoiseRead
    <3> QED
      BY <1>1, <3>3 DEF Skips, Code
  <2> QED
    BY <1>2, <1>3, <2>1, <2>2
<1>5. Parse(codec, b) = [code |-> "NOT_ENOUGH", rest |-> Drop(b, f)]
  <2>1. SyncRead(codec, b, f).code = "NOT_ENOUGH"
    BY <1>4 DEF Code
  <2>2. Parse(codec, b) =
          IF SyncRead(codec, b, f).code = "PARSE_OK"
          THEN [code |-> "PARSE_OK", msg |-> SyncRead(codec, b, f).msg, rest |-> Drop(b, SyncRead(codec, b, f).end)]
          ELSE [code |-> SyncRead(codec, b, f).code, rest |-> Drop(b, f)]
    BY <1>1, <1>2, ParseAt
  <2> QED
    BY <2>1, <2>2
<1> QED
  BY <1>2, <1>3, <1>5

(***************************************************************************)
(* What a read leaves of the stream.                                       *)
(***************************************************************************)

\* In front of what is harmless, and of a packet, no frame begins.
LEMMA QuietNoise ==
  ASSUME NEW z \in Seq(Harmless), NEW b \in Seq(Byte), NEW w \in Seq(Byte), b \o w = z
  PROVE  Len(b) <= Len(z) /\ Quiet(b, Len(b))
<1>1. Len(b) \in Nat /\ Len(w) \in Nat /\ Len(z) \in Nat
  BY SeqFacts
<1>2. Len(b \o w) = Len(b) + Len(w) /\ \A i \in 1 .. Len(b) : (b \o w)[i] = b[i]
  BY CatFacts
<1>3. \A i \in 1 .. Len(z) : z[i] \in Harmless
  BY SeqFacts
<1>4. Len(b) <= Len(z)
  BY <1>1, <1>2
<1>5. ASSUME NEW o \in Nat, o < Len(b), o + 3 <= Len(b) PROVE b[o + 3] \in Harmless
  <2>1. o + 3 \in 1 .. Len(b) /\ o + 3 \in 1 .. Len(z)
    BY <1>1, <1>4, <1>5
  <2> QED
    BY <1>2, <1>3, <2>1
<1> QED
  BY <1>4, <1>5 DEF Quiet

LEMMA QuietFront ==
  ASSUME NEW z \in Seq(Harmless), NEW p \in Seq(Byte), 6 <= Len(p), p[1] \in Harmless, p[2] \in Harmless,
         NEW h, h = z \o p,
         NEW y \in Seq(Byte), NEW b \in Seq(Byte), NEW w \in Seq(Byte), b \o w = h \o y
  PROVE  /\ Len(b) + Len(w) = Len(z) + Len(p) + Len(y)
         /\ Quiet(b, Len(z))
         /\ Like(b, Len(z), p)
<1>1. /\ Len(b) \in Nat /\ Len(w) \in Nat /\ Len(z) \in Nat /\ Len(p) \in Nat /\ Len(y) \in Nat
      /\ \A i \in 1 .. Len(z) : z[i] \in Harmless
  BY SeqFacts
<1>2. Len(b \o w) = Len(b) + Len(w) /\ \A i \in 1 .. Len(b) : (b \o w)[i] = b[i]
  BY CatFacts, SMTT(30)
<1>3. z \in Seq(Byte)
  <2>1. Harmless \subseteq Byte
    BY HarmlessFacts
  <2> QED
    BY <2>1
<1>4. /\ h \in Seq(Byte) /\ Len(h) = Len(z) + Len(p)
      /\ \A i \in 1 .. Len(z) : h[i] = z[i]
      /\ \A i \in 1 .. Len(p) : h[Len(z) + i] = p[i]
  BY <1>3, CatFacts
<1>6. h \in Seq(Byte)
  BY <1>4
<1>7. Len(h \o y) = Len(h) + Len(y) /\ \A i \in 1 .. Len(h) : (h \o y)[i] = h[i]
  BY <1>6, CatFacts
<1>8. Len(b) + Len(w) = Len(z) + Len(p) + Len(y)
  <2>1. Len(b \o w) = Len(h \o y)
    OBVIOUS
  <2> QED
    BY <1>1, <1>2, <1>4, <1>7, <2>1
<1>9. \A i \in 1 .. Len(b) : i <= Len(h) => b[i] = h[i]
  BY <1>1, <1>2, <1>4, <1>7
<1>10. ASSUME NEW i \in 1 .. Len(p), Len(z) + i <= Len(b) PROVE b[Len(z) + i] = p[i]
  <2>1. Len(z) + i \in 1 .. Len(b) /\ Len(z) + i <= Len(h)
    BY <1>1, <1>4, <1>10
  <2> QED
    BY <1>4, <1>9, <2>1
<1>11. ASSUME NEW o \in Nat, o < Len(z), o + 3 <= Len(b) PROVE b[o + 3] \in Harmless
  <2>1. CASE o + 3 <= Len(z)
    <3>1. o + 3 \in 1 .. Len(z) /\ o + 3 \in 1 .. Len(b) /\ o + 3 <= Len(h)
      BY <1>1, <1>4, <1>11, <2>1
    <3>2. b[o + 3] = h[o + 3] /\ h[o + 3] = z[o + 3]
      BY <1>4, <1>9, <3>1
    <3> QED
      BY <1>1, <3>1, <3>2
  <2>2. CASE o + 3 = Len(z) + 1
    <3>1. 1 \in 1 .. Len(p)
      BY <1>1
    <3>2. b[Len(z) + 1] = p[1]
      BY <1>10, <1>11, <2>2, <3>1
    <3> QED
      BY <2>2, <3>2
  <2>3. CASE o + 3 = Len(z) + 2
    <3>1. 2 \in 1 .. Len(p)
      BY <1>1
    <3>2. b[Len(z) + 2] = p[2]
      BY <1>10, <1>11, <2>3, <3>1
    <3> QED
      BY <2>3, <3>2
  <2>4. o + 3 <= Len(z) \/ o + 3 = Len(z) + 1 \/ o + 3 = Len(z) + 2
    <3> DEFINE n == Len(z)
    <3>1. n \in Nat /\ o < n
      BY <1>1, <1>11
    <3> HIDE DEF n
    <3>2. o + 3 <= n \/ o + 3 = n + 1 \/ o + 3 = n + 2
      BY <3>1
    <3> QED
      BY <3>2 DEF n
  <2> QED
    BY <2>1, <2>2, <2>3, <2>4
<1> QED
  BY <1>8, <1>10, <1>11 DEF Quiet, Like

\* A read of noise leaves noise.
NoiseLeft(result, w) ==
  \E r, z1 \in Seq(Harmless) : result = [code |-> "NOT_ENOUGH", rest |-> r] /\ r \o w = z1

LEMMA ReadNoise ==
  ASSUME NEW codec, NEW z \in Seq(Harmless), NEW b \in Seq(Byte), b # <<>>, NEW w \in Seq(Byte),
         b \o w = z
  PROVE  NoiseLeft(Parse(codec, b), w)
<1>1. Len(b) \in Nat /\ Len(b) <= Len(z) /\ Quiet(b, Len(b))
  BY SeqFacts, QuietNoise
<1>2. PICK f \in 0 .. Len(b) : Parse(codec, b) = [code |-> "NOT_ENOUGH", rest |-> Drop(b, f)]
  BY <1>1, ParseWants
<1>3. Drop(b, f) \o w = Drop(z, f)
  BY DropOfCat
<1>4. f \in 0 .. Len(z)
  BY <1>1, SeqFacts
<1>5. Drop(z, f) \in Seq(Harmless)
  BY <1>4, DropFacts
<1>6. Drop(b, f) \in Seq(Harmless)
  <2>1. Len(w) \in Nat /\ Len(b \o w) = Len(b) + Len(w) /\ \A i \in 1 .. Len(b) : (b \o w)[i] = b[i]
    BY SeqFacts, CatFacts
  <2>2. \A i \in 1 .. Len(z) : z[i] \in Harmless
    BY SeqFacts
  <2>3. \A i \in 1 .. Len(b) : b[i] \in Harmless
    BY <1>1, <2>1, <2>2
  <2>4. b \in Seq(Harmless)
    <3>1. b \in [1 .. Len(b) -> Byte]
      BY LenProperties
    <3>2. b \in [1 .. Len(b) -> Harmless]
      BY <2>3, <3>1
    <3> QED
      BY <1>1, <3>2, FunctionIsSeq
  <2> QED
    BY <2>4, DropFacts
<1> QED
  BY <1>2, <1>3, <1>5, <1>6 DEF NoiseLeft

\* A read of noise and a packet in front of y takes the packet if it is
\* complete, and otherwise no more than noise.
TakesOrWaits(result, w, m, p, z, y) ==
  IF Len(w) <= Len(y)
  THEN result.code = "PARSE_OK" /\ result.msg = m /\ result.rest \o w = y
  ELSE /\ result.code = "NOT_ENOUGH"
       /\ \E z1 \in Seq(Harmless) : result.rest \o w = (z1 \o p) \o y /\ (z = <<>> => z1 = <<>>)

LEMMA ReadFront ==
  ASSUME NEW codec \in Codecs, NEW m, Sendable(codec, m), NEW z \in Seq(Harmless), NEW y \in Seq(Byte),
         NEW b \in Seq(Byte), b # <<>>, NEW w \in Seq(Byte), b \o w = (z \o Pack(codec, m)) \o y
  PROVE  TakesOrWaits(Parse(codec, b), w, m, Pack(codec, m), z, y)
<1> DEFINE p == Pack(codec, m)
           result == Parse(codec, b)
           h == z \o p
<1>1. p \in Seq(Byte) /\ 6 <= Len(p) /\ p[1] = 1 /\ p[2] = 2
  BY PacketBytes
<1>2. /\ Len(b) \in Nat /\ Len(w) \in Nat /\ Len(z) \in Nat /\ Len(p) \in Nat /\ Len(y) \in Nat
  BY <1>1, SeqFacts
<1>0. b \o w = h \o y
  OBVIOUS
<1>3. /\ Len(b) + Len(w) = Len(z) + Len(p) + Len(y)
      /\ Quiet(b, Len(z))
      /\ Like(b, Len(z), p)
  <2>3. h = z \o p
    OBVIOUS
  <2> HIDE DEF p, h
  <2>1. p \in Seq(Byte)
    BY <1>1
  <2>2. 6 <= Len(p) /\ p[1] \in Harmless /\ p[2] \in Harmless
    BY <1>1, HarmlessFacts
  <2>4. Len(b) + Len(w) = Len(z) + Len(p) + Len(y)
    BY <1>0, <2>1, <2>2, <2>3, QuietFront
  <2>5. Quiet(b, Len(z))
    BY <1>0, <2>1, <2>2, <2>3, QuietFront
  <2>6. Like(b, Len(z), p)
    BY <1>0, <2>1, <2>2, <2>3, QuietFront
  <2> QED
    BY <2>4, <2>5, <2>6
<1>4. z \in Seq(Byte)
  <2>1. Harmless \subseteq Byte
    BY HarmlessFacts
  <2> QED
    BY <2>1
<1>5. h \in Seq(Byte) /\ Len(h) = Len(z) + Len(p)
  <2> HIDE DEF p
  <2> QED
    BY <1>1, <1>4, CatFacts
<1>6. CASE Len(w) <= Len(y)
  <2>1. At(b, Len(z), p)
    <3> HIDE DEF p
    <3>1. Len(z) + Len(p) <= Len(b)
      BY <1>2, <1>3, <1>6
    <3>2. \A i \in 1 .. Len(p) : Len(z) + i <= Len(b)
      BY <1>2, <3>1
    <3> QED
      BY <1>3, <3>1, <3>2 DEF At, Like
  <2>2. result = [code |-> "PARSE_OK", msg |-> m, rest |-> Drop(b, Len(z) + Len(p))]
    BY <1>2, <1>3, <2>1, ParseFindsFrame
  <2> HIDE DEF p, result, h
  <2>3. Len(h) \in 0 .. Len(b) /\ Len(h) = Len(z) + Len(p)
    BY <1>2, <1>3, <1>5, <1>6
  <2>4. Drop(b, Len(h)) \o w = Drop(b \o w, Len(h))
    BY <2>3, DropOfCat
  <2>5. Drop(h \o y, Len(h)) = y
    BY <1>5, DropAll
  <2>6. result.code = "PARSE_OK" /\ result.msg = m /\ result.rest \o w = y
    BY <1>0, <2>2, <2>3, <2>4, <2>5
  <2> QED
    BY <1>6, <2>6 DEF result, TakesOrWaits
<1>7. CASE ~(Len(w) <= Len(y))
  <2>1. Len(z) < Len(b) => SyncRead(codec, b, Len(z)) = Code("NOT_ENOUGH")
    <3> SUFFICES ASSUME Len(z) < Len(b) PROVE SyncRead(codec, b, Len(z)) = Code("NOT_ENOUGH")
      OBVIOUS
    <3>1. Begun(b, Len(z), p)
      <4>1. Len(b) < Len(z) + Len(p)
        BY <1>2, <1>3, <1>7
      <4> QED
        BY <1>3, <4>1 DEF Begun
    <3> QED
      BY <1>2, <3>1, PartialRead
  <2>2. PICK f \in 0 .. Len(b) : f <= Len(z) /\ result = [code |-> "NOT_ENOUGH", rest |-> Drop(b, f)]
    BY <1>2, <1>3, <2>1, ParseWants
  <2> HIDE DEF p, result
  <2>3. Drop(b, f) \o w = Drop(b \o w, f)
    BY DropOfCat
  <2>4. f \in 0 .. Len(z) /\ f \in 0 .. Len(h)
    <3> HIDE DEF h
    <3> QED
      BY <1>2, <1>5, <2>2
  <2>5. Drop(h, f) = Drop(z, f) \o p
    BY <1>1, <1>4, <2>4, DropOfCat
  <2>6. Drop(h \o y, f) = Drop(h, f) \o y
    <3> HIDE DEF h
    <3> QED
      BY <1>5, <2>4, DropOfCat
  <2>7. Drop(z, f) \in Seq(Harmless)
    BY <2>4, DropFacts
  <2>8. z = <<>> => Drop(z, f) = <<>>
    <3> SUFFICES ASSUME z = <<>> PROVE Drop(z, f) = <<>>
      OBVIOUS
    <3>1. f = 0 /\ Drop(z, 0) = z
      <4>1. Len(z) = 0
        OBVIOUS
      <4>2. Drop(z, 0) = z
        BY DropAll
      <4> QED
        BY <2>4, <4>1, <4>2
    <3> QED
      BY <3>1
  <2>9. result.code = "NOT_ENOUGH" /\ result.rest \o w = (Drop(z, f) \o p) \o y
    BY <1>0, <2>2, <2>3, <2>5, <2>6
  <2> QED
    BY <1>7, <2>7, <2>8, <2>9 DEF result, p, TakesOrWaits
<1> QED
  BY <1>6, <1>7

(***************************************************************************)
(* The packets of a script.                                                *)
(***************************************************************************)

\* The packets of the messages after the first r, up to the n-th.
Packs(codec, s, r, n) == [i \in 1 .. n - r |-> Pack(codec, s[r + i])]

Frames(codec, s, r, n) == FlattenSeq(Packs(codec, s, r, n))

Script(codec, s) == Len(s) \in Nat /\ \A i \in 1 .. Len(s) : Sendable(codec, s[i])

LEMMA PackIsBytes ==
  ASSUME NEW codec \in Codecs, NEW s, Script(codec, s), NEW i \in 1 .. Len(s)
  PROVE  Sendable(codec, s[i]) /\ Pack(codec, s[i]) \in Seq(Byte)
<1>1. Sendable(codec, s[i])
  BY DEF Script
<1> QED
  BY <1>1, PacketBytes

ArePacks(p, codec, s, r, n) ==
  /\ p \in Seq(Seq(Byte)) /\ Len(p) = n - r
  /\ \A i \in 1 .. n - r : p[i] = Pack(codec, s[r + i])

LEMMA PacksAreSeq ==
  ASSUME NEW codec \in Codecs, NEW s, Script(codec, s),
         NEW r \in Nat, NEW n \in Nat, r <= n, n <= Len(s)
  PROVE  ArePacks(Packs(codec, s, r, n), codec, s, r, n)
<1> DEFINE k == n - r
           packs == [i \in 1 .. k |-> Pack(codec, s[r + i])]
           Q == Seq(Byte)
<1>1. k \in Nat /\ Len(s) \in Nat
  BY DEF Script
<1>2. ASSUME NEW i \in 1 .. k PROVE Pack(codec, s[r + i]) \in Q
  <2>1. r + i \in 1 .. Len(s)
    BY <1>1
  <2> QED
    BY <2>1, PackIsBytes
<1> HIDE DEF k, Q
<1>3. packs \in [1 .. k -> Q]
  BY <1>2
<1>4. packs \in Seq(Q) /\ Len(packs) = k
  <2> HIDE DEF packs
  <2> QED
    BY <1>1, <1>3, FunctionIsSeq
<1>5. Packs(codec, s, r, n) = packs /\ \A i \in 1 .. k : packs[i] = Pack(codec, s[r + i])
  BY DEF Packs, k
<1> QED
  BY <1>4, <1>5 DEF k, Q, ArePacks

LEMMA FramesFacts ==
  ASSUME NEW codec \in Codecs, NEW s, Script(codec, s),
         NEW r \in Nat, NEW n \in Nat, r <= n, n <= Len(s)
  PROVE  Frames(codec, s, r, n) \in Seq(Byte) /\ Frames(codec, s, r, r) = <<>>
<1> DEFINE packs == Packs(codec, s, r, n)
           none == Packs(codec, s, r, r)
<1>1. packs \in Seq(Seq(Byte))
  BY PacksAreSeq DEF ArePacks
<1>2. none = <<>>
  <2>1. none \in Seq(Seq(Byte)) /\ Len(none) = r - r
    <3>1. r <= r /\ r <= Len(s)
      BY DEF Script
    <3> QED
      BY <3>1, PacksAreSeq DEF ArePacks
  <2> HIDE DEF none
  <2> QED
    BY <2>1, EmptySeq
<1> HIDE DEF packs, none
<1>3. FlattenSeq(packs) \in Seq(Byte)
  <2>1. <<>> \in Seq(Byte)
    OBVIOUS
  <2> QED
    BY <1>1, <2>1, FlattenAppend
<1>4. FlattenSeq(none) = <<>>
  <2>1. <<>> \in Seq(Byte)
    OBVIOUS
  <2> QED
    BY <1>1, <1>2, <2>1, FlattenAppend
<1> QED
  BY <1>3, <1>4 DEF Frames, packs, none

\* The first packet, and the others.
LEMMA FramesCons ==
  ASSUME NEW codec \in Codecs, NEW s, Script(codec, s),
         NEW r \in Nat, NEW n \in Nat, r < n, n <= Len(s)
  PROVE  Frames(codec, s, r, n) = Pack(codec, s[r + 1]) \o Frames(codec, s, r + 1, n)
<1> DEFINE packs == Packs(codec, s, r, n)
           q == r + 1
           others == Packs(codec, s, q, n)
           Q == Seq(Byte)
<1>0. q \in Nat /\ q <= n /\ r <= n
  OBVIOUS
<1>1. /\ packs \in Seq(Q) /\ Len(packs) = n - r
      /\ \A i \in 1 .. n - r : packs[i] = Pack(codec, s[r + i])
  <2>1. ArePacks(packs, codec, s, r, n)
    BY <1>0, PacksAreSeq
  <2> QED
    BY <2>1 DEF ArePacks
<1>2. /\ others \in Seq(Q) /\ Len(others) = n - q
      /\ \A i \in 1 .. n - q : others[i] = Pack(codec, s[q + i])
  <2> HIDE DEF q
  <2>1. ArePacks(others, codec, s, q, n)
    BY <1>0, PacksAreSeq
  <2> HIDE DEF others
  <2> QED
    BY <2>1 DEF ArePacks
<1> HIDE DEF packs, others, Q
<1>3. packs[1] = Pack(codec, s[r + 1])
  <2>1. 1 \in 1 .. n - r
    OBVIOUS
  <2> QED
    BY <1>1, <2>1
<1>4. \A i \in 1 .. n - (r + 1) : packs[i + 1] = others[i]
  <2> SUFFICES ASSUME NEW i \in 1 .. n - (r + 1) PROVE packs[i + 1] = others[i]
    OBVIOUS
  <2>1. i + 1 \in 1 .. n - r /\ r + (i + 1) = q + i
    OBVIOUS
  <2>2. packs[i + 1] = Pack(codec, s[r + (i + 1)])
    BY <1>1, <2>1
  <2>3. others[i] = Pack(codec, s[q + i])
    BY <1>2
  <2> HIDE DEF q
  <2> QED
    BY <2>1, <2>2, <2>3
<1>5. packs # <<>>
  BY <1>1, EmptySeq
<1>6. /\ Tail(packs) \in Seq(Q) /\ Len(Tail(packs)) = Len(packs) - 1
      /\ \A i \in 1 .. Len(Tail(packs)) : Tail(packs)[i] = packs[i + 1]
  BY <1>1, <1>5, HeadTailProperties
<1>7. Len(Tail(packs)) = Len(others) /\ \A i \in 1 .. Len(Tail(packs)) : Tail(packs)[i] = others[i]
  BY <1>1, <1>2, <1>4, <1>6
<1>8. Tail(packs) = others
  BY <1>2, <1>6, <1>7, SameSeq
<1>9. FlattenSeq(packs) = packs[1] \o FlattenSeq(Tail(packs))
  BY <1>1, <1>5, FlattenCons DEF Q
<1> QED
  BY <1>3, <1>8, <1>9 DEF Frames, packs, others

\* One more packet at the end.
LEMMA FramesSnoc ==
  ASSUME NEW codec \in Codecs, NEW s, Script(codec, s),
         NEW r \in Nat, NEW n \in Nat, r <= n, n < Len(s)
  PROVE  Frames(codec, s, r, n + 1) = Frames(codec, s, r, n) \o Pack(codec, s[n + 1])
<1> DEFINE m == n + 1
           packs == Packs(codec, s, r, n)
           longer == Packs(codec, s, r, m)
           x == Pack(codec, s[n + 1])
           Q == Seq(Byte)
<1>0. Len(s) \in Nat
  BY DEF Script
<1>1. /\ packs \in Seq(Q) /\ Len(packs) = n - r
      /\ \A i \in 1 .. n - r : packs[i] = Pack(codec, s[r + i])
  <2>1. n <= Len(s)
    BY <1>0
  <2>2. ArePacks(packs, codec, s, r, n)
    BY <2>1, PacksAreSeq
  <2> HIDE DEF packs
  <2> QED
    BY <2>2 DEF ArePacks
<1>2. /\ longer \in Seq(Q) /\ Len(longer) = m - r
      /\ \A i \in 1 .. m - r : longer[i] = Pack(codec, s[r + i])
  <2>1. m \in Nat /\ r <= m /\ m <= Len(s)
    BY <1>0
  <2> HIDE DEF m
  <2>2. ArePacks(longer, codec, s, r, m)
    BY <2>1, PacksAreSeq
  <2> HIDE DEF longer
  <2> QED
    BY <2>2 DEF ArePacks
<1>3. x \in Q
  <2>1. n + 1 \in 1 .. Len(s)
    BY <1>0
  <2> QED
    BY <2>1, PackIsBytes
<1> HIDE DEF packs, longer, Q
<1>4. \A i \in 1 .. n - r : longer[i] = packs[i]
  <2>1. \A i \in 1 .. n - r : i \in 1 .. m - r
    OBVIOUS
  <2> QED
    BY <1>1, <1>2, <2>1
<1>5. longer[(n + 1) - r] = x
  <2>1. (n + 1) - r \in 1 .. m - r /\ r + ((n + 1) - r) = n + 1
    OBVIOUS
  <2>2. longer[(n + 1) - r] = Pack(codec, s[r + ((n + 1) - r)])
    BY <1>2, <2>1
  <2> QED
    BY <2>1, <2>2
<1> HIDE DEF x
<1>6. /\ Append(packs, x) \in Seq(Q) /\ Len(Append(packs, x)) = Len(packs) + 1
      /\ \A i \in 1 .. Len(packs) : Append(packs, x)[i] = packs[i]
      /\ Append(packs, x)[Len(packs) + 1] = x
  BY <1>1, <1>3, AppendProperties
<1>7. Len(longer) = Len(Append(packs, x)) /\ (n + 1) - r = Len(packs) + 1
  BY <1>1, <1>2, <1>6
<1>8. ASSUME NEW i \in 1 .. Len(longer) PROVE longer[i] = Append(packs, x)[i]
  <2>1. CASE i = Len(packs) + 1
    BY <1>5, <1>6, <1>7, <2>1
  <2>2. CASE i \in 1 .. Len(packs)
    BY <1>1, <1>4, <1>6, <2>2
  <2>3. i = Len(packs) + 1 \/ i \in 1 .. Len(packs)
    BY <1>1, <1>2
  <2> QED
    BY <2>1, <2>2, <2>3
<1>9. longer = Append(packs, x)
  BY <1>2, <1>6, <1>7, <1>8, SameSeq
<1>10. FlattenSeq(Append(packs, x)) = FlattenSeq(packs) \o x
  BY <1>1, <1>3, FlattenAppend DEF Q
<1> QED
  BY <1>9, <1>10 DEF Frames, packs, longer, x

(***************************************************************************)
(* The types of the variables, and the steps of the writer.                *)
(***************************************************************************)

IsSeq(s) == \E M : s \in Seq(M)

\* TypeOK with the pieces of packets that wait; and while every packet was
\* written at once nothing waits.
TypeInv ==
  /\ link \in Scenarios
  /\ intact \in 0 .. issued /\ issued \in 0 .. Len(link.script)
  /\ waiting \in Seq(Seq(Byte)) /\ resumed \in Seq(Seq(Byte))
  /\ Len(waiting) + Len(resumed) <= issued
  /\ wire \in Seq(Byte)
  /\ acc \in Seq(Byte)
  /\ Len(wire) <= Max({link.room, Len(link.noise)})
  /\ up \in BOOLEAN
  /\ IsSeq(received)
  /\ Whole => waiting = <<>> /\ resumed = <<>>

LEMMA TwoNumbers ==
  ASSUME NEW x \in Nat, NEW y \in Nat
  PROVE  /\ Max({x, y}) \in Nat /\ x <= Max({x, y}) /\ y <= Max({x, y})
         /\ Min({x, y}) \in {x, y} /\ Min({x, y}) <= x /\ Min({x, y}) <= y
<1>1. CASE x <= y
  <2>1. \A m \in {x, y} : (\A z \in {x, y} : m <= z) => m = x
    BY <1>1
  <2>2. \A m \in {x, y} : (\A z \in {x, y} : m >= z) => m = y
    BY <1>1
  <2>3. (\A z \in {x, y} : x <= z) /\ (\A z \in {x, y} : y >= z)
    BY <1>1
  <2>4. Min({x, y}) = x
    BY <2>1, <2>3 DEF Min
  <2>5. Max({x, y}) = y
    BY <2>2, <2>3 DEF Max
  <2> QED
    BY <1>1, <2>4, <2>5
<1>2. CASE y <= x
  <2>1. \A m \in {x, y} : (\A z \in {x, y} : m <= z) => m = y
    BY <1>2
  <2>2. \A m \in {x, y} : (\A z \in {x, y} : m >= z) => m = x
    BY <1>2
  <2>3. (\A z \in {x, y} : y <= z) /\ (\A z \in {x, y} : x >= z)
    BY <1>2
  <2>4. Min({x, y}) = y
    BY <2>1, <2>3 DEF Min
  <2>5. Max({x, y}) = x
    BY <2>2, <2>3 DEF Max
  <2> QED
    BY <1>2, <2>4, <2>5
<1> QED
  BY <1>1, <1>2

Sizes == link.room \in Nat /\ Len(link.noise) \in Nat

LEMMA SizesFacts ==
  ASSUME \A s \in Scenarios : Regular(s), link \in Scenarios
  PROVE  /\ Sizes
         /\ link.codec \in Codecs /\ Script(link.codec, link.script)
         /\ link.noise \in Seq(Harmless) /\ link.script # <<>>
<1>1. Regular(link) /\ link.room \in Nat /\ link.codec \in Codecs
  BY StreamAssumption
<1>2. link.noise \in Seq(Harmless) /\ link.script # <<>>
  BY <1>1 DEF Regular
<1>3. Len(link.noise) \in Nat
  BY <1>2, SeqFacts
<1>4. link.script \in Seq(Range(link.script)) /\ \A i \in DOMAIN link.script : Sendable(link.codec, link.script[i])
  BY <1>1 DEF Regular
<1>5. Len(link.script) \in Nat /\ DOMAIN link.script = 1 .. Len(link.script)
  BY <1>4, SeqFacts
<1> QED
  BY <1>1, <1>2, <1>3, <1>4, <1>5 DEF Sizes, Script

\* One write: a part of b goes out, what is left waits.
LEMMA WriteSomeFacts ==
  ASSUME Sizes, wire \in Seq(Byte), Free > 0,
         NEW b \in Seq(Byte), NEW posted \in Seq(Seq(Byte)), WriteSome(b, posted)
  PROVE  \E x \in Seq(Byte) :
           /\ wire' = wire \o x /\ Len(wire') <= link.room
           /\ resumed' \in Seq(Seq(Byte)) /\ Len(resumed') <= Len(posted) + 1
           /\ resumed' = <<>> => x = b
<1> DEFINE n == Min({Len(b), Free})
           x == SubSeq(b, 1, n)
           left == Drop(b, n)
<1>1. Len(b) \in Nat /\ Len(wire) \in Nat /\ link.room \in Nat /\ Len(posted) \in Nat
  BY SeqFacts DEF Sizes
<1>2. Free \in Nat /\ Free = link.room - Len(wire)
  BY <1>1 DEF Free
<1>3. n \in Nat /\ n <= Len(b) /\ n <= Free
  BY <1>1, <1>2, TwoNumbers
<1>4. wire' = wire \o x /\ resumed' = IF left = <<>> THEN posted ELSE Append(posted, left)
  BY DEF WriteSome, Drop
<1> HIDE DEF n
<1>5. x \in Seq(Byte) /\ Len(x) = n
  <2>1. 1 \in Nat /\ n \in Nat /\ 1 <= n + 1 /\ n + 1 - 1 = n
    BY <1>3
  <2>2. x \in Seq(Byte) /\ Len(x) = n + 1 - 1
    BY <1>3, <2>1, CutFacts
  <2> QED
    BY <2>1, <2>2
<1>6. left \in Seq(Byte) /\ Len(left) = Len(b) - n
  <2>1. n \in 0 .. Len(b)
    BY <1>1, <1>3
  <2> QED
    BY <2>1, DropFacts
<1>7. left = <<>> => x = b
  <2> SUFFICES ASSUME left = <<>> PROVE x = b
    OBVIOUS
  <2>1. Len(left) = 0
    <3> HIDE DEF left
    <3> QED
      OBVIOUS
  <2>2. n = Len(b)
    BY <1>1, <1>3, <1>6, <2>1
  <2>3. SubSeq(b, 1, Len(b)) = b
    BY SubSeqFull
  <2> QED
    BY <2>2, <2>3
<1> HIDE DEF x, left
<1>8. x \in Seq(Byte)
  BY <1>5
<1>9. Len(wire \o x) = Len(wire) + Len(x)
  BY <1>8, CatFacts
<1>10. Len(wire') <= link.room
  BY <1>1, <1>2, <1>3, <1>4, <1>5, <1>9
<1> DEFINE Q == Seq(Byte)
           more == Append(posted, left)
<1>11. left \in Q /\ posted \in Seq(Q)
  BY <1>6
<1> HIDE DEF Q
<1>12. more \in Seq(Q) /\ Len(more) = Len(posted) + 1 /\ more # <<>>
  BY <1>11, AppendProperties
<1> HIDE DEF more
<1>13. resumed' = posted \/ resumed' = more
  BY <1>4 DEF more
<1>14. resumed' \in Seq(Q) /\ Len(resumed') <= Len(posted) + 1
  BY <1>1, <1>11, <1>12, <1>13
<1>15. resumed' = <<>> => x = b
  BY <1>4, <1>7, <1>12 DEF more
<1> QED
  BY <1>4, <1>8, <1>10, <1>14, <1>15 DEF Q

\* A new write: it is tried, or it waits.
LEMMA StartWriteFacts ==
  ASSUME Sizes, wire \in Seq(Byte), waiting \in Seq(Seq(Byte)),
         Len(wire) <= Max({link.room, Len(link.noise)}),
         NEW b \in Seq(Byte), NEW posted \in Seq(Seq(Byte)), StartWrite(b, posted)
  PROVE  \E x \in Seq(Byte) :
           /\ wire' = wire \o x /\ Len(wire') <= Max({link.room, Len(link.noise)})
           /\ waiting' \in Seq(Seq(Byte)) /\ resumed' \in Seq(Seq(Byte))
           /\ Len(waiting') + Len(resumed') <= Len(waiting) + Len(posted) + 1
           /\ waiting' = <<>> /\ resumed' = <<>> => x = b
<1> DEFINE Q == Seq(Byte)
           most == Max({link.room, Len(link.noise)})
<1>1. /\ Len(wire) \in Nat /\ Len(waiting) \in Nat /\ Len(posted) \in Nat
      /\ most \in Nat /\ link.room <= most /\ link.room \in Nat
  BY SeqFacts, TwoNumbers DEF Sizes
<1>2. Len(wire) <= most
  OBVIOUS
<1> HIDE DEF most
<1>3. CASE waiting = <<>> /\ Free > 0 /\ WriteSome(b, posted) /\ waiting' = waiting
  <2>1. PICK x \in Seq(Byte) :
           /\ wire' = wire \o x /\ Len(wire') <= link.room
           /\ resumed' \in Seq(Seq(Byte)) /\ Len(resumed') <= Len(posted) + 1
           /\ resumed' = <<>> => x = b
    BY <1>3, WriteSomeFacts
  <2>2. Len(wire') \in Nat
    <3>1. wire \o x \in Seq(Byte)
      BY CatFacts
    <3>2. Len(wire \o x) \in Nat
      BY <3>1, SeqFacts
    <3> QED
      BY <2>1, <3>2
  <2>3. Len(wire') <= most
    BY <1>1, <2>1, <2>2
  <2>4. Len(resumed') \in Nat
    <3>1. resumed' \in Seq(Q)
      BY <2>1
    <3> HIDE DEF Q
    <3> QED
      BY <3>1, SeqFacts
  <2>5. Len(waiting') + Len(resumed') <= Len(waiting) + Len(posted) + 1
    BY <1>1, <1>3, <2>1, <2>4
  <2> QED
    BY <1>3, <2>1, <2>3, <2>5 DEF most
<1>4. CASE waiting' = Append(waiting, b) /\ resumed' = posted /\ wire' = wire
  <2>1. waiting \in Seq(Q) /\ b \in Q
    OBVIOUS
  <2>2. <<>> \in Seq(Byte) /\ wire \o <<>> = wire
    BY ConcatEmptySeq
  <2> HIDE DEF Q
  <2>3. Append(waiting, b) \in Seq(Q) /\ Append(waiting, b) # <<>> /\ Len(Append(waiting, b)) = Len(waiting) + 1
    BY <2>1, AppendProperties
  <2>4. waiting' \in Seq(Q) /\ waiting' # <<>> /\ Len(waiting') + Len(resumed') <= Len(waiting) + Len(posted) + 1
    BY <1>1, <1>4, <2>3
  <2>5. wire' = wire \o <<>> /\ Len(wire') <= most
    BY <1>2, <1>4, <2>2
  <2> QED
    BY <1>4, <2>2, <2>4, <2>5 DEF most, Q
<1> QED
  BY <1>3, <1>4 DEF StartWrite

LEMMA StaleIsBytes ==
  ASSUME NEW b \in Seq(Byte), NEW x \in Stale(b)
  PROVE  x \in Seq(Byte)
<1>1. CASE x = b
  BY <1>1
<1>2. ASSUME NEW f \in Fill, x = [i \in DOMAIN b |-> f] PROVE x \in Seq(Byte)
  <2>1. DOMAIN b = 1 .. Len(b) /\ Len(b) \in Nat /\ f \in Byte
    BY SeqFacts, StreamAssumption
  <2>2. x \in [1 .. Len(b) -> Byte]
    BY <1>2, <2>1
  <2> QED
    BY <2>1, <2>2, FunctionIsSeq
<1> QED
  BY <1>1, <1>2 DEF Stale

\* A step of the writer only adds to the wire: a whole packet, or spoilt bytes.
Adds(x) ==
  /\ wire' = wire \o x /\ UNCHANGED <<link, readVars>>
  /\ \/ /\ Whole /\ Whole' /\ intact < Len(link.script) /\ intact' = intact + 1
        /\ x = Pack(link.codec, link.script[intact + 1])
     \/ ~Whole' /\ intact' = intact

LEMMA SendFacts ==
  ASSUME \A s \in Scenarios : Regular(s), TypeInv, Send
  PROVE  TypeInv' /\ \E x \in Seq(Byte) : Adds(x)
<1> DEFINE m == link.script[issued + 1]
           b == Pack(link.codec, Copy(link.codec, m))
<1>1. /\ Sizes /\ link.codec \in Codecs /\ Script(link.codec, link.script)
  BY SizesFacts DEF TypeInv
<1>2. issued \in 0 .. Len(link.script) /\ intact \in 0 .. issued /\ issued < Len(link.script) /\ Len(link.script) \in Nat
  BY <1>1 DEF TypeInv, Send, Script
<1>3. issued + 1 \in 1 .. Len(link.script)
  BY <1>2
<1>4. Sendable(link.codec, m)
  BY <1>1, <1>3, PackIsBytes
<1>5. Copy(link.codec, m) = m
  BY <1>1, <1>4, RoundTrip
<1>6. b = Pack(link.codec, m) /\ b \in Seq(Byte)
  BY <1>1, <1>3, <1>5, PackIsBytes
<1>7. /\ wire \in Seq(Byte) /\ waiting \in Seq(Seq(Byte)) /\ resumed \in Seq(Seq(Byte))
      /\ Len(wire) <= Max({link.room, Len(link.noise)})
      /\ Len(waiting) + Len(resumed) <= issued
  BY DEF TypeInv
<1>8. /\ issued' = issued + 1 /\ StartWrite(b, resumed)
      /\ intact' = IF intact = issued /\ waiting' = <<>> /\ resumed' = <<>> THEN issued' ELSE intact
      /\ link' = link /\ acc' = acc /\ received' = received /\ up' = up
  BY DEF Send, readVars
<1> HIDE DEF b, m
<1>9. PICK x \in Seq(Byte) :
           /\ wire' = wire \o x /\ Len(wire') <= Max({link.room, Len(link.noise)})
           /\ waiting' \in Seq(Seq(Byte)) /\ resumed' \in Seq(Seq(Byte))
           /\ Len(waiting') + Len(resumed') <= Len(waiting) + Len(resumed) + 1
           /\ waiting' = <<>> /\ resumed' = <<>> => x = b
  BY <1>1, <1>6, <1>7, <1>8, StartWriteFacts
<1>10. wire' \in Seq(Byte)
  <2>1. wire \in Seq(Byte)
    BY <1>7
  <2>2. wire \o x \in Seq(Byte)
    BY <2>1, CatFacts
  <2> QED
    BY <1>9, <2>2
<1>11. Len(waiting') + Len(resumed') <= issued'
  <2>1. Len(waiting) \in Nat /\ Len(resumed) \in Nat /\ Len(waiting') \in Nat /\ Len(resumed') \in Nat
    <3> DEFINE Q == Seq(Byte)
    <3>1. waiting \in Seq(Q) /\ resumed \in Seq(Q) /\ waiting' \in Seq(Q) /\ resumed' \in Seq(Q)
      BY <1>7, <1>9
    <3> HIDE DEF Q
    <3> QED
      BY <3>1, SeqFacts
  <2> QED
    BY <1>2, <1>7, <1>8, <1>9, <2>1
<1>12. intact' \in 0 .. issued' /\ issued' \in 0 .. Len(link.script)
  BY <1>2, <1>8
<1>13. Whole' => waiting' = <<>> /\ resumed' = <<>>
  BY <1>2, <1>8 DEF Whole
<1>14. TypeInv'
  BY <1>8, <1>9, <1>10, <1>11, <1>12, <1>13 DEF TypeInv
<1>15. Adds(x)
  <2>1. CASE intact = issued /\ waiting' = <<>> /\ resumed' = <<>>
    BY <1>2, <1>6, <1>8, <1>9, <2>1 DEF Adds, Whole, readVars, m
  <2>2. CASE ~(intact = issued /\ waiting' = <<>> /\ resumed' = <<>>)
    <3>1. intact' = intact /\ intact' # issued'
      BY <1>2, <1>8, <2>2
    <3> QED
      BY <1>8, <1>9, <3>1 DEF Adds, Whole, readVars
  <2> QED
    BY <2>1, <2>2
<1> QED
  BY <1>14, <1>15

LEMMA WriteOnFacts ==
  ASSUME \A s \in Scenarios : Regular(s), TypeInv, WriteOn
  PROVE  TypeInv' /\ \E x \in Seq(Byte) : Adds(x)
<1> DEFINE Q == Seq(Byte)
<1>1. Sizes
  BY SizesFacts DEF TypeInv
<1>2. /\ wire \in Seq(Byte) /\ waiting \in Seq(Q) /\ resumed \in Seq(Q)
      /\ Len(wire) <= Max({link.room, Len(link.noise)})
      /\ Len(waiting) + Len(resumed) <= issued
  BY DEF TypeInv
<1>3. resumed # <<>> /\ ~Whole
  BY DEF WriteOn, TypeInv
<1>4. PICK b \in Stale(Head(resumed)) : StartWrite(b, Tail(resumed))
  BY DEF WriteOn
<1> HIDE DEF Q
<1>5. Head(resumed) \in Q /\ Tail(resumed) \in Seq(Q) /\ Len(Tail(resumed)) = Len(resumed) - 1
  BY <1>2, <1>3, HeadTailProperties
<1>6. b \in Seq(Byte)
  BY <1>5, StaleIsBytes DEF Q
<1>7. PICK x \in Seq(Byte) :
           /\ wire' = wire \o x /\ Len(wire') <= Max({link.room, Len(link.noise)})
           /\ waiting' \in Seq(Q) /\ resumed' \in Seq(Q)
           /\ Len(waiting') + Len(resumed') <= Len(waiting) + Len(Tail(resumed)) + 1
  BY <1>1, <1>2, <1>4, <1>5, <1>6, StartWriteFacts DEF Q
<1>8. link' = link /\ acc' = acc /\ received' = received /\ up' = up /\ issued' = issued /\ intact' = intact
  BY DEF WriteOn, readVars
<1>9. wire' \in Seq(Byte)
  <2>1. wire \in Seq(Byte)
    BY <1>2
  <2>2. wire \o x \in Seq(Byte)
    BY <2>1, CatFacts
  <2> QED
    BY <1>7, <2>2
<1>10. Len(waiting') + Len(resumed') <= issued'
  <2>1. Len(waiting) \in Nat /\ Len(resumed) \in Nat /\ Len(waiting') \in Nat /\ Len(resumed') \in Nat
    BY <1>2, <1>7, SeqFacts
  <2>2. intact \in 0 .. issued /\ issued \in 0 .. Len(link.script)
    BY DEF TypeInv
  <2> QED
    BY <1>2, <1>5, <1>7, <1>8, <2>1, <2>2
<1>11. ~Whole'
  BY <1>3, <1>8 DEF Whole
<1>12. TypeInv'
  BY <1>7, <1>8, <1>9, <1>10, <1>11 DEF TypeInv, Q
<1>13. Adds(x)
  BY <1>7, <1>8, <1>11 DEF Adds, readVars
<1> QED
  BY <1>12, <1>13

LEMMA WriteReadyFacts ==
  ASSUME \A s \in Scenarios : Regular(s), TypeInv, WriteReady
  PROVE  TypeInv' /\ \E x \in Seq(Byte) : Adds(x)
<1> DEFINE Q == Seq(Byte)
<1>1. Sizes
  BY SizesFacts DEF TypeInv
<1>2. /\ wire \in Seq(Byte) /\ waiting \in Seq(Q) /\ resumed \in Seq(Q)
      /\ Len(waiting) + Len(resumed) <= issued
  BY DEF TypeInv
<1>3. waiting # <<>> /\ ~Whole /\ Free > 0 /\ waiting' = Tail(waiting)
  BY DEF WriteReady, TypeInv
<1>4. PICK b \in Stale(Head(waiting)) : WriteSome(b, resumed)
  BY DEF WriteReady
<1> HIDE DEF Q
<1>5. Head(waiting) \in Q /\ Tail(waiting) \in Seq(Q) /\ Len(Tail(waiting)) = Len(waiting) - 1
  BY <1>2, <1>3, HeadTailProperties
<1>6. b \in Seq(Byte)
  BY <1>5, StaleIsBytes DEF Q
<1>7. PICK x \in Seq(Byte) :
           /\ wire' = wire \o x /\ Len(wire') <= link.room
           /\ resumed' \in Seq(Q) /\ Len(resumed') <= Len(resumed) + 1
  BY <1>1, <1>2, <1>3, <1>4, <1>6, WriteSomeFacts DEF Q
<1>8. link' = link /\ acc' = acc /\ received' = received /\ up' = up /\ issued' = issued /\ intact' = intact
  BY DEF WriteReady, readVars
<1>9. wire' \in Seq(Byte)
  <2>1. wire \in Seq(Byte)
    BY <1>2
  <2>2. wire \o x \in Seq(Byte)
    BY <2>1, CatFacts
  <2> QED
    BY <1>7, <2>2
<1>10. Len(waiting') + Len(resumed') <= issued'
  <2>1. Len(waiting) \in Nat /\ Len(resumed) \in Nat /\ Len(resumed') \in Nat
    BY <1>2, <1>7, SeqFacts
  <2>2. intact \in 0 .. issued /\ issued \in 0 .. Len(link.script)
    BY DEF TypeInv
  <2> QED
    BY <1>2, <1>3, <1>5, <1>7, <1>8, <2>1, <2>2
<1>11. ~Whole'
  BY <1>3, <1>8 DEF Whole
<1>12. Len(wire') <= Max({link.room, Len(link.noise)})
  <2> DEFINE most == Max({link.room, Len(link.noise)})
  <2>1. most \in Nat /\ link.room <= most /\ link.room \in Nat
    BY <1>1, TwoNumbers DEF Sizes
  <2>2. Len(wire') \in Nat
    BY <1>9, SeqFacts
  <2> HIDE DEF most
  <2>3. Len(wire') <= most
    BY <1>7, <2>1, <2>2
  <2> QED
    BY <2>3 DEF most
<1>13. TypeInv'
  BY <1>3, <1>5, <1>7, <1>8, <1>9, <1>10, <1>11, <1>12 DEF TypeInv, Q
<1>14. Adds(x)
  BY <1>7, <1>8, <1>11 DEF Adds, readVars
<1> QED
  BY <1>13, <1>14

(***************************************************************************)
(* The steps of the reader.                                                *)
(***************************************************************************)

\* A read of n bytes: what is parsed, and what it leaves.
LEMMA ReadFacts ==
  ASSUME TypeInv, NEW n \in 1 .. Min({BufSize, Len(wire)}), Read(n)
  PROVE  LET b == acc \o SubSeq(wire, 1, n)
         IN  /\ b \in Seq(Byte) /\ b # <<>> /\ wire' \in Seq(Byte)
             /\ b \o wire' = acc \o wire /\ Len(wire') <= Len(wire)
             /\ UNCHANGED <<link, writeVars>>
             /\ acc' = Parse(link.codec, b).rest /\ acc' \in Seq(Byte)
             /\ up' = (Parse(link.codec, b).code # "THROW")
             /\ received' = IF Parse(link.codec, b).code = "PARSE_OK"
                            THEN Append(received, Copy(link.codec, Parse(link.codec, b).msg))
                            ELSE received
<1> DEFINE c == SubSeq(wire, 1, n)
           b == acc \o c
           result == Parse(link.codec, b)
<1>1. wire \in Seq(Byte) /\ acc \in Seq(Byte)
  BY DEF TypeInv
<1>2. Len(wire) \in Nat /\ Len(acc) \in Nat /\ BufSize \in Nat
  BY <1>1, SeqFacts, StreamAssumption
<1>3. n \in Nat /\ 1 <= n /\ n <= Len(wire)
  BY <1>2, TwoNumbers
<1>4. /\ acc' = result.rest /\ up' = (result.code # "THROW")
      /\ received' = IF result.code = "PARSE_OK" THEN Append(received, Copy(link.codec, result.msg)) ELSE received
      /\ wire' = Drop(wire, n) /\ UNCHANGED <<link, writeVars>>
  BY DEF Read, Drop
<1>5. c \in Seq(Byte) /\ Len(c) = n
  <2>1. 1 \in Nat /\ 1 <= n + 1 /\ n + 1 - 1 = n
    BY <1>3
  <2>2. c \in Seq(Byte) /\ Len(c) = n + 1 - 1
    BY <1>1, <1>3, <2>1, CutFacts
  <2> QED
    BY <2>1, <2>2
<1>6. n \in 0 .. Len(wire)
  BY <1>2, <1>3
<1>7. Drop(wire, n) \in Seq(Byte) /\ Len(Drop(wire, n)) = Len(wire) - n /\ wire = c \o Drop(wire, n)
  BY <1>1, <1>6, DropFacts, TakeAndDrop
<1> HIDE DEF c
<1>8. b \in Seq(Byte) /\ Len(b) = Len(acc) + Len(c)
  <2>1. c \in Seq(Byte) /\ acc \in Seq(Byte)
    BY <1>1, <1>5
  <2> QED
    BY <2>1, CatFacts
<1>9. b # <<>>
  <2> HIDE DEF b
  <2>1. Len(b) # 0
    BY <1>2, <1>3, <1>5, <1>8
  <2> QED
    BY <1>8, <2>1, EmptySeq
<1>10. b \o wire' = acc \o wire
  <2> DEFINE d == Drop(wire, n)
  <2>1. d \in Seq(Byte) /\ c \in Seq(Byte) /\ acc \in Seq(Byte)
    BY <1>1, <1>5, <1>7
  <2>2. wire = c \o d /\ wire' = d
    BY <1>4, <1>7
  <2> HIDE DEF d
  <2>3. (acc \o c) \o d = acc \o (c \o d)
    BY <2>1, ConcatAssociative, SMTT(30)
  <2> QED
    BY <2>2, <2>3
<1>11. Len(wire') <= Len(wire) /\ wire' \in Seq(Byte)
  BY <1>2, <1>3, <1>4, <1>7
<1>12. acc' \in Seq(Byte)
  <2> HIDE DEF b
  <2>1. Parse(link.codec, b).rest \in Seq(Byte)
    BY <1>8, <1>9, ParseRest
  <2> QED
    BY <1>4, <2>1
<1> QED
  BY <1>4, <1>8, <1>9, <1>10, <1>11, <1>12 DEF c

LEMMA AppendIsSeq ==
  ASSUME NEW s, IsSeq(s), NEW x
  PROVE  /\ IsSeq(Append(s, x)) /\ Len(s) \in Nat /\ Len(Append(s, x)) = Len(s) + 1
         /\ \A i \in 1 .. Len(s) : Append(s, x)[i] = s[i]
         /\ Append(s, x)[Len(s) + 1] = x
<1>1. PICK M : s \in Seq(M)
  BY DEF IsSeq
<1> DEFINE N == M \cup {x}
<1>2. s \in Seq(N) /\ x \in N
  BY <1>1
<1> HIDE DEF N
<1>3. /\ Append(s, x) \in Seq(N) /\ Len(Append(s, x)) = Len(s) + 1
      /\ \A i \in 1 .. Len(s) : Append(s, x)[i] = s[i]
      /\ Append(s, x)[Len(s) + 1] = x
  BY <1>2, AppendProperties
<1> QED
  BY <1>2, <1>3, SeqFacts DEF IsSeq

LEMMA ReadTypes ==
  ASSUME \A s \in Scenarios : Regular(s), TypeInv, NEW n \in 1 .. Min({BufSize, Len(wire)}), Read(n)
  PROVE  TypeInv'
<1> DEFINE b == acc \o SubSeq(wire, 1, n)
           result == Parse(link.codec, b)
<1>1. /\ wire' \in Seq(Byte) /\ acc' \in Seq(Byte) /\ Len(wire') <= Len(wire)
      /\ UNCHANGED <<link, writeVars>>
      /\ up' = (result.code # "THROW")
      /\ received' = IF result.code = "PARSE_OK" THEN Append(received, Copy(link.codec, result.msg)) ELSE received
  BY ReadFacts
<1> HIDE DEF result
<1>2. up' \in BOOLEAN
  BY <1>1
<1>3. IsSeq(received')
  <2>1. IsSeq(received)
    BY DEF TypeInv
  <2>2. IsSeq(Append(received, Copy(link.codec, result.msg)))
    BY <2>1, AppendIsSeq
  <2> QED
    BY <1>1, <2>1, <2>2
<1>4. Len(wire') <= Max({link.room, Len(link.noise)})
  <2> DEFINE most == Max({link.room, Len(link.noise)})
  <2>1. Sizes /\ Len(wire) <= most /\ wire \in Seq(Byte)
    BY SizesFacts DEF TypeInv
  <2>2. most \in Nat
    BY <2>1, TwoNumbers DEF Sizes
  <2>3. Len(wire) \in Nat /\ Len(wire') \in Nat
    BY <1>1, <2>1, SeqFacts
  <2> HIDE DEF most
  <2>4. Len(wire') <= most
    BY <1>1, <2>1, <2>2, <2>3
  <2> QED
    BY <2>4 DEF most
<1>5. link' = link /\ issued' = issued /\ waiting' = waiting /\ resumed' = resumed /\ intact' = intact
  BY <1>1 DEF writeVars
<1> QED
  BY <1>1, <1>2, <1>3, <1>4, <1>5 DEF TypeInv, Whole

LEMMA InitTypes ==
  ASSUME \A s \in Scenarios : Regular(s), Init
  PROVE  TypeInv
<1>1. /\ link \in Scenarios /\ issued = 0 /\ intact = 0 /\ waiting = <<>> /\ resumed = <<>>
      /\ wire = link.noise /\ acc = <<>> /\ received = <<>> /\ up = TRUE
  BY DEF Init
<1>2. Sizes /\ Script(link.codec, link.script) /\ link.noise \in Seq(Harmless)
  BY <1>1, SizesFacts
<1>3. wire \in Seq(Byte)
  BY <1>1, <1>2, HarmlessFacts
<1>4. Len(wire) <= Max({link.room, Len(link.noise)})
  BY <1>1, <1>2, TwoNumbers DEF Sizes
<1>5. waiting \in Seq(Seq(Byte)) /\ resumed \in Seq(Seq(Byte)) /\ acc \in Seq(Byte) /\ IsSeq(received)
  BY <1>1 DEF IsSeq
<1>6. Len(waiting) = 0 /\ Len(resumed) = 0
  BY <1>1
<1> QED
  BY <1>1, <1>2, <1>3, <1>4, <1>5, <1>6 DEF TypeInv, Script

LEMMA NextTypes ==
  ASSUME \A s \in Scenarios : Regular(s), TypeInv, [Next]_vars
  PROVE  TypeInv'
<1>1. CASE Send
  BY <1>1, SendFacts
<1>2. CASE WriteOn
  BY <1>2, WriteOnFacts
<1>3. CASE WriteReady
  BY <1>3, WriteReadyFacts
<1>4. ASSUME NEW n \in 1 .. Min({BufSize, Len(wire)}), Read(n) PROVE TypeInv'
  BY <1>4, ReadTypes
<1>5. CASE UNCHANGED vars
  BY <1>5 DEF vars, writeVars, readVars, TypeInv, Whole
<1> QED
  BY <1>1, <1>2, <1>3, <1>4, <1>5 DEF Next, Writer, Reader, Over

\* The variables have the values they should have, in every state.
THEOREM StreamTypes ==
  ASSUME \A s \in Scenarios : Regular(s)
  PROVE  Spec => []TypeOK
<1>1. Init => TypeInv
  BY InitTypes
<1>2. TypeInv /\ [Next]_vars => TypeInv'
  BY NextTypes
<1>3. TypeInv => TypeOK
  <2> SUFFICES ASSUME TypeInv PROVE TypeOK
    OBVIOUS
  <2>1. wire \in Seq(Byte) /\ acc \in Seq(Byte)
    BY DEF TypeInv
  <2>2. (\A i \in DOMAIN wire : wire[i] \in Byte) /\ (\A i \in DOMAIN acc : acc[i] \in Byte)
    BY <2>1, SeqFacts
  <2> QED
    BY <2>2 DEF TypeInv, TypeOK
<1> QED
  BY <1>1, <1>2, <1>3, PTL DEF Spec

(***************************************************************************)
(* The inductive invariant: the reader is behind the writer, and between   *)
(* them are what is left of the noise, the packets of the messages that    *)
(* were not handed on, and whatever a write that had to wait has put after *)
(* them; or the reader has all that was written at once.                   *)
(***************************************************************************)

Between(r, n) == Frames(link.codec, link.script, r, n)

InOrder ==
  /\ up = TRUE
  /\ Len(received) <= intact
  /\ \A i \in 1 .. Len(received) : received[i] = link.script[i]
  /\ \E z \in Seq(Harmless), j \in Seq(Byte) :
       /\ acc \o wire = (z \o Between(Len(received), intact)) \o j
       /\ received # <<>> => z = <<>>
       /\ Whole => j = <<>>

Spoilt ==
  /\ ~Whole /\ intact <= Len(received)
  /\ \A i \in 1 .. intact : received[i] = link.script[i]

Follows == InOrder \/ Spoilt

StreamInv == TypeInv /\ Follows

LEMMA Counts ==
  ASSUME \A s \in Scenarios : Regular(s), TypeInv
  PROVE  /\ link.codec \in Codecs /\ Script(link.codec, link.script)
         /\ intact \in Nat /\ issued \in Nat /\ Len(received) \in Nat /\ Len(link.script) \in Nat
         /\ intact <= issued /\ issued <= Len(link.script)
<1>1. link.codec \in Codecs /\ Script(link.codec, link.script)
  BY SizesFacts DEF TypeInv
<1>2. IsSeq(received)
  BY DEF TypeInv
<1>3. Len(received) \in Nat
  BY <1>2, AppendIsSeq
<1>4. intact \in 0 .. issued /\ issued \in 0 .. Len(link.script) /\ Len(link.script) \in Nat
  BY <1>1 DEF TypeInv, Script
<1> QED
  BY <1>1, <1>3, <1>4

LEMMA InitInOrder ==
  ASSUME \A s \in Scenarios : Regular(s), Init
  PROVE  StreamInv
<1>1. TypeInv
  BY InitTypes
<1>2. /\ intact = 0 /\ issued = 0 /\ received = <<>> /\ up = TRUE /\ acc = <<>> /\ wire = link.noise
  BY DEF Init
<1>3. link.codec \in Codecs /\ Script(link.codec, link.script) /\ Len(received) \in Nat /\ Len(link.script) \in Nat
  BY <1>1, Counts
<1>4. link.noise \in Seq(Harmless)
  BY <1>1, SizesFacts DEF TypeInv
<1>5. Len(received) = 0
  BY <1>2
<1>6. Between(0, 0) = <<>>
  <2>1. 0 \in Nat /\ 0 <= 0 /\ 0 <= Len(link.script)
    BY <1>3
  <2> QED
    BY <1>3, <2>1, FramesFacts DEF Between
<1>7. acc \o wire = (link.noise \o <<>>) \o <<>>
  <2>1. link.noise \o <<>> = link.noise /\ <<>> \o link.noise = link.noise
    BY <1>4, ConcatEmptySeq
  <2> QED
    BY <1>2, <2>1
<1>8. <<>> \in Seq(Byte)
  OBVIOUS
<1>9. \E z \in Seq(Harmless), j \in Seq(Byte) :
        /\ acc \o wire = (z \o Between(Len(received), intact)) \o j
        /\ received # <<>> => z = <<>>
        /\ Whole => j = <<>>
  BY <1>2, <1>4, <1>5, <1>6, <1>7, <1>8
<1>10. InOrder
  BY <1>2, <1>5, <1>9 DEF InOrder
<1> QED
  BY <1>1, <1>10 DEF StreamInv, Follows

\* What is written goes behind what is there.
LEMMA AddsInOrder ==
  ASSUME \A s \in Scenarios : Regular(s), TypeInv, InOrder, NEW x \in Seq(Byte), Adds(x)
  PROVE  InOrder'
<1> DEFINE r == Len(received)
           f == Between(r, intact)
<1>1. /\ link.codec \in Codecs /\ Script(link.codec, link.script)
      /\ intact \in Nat /\ r \in Nat /\ Len(link.script) \in Nat /\ intact <= Len(link.script)
  BY Counts
<1>2. r <= intact
  BY DEF InOrder
<1>3. PICK z \in Seq(Harmless), j \in Seq(Byte) :
        /\ acc \o wire = (z \o f) \o j
        /\ received # <<>> => z = <<>>
        /\ Whole => j = <<>>
  BY DEF InOrder
<1>4. f \in Seq(Byte) /\ z \in Seq(Byte) /\ acc \in Seq(Byte) /\ wire \in Seq(Byte)
  <2>1. z \in Seq(Byte)
    BY HarmlessFacts
  <2>2. acc \in Seq(Byte) /\ wire \in Seq(Byte)
    BY DEF TypeInv
  <2> HIDE DEF r
  <2>3. f \in Seq(Byte)
    BY <1>1, <1>2, FramesFacts DEF Between
  <2> QED
    BY <2>1, <2>2, <2>3
<1>5. wire' = wire \o x /\ link' = link /\ acc' = acc /\ received' = received /\ up' = up
  BY DEF Adds, readVars
<1> DEFINE zf == z \o f
<1>6. zf \in Seq(Byte)
  <2> HIDE DEF f
  <2> QED
    BY <1>4, CatFacts
<1>7. acc \o wire = zf \o j
  BY <1>3
<1> HIDE DEF f, zf, r
<1>8. acc' \o wire' = zf \o (j \o x)
  <2>1. (acc \o wire) \o x = acc \o (wire \o x)
    BY <1>4, ConcatAssociative, SMTT(30)
  <2>2. (zf \o j) \o x = zf \o (j \o x)
    BY <1>6, ConcatAssociative, SMTT(30)
  <2> QED
    BY <1>5, <1>7, <2>1, <2>2
<1>9. r' = r
  BY <1>5 DEF r
<1>10. CASE ~Whole' /\ intact' = intact
  <2>1. j \o x \in Seq(Byte)
    BY CatFacts
  <2>2. Between(r, intact)' = f
    BY <1>5, <1>9, <1>10 DEF Between, f
  <2>3. acc' \o wire' = (z \o Between(r, intact)') \o (j \o x)
    BY <1>8, <2>2 DEF zf
  <2>4. received' # <<>> => z = <<>>
    BY <1>3, <1>5
  <2> QED
    BY <1>5, <1>10, <2>1, <2>3, <2>4 DEF InOrder, r
<1>11. CASE Whole /\ Whole' /\ intact < Len(link.script) /\ intact' = intact + 1
            /\ x = Pack(link.codec, link.script[intact + 1])
  <2>1. j = <<>> /\ j \o x = x
    BY <1>3, <1>11, ConcatEmptySeq
  <2>2. zf \o x = z \o (f \o x)
    BY <1>4, ConcatAssociative, SMTT(30) DEF zf
  <2>3. Between(r, intact)' = f \o x
    <3>1. Frames(link.codec, link.script, r, intact + 1) = f \o x
      BY <1>1, <1>2, <1>11, FramesSnoc DEF Between, f, r
    <3> QED
      BY <1>5, <1>9, <1>11, <3>1 DEF Between
  <2> DEFINE fx == f \o x
  <2>4. fx \in Seq(Byte)
    BY <1>4, CatFacts
  <2>5. Between(r, intact)' = fx /\ zf \o x = z \o fx
    BY <2>2, <2>3
  <2> HIDE DEF fx
  <2>6. z \o fx \in Seq(Byte)
    BY <1>4, <2>4, CatFacts
  <2>7. (z \o fx) \o <<>> = z \o fx
    BY <2>6, ConcatEmptySeq
  <2>8. acc' \o wire' = (z \o Between(r, intact)') \o <<>>
    BY <1>8, <2>1, <2>5, <2>7
  <2>9. <<>> \in Seq(Byte)
    OBVIOUS
  <2>10. received' # <<>> => z = <<>>
    BY <1>3, <1>5
  <2>11. Len(received') <= intact'
    BY <1>1, <1>2, <1>5, <1>11 DEF r
  <2>12. \E zz \in Seq(Harmless), jj \in Seq(Byte) :
           /\ acc' \o wire' = (zz \o Between(r, intact)') \o jj
           /\ received' # <<>> => zz = <<>>
           /\ Whole' => jj = <<>>
    BY <2>8, <2>9, <2>10
  <2>13. up' = TRUE /\ \A i \in 1 .. Len(received') : received'[i] = link'.script[i]
    BY <1>5 DEF InOrder
  <2> QED
    BY <2>11, <2>12, <2>13 DEF InOrder, r
<1> QED
  BY <1>10, <1>11 DEF Adds

\* A read with a packet in front takes it if it is complete.
LEMMA FrontRead ==
  ASSUME \A s \in Scenarios : Regular(s), TypeInv, InOrder, Len(received) < intact,
         NEW n \in 1 .. Min({BufSize, Len(wire)}), Read(n)
  PROVE  LET r == Len(received)
             f == Between(r + 1, intact)
         IN  /\ up' = TRUE
             /\ \E j \in Seq(Byte) :
                  /\ Whole => j = <<>>
                  /\ IF Len(wire') <= Len(f \o j)
                     THEN received' = Append(received, link.script[r + 1]) /\ acc' \o wire' = f \o j
                     ELSE /\ received' = received
                          /\ \E z \in Seq(Harmless) : /\ acc' \o wire' = (z \o Between(r, intact)) \o j
                                                      /\ received # <<>> => z = <<>>
<1> DEFINE r == Len(received)
           f == Between(r + 1, intact)
           codec == link.codec
           m == link.script[r + 1]
           p == Pack(codec, m)
           b == acc \o SubSeq(wire, 1, n)
           w == wire'
           result == Parse(codec, b)
<1>1. /\ codec \in Codecs /\ Script(codec, link.script)
      /\ intact \in Nat /\ r \in Nat /\ Len(link.script) \in Nat /\ intact <= Len(link.script)
  BY Counts
<1>2. r < intact
  OBVIOUS
<1>3. PICK z \in Seq(Harmless), j \in Seq(Byte) :
        /\ acc \o wire = (z \o Between(r, intact)) \o j
        /\ received # <<>> => z = <<>>
        /\ Whole => j = <<>>
  BY DEF InOrder
<1>4. /\ b \in Seq(Byte) /\ b # <<>> /\ w \in Seq(Byte) /\ b \o w = acc \o wire
      /\ acc' = result.rest /\ up' = (result.code # "THROW")
      /\ received' = IF result.code = "PARSE_OK" THEN Append(received, Copy(codec, result.msg)) ELSE received
  BY ReadFacts
<1>5. Sendable(codec, m) /\ p \in Seq(Byte)
  <2>1. r + 1 \in 1 .. Len(link.script)
    BY <1>1, <1>2
  <2> HIDE DEF codec
  <2> QED
    BY <1>1, <2>1, PackIsBytes
<1>6. Between(r, intact) = p \o f
  <2>1. r \in Nat /\ intact \in Nat /\ r < intact /\ intact <= Len(link.script)
    BY <1>1, <1>2
  <2> HIDE DEF r
  <2>2. Script(link.codec, link.script) /\ link.codec \in Codecs
    BY <1>1
  <2>3. Frames(link.codec, link.script, r, intact)
          = Pack(link.codec, link.script[r + 1]) \o Frames(link.codec, link.script, r + 1, intact)
    BY <2>1, <2>2, FramesCons
  <2> QED
    BY <2>3 DEF Between
<1>7. f \in Seq(Byte)
  <2>1. r + 1 \in Nat /\ intact \in Nat /\ r + 1 <= intact /\ intact <= Len(link.script)
    BY <1>1, <1>2
  <2> HIDE DEF r
  <2> QED
    BY <1>1, <2>1, FramesFacts DEF Between
<1>8. Copy(codec, m) = m
  BY <1>1, <1>5, RoundTrip
<1> HIDE DEF b, w, f, r, m, codec, result
<1> DEFINE y == f \o j
           g == p \o f
<1>9. y \in Seq(Byte) /\ g \in Seq(Byte)
  <2>1. y \in Seq(Byte)
    BY <1>7, CatFacts
  <2> HIDE DEF p
  <2>2. g \in Seq(Byte)
    BY <1>5, <1>7, CatFacts
  <2> QED
    BY <2>1, <2>2
<1> HIDE DEF g, y
<1>10. \A zz \in Seq(Harmless) : (zz \o g) \o j = (zz \o p) \o y
  <2> SUFFICES ASSUME NEW zz \in Seq(Harmless) PROVE (zz \o g) \o j = (zz \o p) \o y
    OBVIOUS
  <2>1. zz \in Seq(Byte) /\ p \in Seq(Byte)
    BY <1>5, HarmlessFacts
  <2> HIDE DEF p
  <2> DEFINE zp == zz \o p
  <2>2. zp \in Seq(Byte)
    BY <2>1, CatFacts
  <2>3. zp \o f = zz \o g
    BY <1>7, <2>1, ConcatAssociative, SMTT(30) DEF g
  <2> HIDE DEF zp
  <2>4. (zp \o f) \o j = zp \o y
    BY <1>7, <2>2, ConcatAssociative, SMTT(30) DEF y
  <2> QED
    BY <2>3, <2>4 DEF zp
<1>11. Between(r, intact) = g
  BY <1>6 DEF g
<1>12. b \o w = (z \o p) \o y
  BY <1>3, <1>4, <1>10, <1>11
<1>13. TakesOrWaits(result, w, m, p, z, y)
  <2>1. codec \in Codecs /\ Sendable(codec, m)
    BY <1>1, <1>5
  <2>2. b \in Seq(Byte) /\ w \in Seq(Byte) /\ y \in Seq(Byte)
    BY <1>4, <1>9
  <2>3. b # <<>>
    BY <1>4
  <2> QED
    BY <1>12, <2>1, <2>2, <2>3, ReadFront DEF result
<1> HIDE DEF p
<1>14. CASE Len(w) <= Len(y)
  <2>1. result.code = "PARSE_OK" /\ result.msg = m /\ result.rest \o w = y
    BY <1>13, <1>14 DEF TakesOrWaits
  <2>2. up' = TRUE /\ received' = Append(received, m) /\ acc' \o w = y
    BY <1>4, <1>8, <2>1
  <2> QED
    BY <1>3, <1>14, <2>2 DEF w, y, m, f, r
<1>15. CASE ~(Len(w) <= Len(y))
  <2>1. PICK z1 \in Seq(Harmless) : /\ result.rest \o w = (z1 \o p) \o y
                                    /\ z = <<>> => z1 = <<>>
    BY <1>13, <1>15 DEF TakesOrWaits
  <2>2. result.code = "NOT_ENOUGH"
    BY <1>13, <1>15 DEF TakesOrWaits
  <2>3. up' = TRUE /\ received' = received /\ acc' \o w = (z1 \o Between(r, intact)) \o j
    BY <1>4, <1>10, <1>11, <2>1, <2>2
  <2>4. received # <<>> => z1 = <<>>
    BY <1>3, <2>1
  <2> QED
    BY <1>3, <1>15, <2>3, <2>4 DEF w, y, f, r
<1> QED
  BY <1>14, <1>15

\* A read with no packet on the way finds what is left of the noise.
LEMMA NoiseOnlyRead ==
  ASSUME \A s \in Scenarios : Regular(s), TypeInv, InOrder, Len(received) = intact, Whole,
         NEW n \in 1 .. Min({BufSize, Len(wire)}), Read(n)
  PROVE  /\ up' = TRUE /\ received' = received /\ received = <<>>
         /\ \E z \in Seq(Harmless) : acc' \o wire' = z
<1> DEFINE codec == link.codec
           b == acc \o SubSeq(wire, 1, n)
           w == wire'
           result == Parse(codec, b)
<1>1. /\ codec \in Codecs /\ Script(codec, link.script)
      /\ intact \in Nat /\ Len(link.script) \in Nat /\ intact <= Len(link.script)
  BY Counts
<1>2. PICK z \in Seq(Harmless), j \in Seq(Byte) :
        /\ acc \o wire = (z \o Between(intact, intact)) \o j
        /\ received # <<>> => z = <<>>
        /\ j = <<>>
  BY DEF InOrder
<1>3. Between(intact, intact) = <<>>
  <2>1. intact <= intact
    BY <1>1
  <2> HIDE DEF codec
  <2> QED
    BY <1>1, <2>1, FramesFacts DEF Between, codec
<1>4. /\ b \in Seq(Byte) /\ b # <<>> /\ w \in Seq(Byte) /\ b \o w = acc \o wire
      /\ acc' = result.rest /\ up' = (result.code # "THROW")
      /\ received' = IF result.code = "PARSE_OK" THEN Append(received, Copy(codec, result.msg)) ELSE received
  BY ReadFacts
<1> HIDE DEF b, w, codec
<1>5. b \o w = z
  <2>1. z \o <<>> = z
    BY ConcatEmptySeq
  <2> QED
    BY <1>2, <1>3, <1>4, <2>1
<1>6. PICK rest, z1 \in Seq(Harmless) : result = [code |-> "NOT_ENOUGH", rest |-> rest] /\ rest \o w = z1
  <2>1. b \in Seq(Byte) /\ w \in Seq(Byte)
    BY <1>4
  <2>2. b # <<>>
    BY <1>4
  <2>3. NoiseLeft(Parse(codec, b), w)
    BY <1>5, <2>1, <2>2, ReadNoise
  <2> QED
    BY <2>3 DEF NoiseLeft
<1>7. result.code = "NOT_ENOUGH" /\ result.rest = rest
  BY <1>6
<1> HIDE DEF result
<1>8. up' = TRUE /\ received' = received /\ acc' \o w = z1
  BY <1>4, <1>6, <1>7
<1>9. received = <<>>
  <2> SUFFICES ASSUME z = <<>> PROVE FALSE
    BY <1>2
  <2>1. Len(b) <= Len(z) /\ Len(b) \in Nat
    BY <1>4, <1>5, QuietNoise, SeqFacts
  <2>2. Len(z) = 0
    OBVIOUS
  <2>3. Len(b) = 0
    BY <2>1, <2>2
  <2> QED
    BY <1>4, <2>3, EmptySeq
<1> QED
  BY <1>6, <1>8, <1>9 DEF w

LEMMA ReadInOrder ==
  ASSUME \A s \in Scenarios : Regular(s), TypeInv, Follows,
         NEW n \in 1 .. Min({BufSize, Len(wire)}), Read(n)
  PROVE  Follows'
<1> DEFINE r == Len(received)
           codec == link.codec
           b == acc \o SubSeq(wire, 1, n)
           result == Parse(codec, b)
<1>1. /\ codec \in Codecs /\ Script(codec, link.script)
      /\ intact \in Nat /\ r \in Nat /\ Len(link.script) \in Nat /\ intact <= Len(link.script)
  BY Counts
<1>2. link' = link /\ issued' = issued /\ intact' = intact
  BY ReadFacts DEF writeVars
<1>3. IsSeq(received)
  BY DEF TypeInv
<1>4. received' = received \/ \E x : received' = Append(received, x)
  <2>1. received' = IF result.code = "PARSE_OK" THEN Append(received, Copy(codec, result.msg)) ELSE received
    BY ReadFacts
  <2> HIDE DEF result
  <2> QED
    BY <2>1
<1>5. r <= Len(received') /\ \A i \in 1 .. r : received'[i] = received[i]
  <2>1. CASE received' = received
    BY <1>1, <2>1
  <2>2. ASSUME NEW x, received' = Append(received, x) PROVE r <= Len(received') /\ \A i \in 1 .. r : received'[i] = received[i]
    <3>1. Len(Append(received, x)) = r + 1 /\ \A i \in 1 .. r : Append(received, x)[i] = received[i]
      BY <1>3, AppendIsSeq
    <3> QED
      BY <1>1, <2>2, <3>1
  <2> QED
    BY <1>4, <2>1, <2>2
<1>6. CASE ~Whole /\ intact <= r /\ \A i \in 1 .. intact : received[i] = link.script[i]
  <2>1. intact <= Len(received')
    <3>1. Len(received') \in Nat
      <4>1. TypeInv'
        BY ReadTypes
      <4>2. IsSeq(received')
        BY <4>1 DEF TypeInv
      <4> QED
        BY <4>2, AppendIsSeq
    <3> QED
      BY <1>1, <1>5, <1>6, <3>1
  <2>2. \A i \in 1 .. intact : i \in 1 .. r
    BY <1>1, <1>6
  <2>3. \A i \in 1 .. intact : received'[i] = link.script[i]
    BY <1>5, <1>6, <2>2
  <2> QED
    BY <1>2, <1>6, <2>1, <2>3 DEF Spoilt, Whole, Follows
<1>7. CASE InOrder /\ r < intact
  <2> DEFINE f == Between(r + 1, intact)
  <2>1. up' = TRUE
    BY <1>7, FrontRead
  <2>2. PICK j \in Seq(Byte) :
          /\ Whole => j = <<>>
          /\ IF Len(wire') <= Len(f \o j)
             THEN received' = Append(received, link.script[r + 1]) /\ acc' \o wire' = f \o j
             ELSE /\ received' = received
                  /\ \E z \in Seq(Harmless) : /\ acc' \o wire' = (z \o Between(r, intact)) \o j
                                              /\ received # <<>> => z = <<>>
    BY <1>7, FrontRead
  <2>3. Whole' => j = <<>>
    BY <1>2, <2>2 DEF Whole
  <2>4. \A i \in 1 .. r : received[i] = link.script[i]
    BY <1>7 DEF InOrder
  <2>5. \A k : Between(k, intact)' = Between(k, intact)
    BY <1>2 DEF Between
  <2>6. CASE Len(wire') <= Len(f \o j)
    <3>1. received' = Append(received, link.script[r + 1]) /\ acc' \o wire' = f \o j
      BY <2>2, <2>6
    <3>2. Len(received') = r + 1 /\ received'[r + 1] = link.script[r + 1]
      BY <1>3, <3>1, AppendIsSeq
    <3>3. Len(received') <= intact'
      BY <1>1, <1>2, <1>7, <3>2
    <3>4. \A i \in 1 .. Len(received') : received'[i] = link'.script[i]
      <4> SUFFICES ASSUME NEW i \in 1 .. r + 1 PROVE received'[i] = link.script[i]
        BY <1>2, <3>2
      <4>1. i \in 1 .. r \/ i = r + 1
        BY <1>1
      <4> QED
        BY <1>5, <2>4, <3>2, <4>1
    <3>5. Between(Len(received), intact)' = f
      <4>1. Between(Len(received), intact)' = Between(r + 1, intact)
        BY <1>2, <3>2 DEF Between
      <4> QED
        BY <4>1
    <3>6. f \in Seq(Byte)
      <4>1. r + 1 \in Nat /\ r + 1 <= intact
        BY <1>1, <1>7
      <4> HIDE DEF r
      <4> QED
        BY <1>1, <4>1, FramesFacts DEF Between
    <3>7. <<>> \in Seq(Harmless)
      OBVIOUS
    <3> HIDE DEF f
    <3>8. acc' \o wire' = (<<>> \o f) \o j
      <4>1. <<>> \o f = f
        BY <3>6, ConcatEmptySeq
      <4> QED
        BY <3>1, <4>1
    <3>9. \E z \in Seq(Harmless), jj \in Seq(Byte) :
            /\ acc' \o wire' = (z \o Between(Len(received), intact)') \o jj
            /\ received' # <<>> => z = <<>>
            /\ Whole' => jj = <<>>
      BY <2>3, <3>5, <3>7, <3>8
    <3>10. InOrder'
      BY <2>1, <3>3, <3>4, <3>9 DEF InOrder
    <3> QED
      BY <3>10 DEF Follows
  <2>7. CASE ~(Len(wire') <= Len(f \o j))
    <3>1. received' = received
      BY <2>2, <2>7
    <3>2. PICK z \in Seq(Harmless) : /\ acc' \o wire' = (z \o Between(r, intact)) \o j
                                     /\ received # <<>> => z = <<>>
      BY <2>2, <2>7
    <3>3. Between(Len(received), intact)' = Between(r, intact)
      BY <1>2, <3>1 DEF Between
    <3>4. \E zz \in Seq(Harmless), jj \in Seq(Byte) :
            /\ acc' \o wire' = (zz \o Between(Len(received), intact)') \o jj
            /\ received' # <<>> => zz = <<>>
            /\ Whole' => jj = <<>>
      BY <2>3, <3>1, <3>2, <3>3
    <3>5. Len(received') <= intact' /\ \A i \in 1 .. Len(received') : received'[i] = link'.script[i]
      BY <1>1, <1>2, <1>7, <2>4, <3>1
    <3>6. InOrder'
      BY <2>1, <3>4, <3>5 DEF InOrder
    <3> QED
      BY <3>6 DEF Follows
  <2> QED
    BY <2>6, <2>7
<1>8. CASE InOrder /\ r = intact /\ Whole
  <2>1. /\ up' = TRUE /\ received' = received /\ received = <<>>
        /\ \E z \in Seq(Harmless) : acc' \o wire' = z
    BY <1>8, NoiseOnlyRead
  <2>2. PICK z \in Seq(Harmless) : acc' \o wire' = z
    BY <2>1
  <2>3. Between(Len(received), intact)' = <<>>
    <3>1. r' = intact /\ intact <= intact
      BY <1>1, <1>8, <2>1
    <3>2. Between(intact, intact) = <<>>
      BY <1>1, <3>1, FramesFacts DEF Between
    <3> QED
      BY <1>2, <3>1, <3>2 DEF Between
  <2>4. (z \o <<>>) \o <<>> = z
    BY ConcatEmptySeq
  <2>5. <<>> \in Seq(Byte)
    OBVIOUS
  <2>6. acc' \o wire' = (z \o Between(Len(received), intact)') \o <<>>
    BY <2>2, <2>3, <2>4
  <2>7. Len(received') <= intact' /\ \A i \in 1 .. Len(received') : received'[i] = link'.script[i]
    BY <1>1, <1>2, <1>8, <2>1 DEF InOrder
  <2>8. InOrder'
    BY <2>1, <2>5, <2>6, <2>7 DEF InOrder
  <2> QED
    BY <2>8 DEF Follows
<1>9. InOrder => r < intact \/ (r = intact /\ Whole)
             \/ (~Whole /\ intact <= r /\ \A i \in 1 .. intact : received[i] = link.script[i])
  <2> SUFFICES ASSUME InOrder, r = intact, ~Whole PROVE \A i \in 1 .. intact : received[i] = link.script[i]
    BY <1>1 DEF InOrder
  <2> QED
    BY DEF InOrder
<1> QED
  BY <1>6, <1>7, <1>8, <1>9 DEF Spoilt, Follows

LEMMA AddsFollows ==
  ASSUME \A s \in Scenarios : Regular(s), TypeInv, Follows, NEW x \in Seq(Byte), Adds(x)
  PROVE  Follows'
<1>1. CASE InOrder
  BY <1>1, AddsInOrder DEF Follows
<1>2. CASE Spoilt
  <2>1. ~Whole' /\ intact' = intact /\ link' = link /\ received' = received
    BY <1>2 DEF Spoilt, Adds, readVars
  <2>2. Spoilt'
    BY <1>2, <2>1 DEF Spoilt
  <2> QED
    BY <2>2 DEF Follows
<1> QED
  BY <1>1, <1>2 DEF Follows

LEMMA StutterFollows ==
  ASSUME Follows, UNCHANGED vars
  PROVE  Follows'
<1>1. /\ link' = link /\ issued' = issued /\ intact' = intact /\ acc' = acc /\ wire' = wire
      /\ received' = received /\ up' = up
  BY DEF vars, writeVars, readVars
<1>2. Whole' = Whole
  BY <1>1 DEF Whole
<1>3. Between(Len(received), intact)' = Between(Len(received), intact)
  BY <1>1 DEF Between
<1>4. InOrder => InOrder'
  BY <1>1, <1>2, <1>3 DEF InOrder
<1>5. Spoilt => Spoilt'
  BY <1>1, <1>2 DEF Spoilt
<1> QED
  BY <1>4, <1>5 DEF Follows

LEMMA NextStream ==
  ASSUME \A s \in Scenarios : Regular(s), StreamInv, [Next]_vars
  PROVE  StreamInv'
<1>0. TypeInv /\ Follows
  BY DEF StreamInv
<1>1. TypeInv'
  BY <1>0, NextTypes
<1>2. CASE Send
  <2>1. PICK x \in Seq(Byte) : Adds(x)
    BY <1>0, <1>2, SendFacts
  <2>2. Follows'
    BY <1>0, <2>1, AddsFollows
  <2> QED
    BY <1>1, <2>2 DEF StreamInv
<1>3. CASE WriteOn
  <2>1. PICK x \in Seq(Byte) : Adds(x)
    BY <1>0, <1>3, WriteOnFacts
  <2>2. Follows'
    BY <1>0, <2>1, AddsFollows
  <2> QED
    BY <1>1, <2>2 DEF StreamInv
<1>4. CASE WriteReady
  <2>1. PICK x \in Seq(Byte) : Adds(x)
    BY <1>0, <1>4, WriteReadyFacts
  <2>2. Follows'
    BY <1>0, <2>1, AddsFollows
  <2> QED
    BY <1>1, <2>2 DEF StreamInv
<1>5. ASSUME NEW n \in 1 .. Min({BufSize, Len(wire)}), Read(n) PROVE StreamInv'
  <2>1. Follows'
    BY <1>0, <1>5, ReadInOrder
  <2> QED
    BY <1>1, <2>1 DEF StreamInv
<1>6. CASE UNCHANGED vars
  <2>1. Follows'
    BY <1>0, <1>6, StutterFollows
  <2> QED
    BY <1>1, <2>1 DEF StreamInv
<1> QED
  BY <1>2, <1>3, <1>4, <1>5, <1>6 DEF Next, Writer, Reader, Over

LEMMA StreamInvariant ==
  ASSUME \A s \in Scenarios : Regular(s)
  PROVE  Spec => []StreamInv
<1>1. Init => StreamInv
  BY InitInOrder
<1>2. StreamInv /\ [Next]_vars => StreamInv'
  BY NextStream
<1> QED
  BY <1>1, <1>2, PTL DEF Spec

(***************************************************************************)
(* The messages that are left, and their packets.                          *)
(***************************************************************************)

LEMMA ScriptIsSeq ==
  ASSUME \A s \in Scenarios : Regular(s), TypeInv
  PROVE  \E M : link.script \in Seq(M)
<1>1. Regular(link)
  BY DEF TypeInv
<1> QED
  BY <1>1 DEF Regular

LEMMA PackedIsFrames ==
  ASSUME \A s \in Scenarios : Regular(s), TypeInv,
         NEW r \in Nat, NEW n \in Nat, r <= n, n <= Len(link.script)
  PROVE  LET s == SubSeq(link.script, r + 1, n)
         IN  /\ Packed(s) = Between(r, n)
             /\ (s # <<>>) = (r < n)
             /\ r < n => Head(s) = link.script[r + 1] /\ Tail(s) = SubSeq(link.script, (r + 1) + 1, n)
<1> DEFINE m == r + 1
           s == SubSeq(link.script, m, n)
           sent == link.script
<1>1. PICK M : sent \in Seq(M)
  BY ScriptIsSeq
<1>2. m \in Nat /\ 1 <= m /\ m <= n + 1 /\ n <= Len(sent) /\ n + 1 - m = n - r
  OBVIOUS
<1>3. \A i \in Int : m + i - 1 = r + i
  OBVIOUS
<1>0. Len(sent) \in Nat
  BY <1>1, SeqFacts
<1>4. r < n => m \in 1 .. Len(sent) /\ n \in m .. Len(sent)
  BY <1>0
<1> HIDE DEF m, sent
<1>5. /\ s \in Seq(M) /\ Len(s) = n + 1 - m
      /\ DOMAIN s = 1 .. n + 1 - m
      /\ \A i \in 1 .. n + 1 - m : s[i] = sent[m + i - 1]
  BY <1>1, <1>2, CutFacts DEF sent
<1>6. r < n => Head(s) = sent[m] /\ Tail(s) = SubSeq(sent, m + 1, n)
  BY <1>1, <1>4, HeadTailOfSubSeq DEF sent
<1> HIDE DEF s
<1>7. DOMAIN s = 1 .. n - r /\ \A i \in 1 .. n - r : s[i] = sent[r + i]
  <2> DEFINE k == n - r
  <2>1. n + 1 - m = k /\ k \in Int
    BY <1>2
  <2> HIDE DEF k
  <2>2. DOMAIN s = 1 .. k
    BY <1>5, <2>1
  <2>3. ASSUME NEW i \in 1 .. k PROVE s[i] = sent[r + i]
    <3>1. s[i] = sent[m + i - 1]
      BY <1>5, <2>1
    <3>2. m + i - 1 = r + i
      BY <1>3, <2>1
    <3> QED
      BY <3>1, <3>2
  <2> QED
    BY <2>2, <2>3 DEF k
<1>8. [i \in DOMAIN s |-> Pack(link.codec, s[i])] = [i \in 1 .. n - r |-> Pack(link.codec, sent[r + i])]
  BY <1>7
<1>9. Packed(s) = Between(r, n)
  BY <1>8 DEF Packed, Between, Frames, Packs, sent
<1>10. (s # <<>>) = (r < n)
  <2>1. Len(s) = n - r
    BY <1>2, <1>5
  <2>2. s = <<>> <=> Len(s) = 0
    BY <1>5, EmptySeq
  <2>3. s = <<>> <=> ~(r < n)
    BY <2>1, <2>2
  <2> QED
    BY <2>3
<1> QED
  BY <1>6, <1>9, <1>10 DEF s, m, sent

(***************************************************************************)
(* Nothing is lost, torn, invented or taken twice.                         *)
(***************************************************************************)

\* The first of two sequences with a common beginning.
LEMMA SameBeginning ==
  ASSUME NEW a, NEW b, IsSeq(a), IsSeq(b), NEW n \in Nat, n <= Len(a), n <= Len(b),
         \A i \in 1 .. n : a[i] = b[i]
  PROVE  SubSeq(a, 1, n) = SubSeq(b, 1, n)
<1>1. PICK M : a \in Seq(M)
  BY DEF IsSeq
<1>2. PICK N : b \in Seq(N)
  BY DEF IsSeq
<1> DEFINE S == M \cup N
           x == SubSeq(a, 1, n)
           y == SubSeq(b, 1, n)
<1>3. a \in Seq(S) /\ b \in Seq(S)
  BY <1>1, <1>2
<1>4. 1 \in Nat /\ 1 <= n + 1 /\ n + 1 - 1 = n /\ \A i \in Int : 1 + i - 1 = i
  OBVIOUS
<1> HIDE DEF S
<1>5. x \in Seq(S) /\ Len(x) = n + 1 - 1 /\ \A i \in 1 .. n + 1 - 1 : x[i] = a[1 + i - 1]
  BY <1>3, <1>4, CutFacts
<1>6. y \in Seq(S) /\ Len(y) = n + 1 - 1 /\ \A i \in 1 .. n + 1 - 1 : y[i] = b[1 + i - 1]
  BY <1>3, <1>4, CutFacts
<1> HIDE DEF x, y
<1>7. Len(x) = n /\ Len(y) = n /\ \A i \in 1 .. n : x[i] = y[i]
  BY <1>4, <1>5, <1>6
<1>8. x = y
  BY <1>5, <1>6, <1>7, SameSeq
<1> QED
  BY <1>8 DEF x, y

LEMMA SuffixOfCat ==
  ASSUME NEW S, NEW a \in Seq(S), NEW b \in Seq(S)
  PROVE  IsSuffix(b, a \o b)
<1> DEFINE c == a \o b
<1>1. /\ c \in Seq(S) /\ Len(c) = Len(a) + Len(b)
      /\ \A i \in 1 .. Len(b) : c[Len(a) + i] = b[i]
  BY CatFacts
<1>2. Len(a) \in Nat /\ Len(b) \in Nat
  BY SeqFacts
<1> HIDE DEF c
<1>3. Len(b) <= Len(c) /\ Len(c) - Len(b) = Len(a)
  BY <1>1, <1>2
<1>4. \A i \in 1 .. Len(b) : b[i] = c[Len(c) - Len(b) + i]
  BY <1>1, <1>3
<1>5. IsSuffix(b, c)
  BY <1>1, <1>3, <1>4, SuffixAt
<1> QED
  BY <1>5 DEF c

\* While every packet is written at once: the stream is what is left of the
\* noise and the packets of the messages that were not handed on.
LEMMA WholeStream ==
  ASSUME \A s \in Scenarios : Regular(s), TypeInv, InOrder, Whole
  PROVE  /\ Len(received) <= issued
         /\ \E z \in Seq(Harmless) : /\ acc \o wire = z \o Between(Len(received), issued)
                                     /\ received # <<>> => z = <<>>
         /\ Between(Len(received), issued) \in Seq(Byte)
<1> DEFINE r == Len(received)
           f == Between(r, intact)
<1>1. /\ link.codec \in Codecs /\ Script(link.codec, link.script)
      /\ intact \in Nat /\ r \in Nat /\ Len(link.script) \in Nat /\ intact <= Len(link.script)
  BY Counts
<1>2. r <= intact /\ intact = issued
  BY DEF InOrder, Whole
<1>3. PICK z \in Seq(Harmless), j \in Seq(Byte) :
        /\ acc \o wire = (z \o f) \o j
        /\ received # <<>> => z = <<>>
        /\ j = <<>>
  BY DEF InOrder
<1> HIDE DEF r
<1>4. f \in Seq(Byte)
  BY <1>1, <1>2, FramesFacts DEF Between
<1> DEFINE zf == z \o f
<1>5. zf \o <<>> = zf
  <2>1. z \in Seq(Byte)
    BY HarmlessFacts
  <2> HIDE DEF f
  <2>2. zf \in Seq(Byte)
    BY <1>4, <2>1, CatFacts
  <2> HIDE DEF zf
  <2> QED
    BY <2>2, ConcatEmptySeq
<1>6. acc \o wire = z \o f
  BY <1>3, <1>5
<1> QED
  BY <1>2, <1>3, <1>4, <1>6 DEF r

LEMMA StreamInvIntact ==
  ASSUME \A s \in Scenarios : Regular(s), StreamInv
  PROVE  StreamIntact
<1>0. TypeInv /\ (InOrder \/ Spoilt)
  BY DEF StreamInv, Follows
<1> DEFINE r == Len(received)
           safe == Min({r, intact})
<1>1. /\ intact \in Nat /\ issued \in Nat /\ r \in Nat /\ Len(link.script) \in Nat
      /\ intact <= issued /\ issued <= Len(link.script)
  BY <1>0, Counts
<1>2. safe \in Nat /\ safe <= r /\ safe <= intact
  BY <1>1, TwoNumbers
<1>3. \A i \in 1 .. safe : received[i] = link.script[i]
  <2> HIDE DEF safe
  <2>1. \A i \in 1 .. safe : i \in 1 .. r /\ i \in 1 .. intact
    BY <1>1, <1>2
  <2> QED
    BY <1>0, <2>1 DEF InOrder, Spoilt
<1>4. IsSeq(received) /\ IsSeq(link.script)
  BY <1>0, ScriptIsSeq DEF TypeInv, IsSeq
<1>5. SubSeq(received, 1, safe) = SubSeq(link.script, 1, safe)
  <2> HIDE DEF safe
  <2>1. safe <= Len(received) /\ safe <= Len(link.script)
    BY <1>1, <1>2
  <2> QED
    BY <1>2, <1>3, <1>4, <2>1, SameBeginning
<1>6. up \/ Len(received) >= intact
  BY <1>0, <1>1 DEF InOrder, Spoilt
<1>7. ASSUME Whole
      PROVE  /\ r <= issued
             /\ IsSuffix(Packed(Left), acc \o wire)
             /\ received # <<>> => Packed(Left) = acc \o wire
  <2>1. InOrder
    BY <1>0, <1>7 DEF Spoilt
  <2>2. r <= issued /\ Between(r, issued) \in Seq(Byte)
    BY <1>0, <1>7, <2>1, WholeStream
  <2>3. PICK z \in Seq(Harmless) : /\ acc \o wire = z \o Between(r, issued)
                                   /\ received # <<>> => z = <<>>
    BY <1>0, <1>7, <2>1, WholeStream
  <2>4. Packed(Left) = Between(r, issued)
    BY <1>0, <1>1, <2>2, PackedIsFrames DEF Left
  <2> DEFINE f == Between(r, issued)
  <2>5. f \in Seq(Byte) /\ z \in Seq(Byte)
    BY <2>2, HarmlessFacts
  <2> HIDE DEF f, r
  <2>6. IsSuffix(f, z \o f) /\ <<>> \o f = f
    BY <2>5, SuffixOfCat, ConcatEmptySeq
  <2> QED
    BY <2>2, <2>3, <2>4, <2>6 DEF f
<1> QED
  BY <1>5, <1>6, <1>7 DEF StreamIntact

\* Whatever the pieces in which the bytes come: what is handed on is what was
\* sent, in order, as long as every packet found room at once, and the bytes of
\* the rest are in the buffer or on the wire.
THEOREM StreamKept ==
  ASSUME \A s \in Scenarios : Regular(s)
  PROVE  Spec => []StreamIntact
<1>1. Spec => []StreamInv
  BY StreamInvariant
<1>2. StreamInv => StreamIntact
  BY StreamInvIntact
<1> QED
  BY <1>1, <1>2, PTL

LEMMA ReadTakesOne ==
  ASSUME \A s \in Scenarios : Regular(s), StreamInv, Reader, Whole
  PROVE  LET complete == Left # <<>> /\ Len(wire') <= Len(Packed(Tail(Left)))
         IN  received' = IF complete THEN Append(received, Head(Left)) ELSE received
<1> DEFINE r == Len(received)
           complete == Left # <<>> /\ Len(wire') <= Len(Packed(Tail(Left)))
<1>0. TypeInv /\ InOrder
  BY DEF StreamInv, Follows, Spoilt
<1>1. /\ intact \in Nat /\ issued \in Nat /\ r \in Nat /\ Len(link.script) \in Nat
      /\ intact <= issued /\ issued <= Len(link.script)
      /\ link.codec \in Codecs /\ Script(link.codec, link.script)
  BY <1>0, Counts
<1>2. r <= issued /\ intact = issued
  BY <1>0 DEF InOrder, Whole
<1>3. PICK n \in 1 .. Min({BufSize, Len(wire)}) : Read(n)
  BY DEF Reader
<1>4. (Left # <<>>) = (r < issued)
  BY <1>0, <1>1, <1>2, PackedIsFrames DEF Left
<1>5. CASE r < issued
  <2> DEFINE f == Between(r + 1, issued)
  <2>1. Head(Left) = link.script[r + 1] /\ Tail(Left) = SubSeq(link.script, (r + 1) + 1, issued)
    BY <1>0, <1>1, <1>2, <1>5, PackedIsFrames DEF Left
  <2>2. r + 1 \in Nat /\ r + 1 <= issued
    BY <1>1, <1>5
  <2>3. Packed(Tail(Left)) = f
    <3> DEFINE k == r + 1
    <3>1. k \in Nat /\ k <= issued
      BY <2>2
    <3>2. Tail(Left) = SubSeq(link.script, k + 1, issued)
      BY <2>1
    <3> HIDE DEF k
    <3>3. Packed(SubSeq(link.script, k + 1, issued)) = Between(k, issued)
      BY <1>0, <1>1, <3>1, PackedIsFrames
    <3> QED
      BY <3>2, <3>3 DEF k
  <2>4. PICK j \in Seq(Byte) :
          /\ j = <<>>
          /\ IF Len(wire') <= Len(f \o j)
             THEN received' = Append(received, link.script[r + 1])
             ELSE received' = received
    BY <1>0, <1>2, <1>3, <1>5, FrontRead
  <2>5. f \in Seq(Byte)
    <3> HIDE DEF r
    <3> QED
      BY <1>1, <2>2, FramesFacts DEF Between
  <2> HIDE DEF f, r
  <2>6. f \o <<>> = f
    BY <2>5, ConcatEmptySeq
  <2> QED
    BY <1>4, <1>5, <2>1, <2>3, <2>4, <2>6
<1>6. CASE r = issued
  <2>1. received' = received
    BY <1>0, <1>2, <1>3, <1>6, NoiseOnlyRead
  <2>2. ~complete
    BY <1>1, <1>4, <1>6
  <2> QED
    BY <2>1, <2>2
<1>7. r < issued \/ r = issued
  BY <1>1, <1>2
<1> QED
  BY <1>5, <1>6, <1>7

\* What module Server assumes of HandleRead: a read hands on one message if the
\* next frame is complete now, and none otherwise.
THEOREM ReadsOne ==
  ASSUME \A s \in Scenarios : Regular(s)
  PROVE  Spec => OneMessagePerRead
<1>1. Spec => []StreamInv
  BY StreamInvariant
<1>2. StreamInv /\ [Next]_vars =>
        [ Reader /\ Whole =>
            LET complete == Left # <<>> /\ Len(wire') <= Len(Packed(Tail(Left)))
            IN  received' = IF complete THEN Append(received, Head(Left)) ELSE received ]_vars
  BY ReadTakesOne
<1> QED
  BY <1>1, <1>2, PTL DEF Spec, OneMessagePerRead

(***************************************************************************)
(* A changed byte.                                                         *)
(***************************************************************************)

\* Two numbers of a byte have different digits.
LEMMA Hex2Differs ==
  ASSUME NEW m \in Byte, NEW n \in Byte, m # n
  PROVE  Hex2(m) # Hex2(n)
BY Hex2Facts

LEMMA SomeOtherByte ==
  ASSUME NEW x \in Byte, NEW d \in {1, 100}
  PROVE  (x + d) % 256 \in Byte /\ (x + d) % 256 # x
<1>1. CASE x + d < 256
  BY <1>1 DEF Byte
<1>2. CASE ~(x + d < 256)
  <2>1. (x + d) % 256 = x + d - 256
    BY <1>2 DEF Byte
  <2> QED
    BY <1>2, <2>1 DEF Byte
<1> QED
  BY <1>1, <1>2

\* A packet in which any byte of content or checksum is another one, save 0 for 255
\* or 255 for 0, is not taken for a message.
THEOREM ChangeNoticed ==
  ASSUME NEW codec \in Codecs, NEW m, Sendable(codec, m), NEW i \in 5 .. Len(Pack(codec, m)),
         NEW v \in Byte, v # Pack(codec, m)[i], {Pack(codec, m)[i], v} # {0, 255}
  PROVE  SyncRead(codec, [Pack(codec, m) EXCEPT ![i] = v], 0).code # "PARSE_OK"
<1> DEFINE p == Pack(codec, m)
           c == Content(codec, m)
           n == Len(c)
           k == Hex2(Checksum(c))
           q == [p EXCEPT ![i] = v]
           o4 == 4
           on == n + 4
           c1 == SubSeq(q, o4 + 1, o4 + n)
           k1 == SubSeq(q, on + 1, on + 2)
<1>1. /\ p \in Seq(Byte) /\ c \in Seq(Byte) /\ n \in Nat /\ Len(p) = n + 6
      /\ p[1] = 1 /\ p[2] = 2 /\ SizeOf(p[3], p[4]) = n
      /\ \A x \in 1 .. n : p[4 + x] = c[x]
      /\ At(p, on, k)
  BY PacketBytes
<1>2. Checksum(c) \in Byte /\ n \in Byte
  <2>1. c \in Seq(Byte) /\ Len(c) \in Byte
    BY RoundTrip
  <2> QED
    BY <2>1, ChecksumByte
<1>3. k \in Seq(Byte) /\ Len(k) = 2
  BY <1>2, Hex2Facts
<1>4. i \in 5 .. Len(p) /\ v # p[i] /\ {p[i], v} # {0, 255}
  OBVIOUS
<1> HIDE DEF p, c, k
<1>5. q \in Seq(Byte) /\ Len(q) = n + 6 /\ q[i] = v /\ \A x \in 1 .. n + 6 : x # i => q[x] = p[x]
  <2>1. p \in [1 .. Len(p) -> Byte] /\ DOMAIN p = 1 .. Len(p) /\ Len(p) \in Nat
    BY <1>1, LenProperties, SeqFacts
  <2>2. q \in [1 .. Len(p) -> Byte] /\ q[i] = v /\ \A x \in 1 .. Len(p) : x # i => q[x] = p[x]
    BY <1>4, <2>1
  <2> HIDE DEF q
  <2>3. q \in Seq(Byte) /\ Len(q) = Len(p)
    BY <2>1, <2>2, FunctionIsSeq
  <2> QED
    BY <1>1, <2>2, <2>3
<1> HIDE DEF q
<1>6. q[1] = 1 /\ q[2] = 2 /\ q[3] = p[3] /\ q[4] = p[4]
  BY <1>1, <1>4, <1>5
<1>7. SubSeq(q, 0 + 1, 0 + 2) = <<1, 2>>
  <2>1. Sync \in Seq(Byte) /\ Len(Sync) = 2 /\ Sync[1] = 1 /\ Sync[2] = 2
    BY DEF Sync, Byte
  <2>2. At(q, 0, Sync)
    BY <1>1, <1>5, <1>6, <2>1 DEF At
  <2> DEFINE o == 0
  <2>3. o \in Nat /\ At(q, o, Sync)
    BY <2>2
  <2> HIDE DEF o
  <2>4. q \in Seq(Byte) /\ Sync \in Seq(Byte)
    BY <1>5, <2>1
  <2>5. SubSeq(q, o + 1, o + Len(Sync)) = Sync
    BY <2>3, <2>4, AtIs
  <2> QED
    BY <2>1, <2>5 DEF Sync, o
<1>8. SyncRead(codec, q, 0) = SizeRead(codec, q, 2)
  <2>1. ~(Len(q) - 0 < 2)
    BY <1>1, <1>5
  <2> QED
    BY <1>7, <2>1 DEF SyncRead
<1>9. SizeRead(codec, q, 2) = ContentRead(codec, q, o4, n)
  <2>1. ~(Len(q) - 2 < 2) /\ SizeOf(q[2 + 1], q[2 + 2]) = n /\ n # -1
    BY <1>1, <1>5, <1>6
  <2> HIDE DEF n
  <2> QED
    BY <2>1 DEF SizeRead
<1>10. o4 + n = on /\ ~(Len(q) - o4 < n) /\ ~(Len(q) - on < 2) /\ on \in Nat /\ o4 \in Nat
  BY <1>1, <1>5
<1>11. c1 \in Seq(Byte) /\ Len(c1) = n /\ \A x \in 1 .. n : c1[x] = q[4 + x]
  <2> DEFINE a == o4 + 1
             e == o4 + n
  <2>1. a \in Nat /\ e \in Nat /\ 1 <= a /\ a <= e + 1 /\ e <= Len(q) /\ e + 1 - a = n
        /\ \A x \in Int : a + x - 1 = 4 + x
    BY <1>1, <1>5
  <2>2. c1 = SubSeq(q, a, e)
    OBVIOUS
  <2> HIDE DEF a, e, c1, n
  <2>3. SubSeq(q, a, e) \in Seq(Byte) /\ Len(SubSeq(q, a, e)) = e + 1 - a
        /\ \A x \in 1 .. e + 1 - a : SubSeq(q, a, e)[x] = q[a + x - 1]
    BY <1>5, <2>1, CutFacts
  <2> QED
    BY <2>1, <2>2, <2>3
<1>12. k1 # Hex2(Checksum(c1))
  <2>1. CASE i <= on
    <3> DEFINE x0 == i - 4
    <3>1. x0 \in 1 .. n /\ 4 + x0 = i
      BY <1>1, <1>4, <2>1
    <3> HIDE DEF x0
    <3>2. c[x0] = p[i]
      BY <1>1, <3>1
    <3>3. c1 = [c EXCEPT ![x0] = v]
      <4> DEFINE c2 == [c EXCEPT ![x0] = v]
      <4>1. c \in [1 .. n -> Byte] /\ DOMAIN c = 1 .. n
        BY <1>1, LenProperties, SeqFacts
      <4>2. c2 \in [1 .. n -> Byte] /\ \A x \in 1 .. n : c2[x] = IF x = x0 THEN v ELSE c[x]
        BY <3>1, <4>1
      <4> HIDE DEF c2, c1
      <4>3. c2 \in Seq(Byte) /\ Len(c2) = n
        <5> HIDE DEF n
        <5> QED
          BY <1>1, <4>2, FunctionIsSeq
      <4>4. ASSUME NEW x \in 1 .. n PROVE c1[x] = c2[x]
        <5>1. CASE x = x0
          BY <1>5, <1>11, <3>1, <4>2, <5>1
        <5>2. CASE x # x0
          <6>1. 4 + x \in 1 .. n + 6 /\ 4 + x # i
            BY <1>1, <3>1, <5>2
          <6>2. q[4 + x] = p[4 + x] /\ p[4 + x] = c[x]
            BY <1>1, <1>5, <6>1
          <6> QED
            BY <1>11, <4>2, <5>2, <6>2
        <5> QED
          BY <5>1, <5>2
      <4>5. c1 = c2
        BY <1>11, <4>3, <4>4, SameSeq
      <4> QED
        BY <4>5 DEF c2
    <3>4. Checksum(c1) # Checksum(c)
      <4>1. v # c[x0] /\ {c[x0], v} # {0, 255}
        BY <1>4, <3>2
      <4> HIDE DEF c1
      <4>2. c \in Seq(Byte)
        BY <1>1
      <4>3. x0 \in 1 .. Len(c)
        BY <3>1
      <4>4. Checksum([c EXCEPT ![x0] = v]) # Checksum(c)
        BY <4>1, <4>2, <4>3, ChecksumDiffers
      <4> QED
        BY <3>3, <4>4
    <3>5. Checksum(c1) \in Byte
      <4> HIDE DEF c1
      <4>1. Checksum(c1) \in 0 .. 254
        BY <1>11, ChecksumRange
      <4> QED
        BY <4>1 DEF Byte
    <3>6. Hex2(Checksum(c1)) # k
      <4> HIDE DEF c1
      <4> QED
        BY <1>2, <3>4, <3>5, Hex2Differs DEF k
    <3>7. k1 = k
      <4>1. At(q, on, k)
        <5>1. ASSUME NEW x \in 1 .. Len(k) PROVE q[on + x] = k[x]
          <6>1. on + x \in 1 .. n + 6 /\ on + x # i
            BY <1>1, <1>3, <2>1
          <6>2. q[on + x] = p[on + x]
            BY <1>5, <6>1
          <6>3. p[on + x] = k[x]
            BY <1>1 DEF At
          <6> QED
            BY <6>2, <6>3
        <5>2. on + Len(k) <= Len(q)
          BY <1>1, <1>3, <1>5
        <5> QED
          BY <5>1, <5>2 DEF At
      <4> HIDE DEF on
      <4>3. q \in Seq(Byte) /\ k \in Seq(Byte) /\ on \in Nat
        BY <1>3, <1>5, <1>10
      <4>2. SubSeq(q, on + 1, on + Len(k)) = k
        BY <4>1, <4>3, AtIs
      <4> QED
        BY <1>3, <4>2
    <3> QED
      BY <3>6, <3>7
  <2>2. CASE ~(i <= on)
    <3>1. c1 = c
      <4> HIDE DEF c1
      <4>1. ASSUME NEW x \in 1 .. n PROVE c1[x] = c[x]
        <5>1. 4 + x \in 1 .. n + 6 /\ 4 + x # i
          BY <1>1, <1>4, <2>2
        <5>2. q[4 + x] = p[4 + x] /\ p[4 + x] = c[x]
          BY <1>1, <1>5, <5>1
        <5> QED
          BY <1>11, <5>2
      <4> QED
        BY <1>1, <1>11, <4>1, SameSeq
    <3> DEFINE x0 == i - on
    <3>2. x0 \in 1 .. 2 /\ on + x0 = i
      BY <1>1, <1>4, <2>2
    <3> HIDE DEF x0
    <3>3. k[x0] = p[i]
      BY <1>1, <1>3, <3>2 DEF At
    <3>4. k1[x0] = v
      <4> DEFINE a == on + 1
                 e == on + 2
      <4>1. a \in Nat /\ e \in Nat /\ 1 <= a /\ a <= e + 1 /\ e <= Len(q) /\ e + 1 - a = 2
            /\ \A x \in Int : a + x - 1 = on + x
        BY <1>1, <1>5
      <4> HIDE DEF a, e, on
      <4>2. \A x \in 1 .. e + 1 - a : SubSeq(q, a, e)[x] = q[a + x - 1]
        BY <1>5, <4>1, CutFacts
      <4>3. SubSeq(q, a, e)[x0] = q[a + x0 - 1]
        <5>1. x0 \in 1 .. e + 1 - a
          BY <3>2, <4>1
        <5> QED
          BY <4>2, <5>1
      <4>4. a + x0 - 1 = i
        BY <3>2, <4>1
      <4> QED
        BY <1>5, <4>3, <4>4 DEF a, e
    <3>5. k1 # k
      BY <1>4, <3>3, <3>4
    <3> QED
      BY <3>1, <3>5 DEF k
  <2> QED
    BY <2>1, <2>2
<1> HIDE DEF c1, k1, on, o4, n
<1>13. ContentRead(codec, q, o4, n) \in {Code("THROW"), ChecksumRead(codec, q, on, c1)}
  BY <1>10 DEF ContentRead, c1
<1>14. ChecksumRead(codec, q, on, c1) = Code("BAD_CHECKSUM")
  BY <1>10, <1>12 DEF ChecksumRead, k1
<1>15. SyncRead(codec, q, 0).code # "PARSE_OK"
  BY <1>8, <1>9, <1>13, <1>14 DEF Code
<1> QED
  BY <1>15 DEF q, p

LEMMA FirstSendable ==
  ASSUME \A s \in Scenarios : Regular(s), TypeInv
  PROVE  /\ link.codec \in Codecs /\ 1 \in DOMAIN link.script
         /\ \A i \in DOMAIN link.script : Sendable(link.codec, link.script[i])
<1>1. Regular(link) /\ link.codec \in Codecs
  BY StreamAssumption DEF TypeInv
<1>2. link.script \in Seq(Range(link.script)) /\ link.script # <<>>
  BY <1>1 DEF Regular
<1>3. 1 \in DOMAIN link.script
  <2>1. Len(link.script) \in Nat /\ DOMAIN link.script = 1 .. Len(link.script) /\ Len(link.script) # 0
    BY <1>2, SeqFacts, EmptySeq
  <2> QED
    BY <2>1
<1> QED
  BY <1>1, <1>3 DEF Regular

LEMMA TypesNotice ==
  ASSUME \A s \in Scenarios : Regular(s), TypeInv
  PROVE  CorruptionNoticed /\ LengthAnnounced
<1>1. /\ link.codec \in Codecs /\ 1 \in DOMAIN link.script
      /\ \A i \in DOMAIN link.script : Sendable(link.codec, link.script[i])
  BY FirstSendable
<1>2. CorruptionNoticed
  <2> DEFINE codec == link.codec
             m == link.script[1]
             p == Pack(codec, m)
  <2>1. ASSUME NEW i \in 5 .. Len(p), NEW d \in {1, 100}, {p[i], (p[i] + d) % 256} # {0, 255}
        PROVE  SyncRead(codec, [p EXCEPT ![i] = (p[i] + d) % 256], 0).code # "PARSE_OK"
    <3> DEFINE v == (p[i] + d) % 256
    <3>1. codec \in Codecs /\ Sendable(codec, m)
      BY <1>1
    <3> HIDE DEF codec, m
    <3>2. p[i] \in Byte
      <4>1. p \in Seq(Byte)
        BY <3>1, PacketBytes
      <4> HIDE DEF p
      <4>2. Len(p) \in Nat /\ \A x \in 1 .. Len(p) : p[x] \in Byte
        BY <4>1, SeqFacts
      <4> QED
        BY <4>2
    <3>3. v \in Byte /\ v # p[i]
      <4> HIDE DEF p
      <4> QED
        BY <3>2, SomeOtherByte
    <3>4. {p[i], v} # {0, 255}
      BY <2>1
    <3> HIDE DEF v
    <3>5. SyncRead(codec, [p EXCEPT ![i] = v], 0).code # "PARSE_OK"
      BY <3>1, <3>3, <3>4, ChangeNoticed
    <3> QED
      BY <3>5 DEF v
  <2> QED
    BY <2>1 DEF CorruptionNoticed
<1>3. LengthAnnounced
  <2>1. ASSUME NEW i \in DOMAIN link.script
        PROVE  LET packet == Pack(link.codec, link.script[i])
                   content == Content(link.codec, link.script[i])
               IN  /\ Len(packet) = Len(content) + 6
                   /\ SizeOf(packet[3], packet[4]) = Len(content)
    <3>1. Sendable(link.codec, link.script[i])
      BY <1>1
    <3> QED
      BY <1>1, <3>1, PacketBytes
  <2> QED
    BY <2>1 DEF LengthAnnounced
<1> QED
  BY <1>2, <1>3

\* One byte of the content or of the checksum changed: no message is taken,
\* except where 0 and 255 were exchanged.
THEOREM StreamNotices ==
  ASSUME \A s \in Scenarios : Regular(s)
  PROVE  Spec => []CorruptionNoticed
<1>1. Spec => []StreamInv
  BY StreamInvariant
<1>2. StreamInv => CorruptionNoticed
  BY TypesNotice DEF StreamInv
<1> QED
  BY <1>1, <1>2, PTL

\* With contents of up to 255 bytes the head has the true length; without that
\* bound the run codec_long shows that it has not.
THEOREM StreamAnnounces ==
  ASSUME \A s \in Scenarios : Regular(s)
  PROVE  Spec => []LengthAnnounced
<1>1. Spec => []StreamInv
  BY StreamInvariant
<1>2. StreamInv => LengthAnnounced
  BY TypesNotice DEF StreamInv
<1> QED
  BY <1>1, <1>2, PTL

=============================================================================
