------------------------- MODULE PacketParser_proofs -------------------------
(***************************************************************************)
(* Proofs about PacketParser: what the parser returns is, packet by packet,*)
(* what the peer has written, and nothing of it is lost.  The argument     *)
(* keeps all the bytes of the connection, t, and where each packet begins  *)
(* in it; the parser is at byte pos of t, between two packets or inside    *)
(* one.                                                                    *)
(***************************************************************************)
EXTENDS PacketParser, SequenceTheorems, WellFoundedInduction, TLAPS

-----------------------------------------------------------------------------
(* Numbers and sequences.                                                   *)

\* The order of the natural numbers, as a set of pairs.
Lt == {ss \in Nat \X Nat : ss[1] < ss[2]}

\* The order of the natural numbers is well-founded.
LEMMA LtWellFounded == IsWellFoundedOn(Lt, Nat)
  BY NatLessThanWellFounded, SMT DEF OpToRel, Lt

\* Induction, for a set of numbers.
LEMMA SetInduction ==
  ASSUME NEW S, 0 \in S, \A n \in Nat : n \in S => n + 1 \in S
  PROVE  Nat \subseteq S
<1> SUFFICES ASSUME Nat \ S # {} PROVE FALSE
  OBVIOUS
<1>1. \E x \in Nat \ S : \A y \in Nat \ S : ~ (<<y, x>> \in Lt)
  BY LtWellFounded, WFMin
<1>2. PICK x \in Nat \ S : \A y \in Nat \ S : ~ (<<y, x>> \in Lt)
  BY <1>1
<1>3. x # 0 /\ x - 1 \in Nat /\ (x - 1) + 1 = x
  BY <1>2
<1>4. <<x - 1, x>> \in Lt
  BY <1>3, <1>2 DEF Lt
<1>5. QED BY <1>2, <1>3, <1>4

\* Multiples of m, one after the other.
LEMMA Multiples ==
  ASSUME NEW m \in Nat
  PROVE  /\ \A i \in Nat : i * m \in Nat /\ (i + 1) * m = i * m + m
         /\ \A i, j \in Nat : i <= j => i * m <= j * m
<1>1. \A i \in Nat : i * m \in Nat /\ (i + 1) * m = i * m + m
  OBVIOUS
<1>2. ASSUME NEW i \in Nat, NEW j \in Nat, i <= j PROVE i * m <= j * m
  <2>1. PICK d \in Nat : j = i + d
    <3>1. j - i \in Nat /\ j = i + (j - i)
      BY <1>2
    <3>2. QED BY <3>1
  <2>2. (i + d) * m = i * m + d * m /\ d * m \in Nat /\ i * m \in Nat
    OBVIOUS
  <2>3. QED BY <2>1, <2>2
<1>3. QED BY <1>1, <1>2

\* How often m goes into n.
LEMMA Quotient ==
  ASSUME NEW m \in Nat, m > 0, NEW n \in Nat
  PROVE  n \div m \in Nat /\ (n \div m) * m <= n /\ n < (n \div m) * m + m
  OBVIOUS

\* Quotient and remainder are unique.
LEMMA Division ==
  ASSUME NEW m \in Nat, m > 0, NEW x \in Nat, NEW q \in Nat, NEW r \in Nat, r < m, x = q * m + r
  PROVE  x \div m = q /\ x % m = r
<1> DEFINE d == x \div m
           e == x % m
<1>1. d \in Nat /\ e \in Nat /\ e < m /\ x = d * m + e
  OBVIOUS
<1> HIDE DEF d, e
<1>2. q * m \in Nat /\ d * m \in Nat /\ (q + 1) * m = q * m + m /\ (d + 1) * m = d * m + m
  BY <1>1, Multiples
<1>3. ASSUME q < d PROVE FALSE
  <2>1. (q + 1) * m <= d * m
    <3>1. q + 1 \in Nat /\ q + 1 <= d
      BY <1>1, <1>3
    <3>2. QED BY <1>1, <3>1, Multiples
  <2> DEFINE y == q * m
             z == d * m
  <2>2. y + m <= z /\ y \in Nat /\ z \in Nat /\ x = y + r /\ x = z + e
    BY <1>1, <1>2, <2>1
  <2> HIDE DEF y, z
  <2>3. QED BY <1>1, <2>2
<1>4. ASSUME d < q PROVE FALSE
  <2>1. (d + 1) * m <= q * m
    <3>1. d + 1 \in Nat /\ d + 1 <= q
      BY <1>1, <1>4
    <3>2. QED BY <1>1, <3>1, Multiples
  <2> DEFINE y == q * m
             z == d * m
  <2>2. z + m <= y /\ y \in Nat /\ z \in Nat /\ x = y + r /\ x = z + e
    BY <1>1, <1>2, <2>1
  <2> HIDE DEF y, z
  <2>3. QED BY <1>1, <2>2
<1>5. d = q
  BY <1>1, <1>3, <1>4
<1>6. e = r
  <2> DEFINE y == q * m
  <2>1. y \in Nat /\ x = y + r /\ x = y + e
    BY <1>1, <1>2, <1>5
  <2> HIDE DEF y
  <2>2. QED BY <1>1, <2>1
<1>7. QED BY <1>5, <1>6 DEF d, e

\* FlattenSeq's function: the first sequence, then one more at a time.
Flattens(f, q, n) ==
  f = [i \in 1..n |-> IF i = 1 THEN q[i] ELSE f[i - 1] \o q[i]]

\* There is one.
LEMMA FlattenExists ==
  ASSUME NEW q, NEW n \in Nat
  PROVE  \E f : Flattens(f, q, n)
<1> DEFINE P == {m \in Nat : \E f : Flattens(f, q, m)}
<1>1. 0 \in P
  <2>1. 1..0 = {}
    OBVIOUS
  <2> DEFINE f == [i \in {} |-> i]
  <2>2. f = [i \in {} |-> IF i = 1 THEN q[i] ELSE f[i - 1] \o q[i]]
    OBVIOUS
  <2>3. Flattens(f, q, 0)
    BY <2>1, <2>2 DEF Flattens
  <2>4. QED BY <2>3
<1>2. ASSUME NEW m \in Nat, m \in P PROVE m + 1 \in P
  <2>1. PICK f : Flattens(f, q, m)
    BY <1>2
  <2> DEFINE g == [i \in 1..(m + 1) |-> IF i <= m THEN f[i] ELSE IF i = 1 THEN q[i] ELSE f[m] \o q[i]]
             h == [i \in 1..(m + 1) |-> IF i = 1 THEN q[i] ELSE g[i - 1] \o q[i]]
  <2>2. \A i \in 1..m : f[i] = IF i = 1 THEN q[i] ELSE f[i - 1] \o q[i]
    BY <2>1 DEF Flattens
  <2>3. ASSUME NEW i \in 1..(m + 1) PROVE g[i] = h[i]
    <3>1. CASE i <= m
      <4>1. i \in 1..m /\ (i # 1 => i - 1 \in 1..(m + 1) /\ i - 1 <= m)
        BY <3>1
      <4>2. g[i] = f[i] /\ (i # 1 => g[i - 1] = f[i - 1])
        BY <3>1, <4>1
      <4>3. QED BY <2>2, <4>1, <4>2
    <3>2. CASE i = m + 1 /\ i # 1
      <4>1. i - 1 = m /\ m \in 1..(m + 1) /\ m <= m /\ ~(i <= m)
        BY <3>2
      <4>2. g[m] = f[m]
        BY <4>1
      <4>3. g[i] = f[m] \o q[i]
        BY <4>1, <3>2
      <4>4. QED BY <4>1, <4>2, <4>3, <3>2
    <3>3. CASE i = m + 1 /\ i = 1
      BY <3>3
    <3>4. QED BY <3>1, <3>2, <3>3
  <2>4. g = h
    <3> HIDE DEF g
    <3>1. DOMAIN g = 1..(m + 1) /\ g = [i \in DOMAIN g |-> g[i]]
      BY DEF g
    <3>2. QED BY <2>3, <3>1
  <2>5. Flattens(g, q, m + 1)
    <3> HIDE DEF g
    <3>1. QED BY <2>4 DEF Flattens
  <2> HIDE DEF g
  <2>6. QED BY <2>5
<1>3. Nat \subseteq P
  <2> HIDE DEF P
  <2>1. QED BY <1>1, <1>2, SetInduction
<1>4. QED BY <1>3

\* So FlattenSeq does what it says.
LEMMA FlattenFacts ==
  ASSUME NEW S, NEW q \in Seq(Seq(S)), Len(q) > 0
  PROVE  \E f \in [1..Len(q) -> Seq(S)] :
           /\ FlattenSeq(q) = f[Len(q)]
           /\ f[1] = q[1]
           /\ \A i \in 2..Len(q) : f[i] = f[i - 1] \o q[i]
<1> DEFINE f == CHOOSE g : Flattens(g, q, Len(q))
<1>1. Len(q) \in Nat /\ \A i \in 1..Len(q) : q[i] \in Seq(S)
  OBVIOUS
<1>2. Flattens(f, q, Len(q))
  BY <1>1, FlattenExists
<1>3. FlattenSeq(q) = f[Len(q)]
  BY DEF FlattenSeq, Flattens
<1> HIDE DEF f
<1>4. \A i \in 1..Len(q) : f[i] = IF i = 1 THEN q[i] ELSE f[i - 1] \o q[i]
  BY <1>2 DEF Flattens
<1> DEFINE P == {m \in Nat : m + 1 \in 1..Len(q) => f[m + 1] \in Seq(S)}
<1>5. 0 \in P
  BY <1>1, <1>4
<1>6. ASSUME NEW m \in Nat, m \in P PROVE m + 1 \in P
  <2> SUFFICES ASSUME (m + 1) + 1 \in 1..Len(q) PROVE f[(m + 1) + 1] \in Seq(S)
    OBVIOUS
  <2>1. m + 1 \in 1..Len(q) /\ ((m + 1) + 1) - 1 = m + 1 /\ (m + 1) + 1 # 1
    BY <1>1
  <2>2. f[(m + 1) + 1] = f[m + 1] \o q[(m + 1) + 1]
    BY <1>4, <2>1
  <2>3. f[m + 1] \in Seq(S) /\ q[(m + 1) + 1] \in Seq(S)
    BY <1>6, <2>1, <1>1
  <2>4. QED BY <2>2, <2>3
<1>7. Nat \subseteq P
  <2> HIDE DEF P
  <2>1. QED BY <1>5, <1>6, SetInduction
<1>8. \A i \in 1..Len(q) : f[i] \in Seq(S)
  <2>1. \A i \in 1..Len(q) : i - 1 \in Nat /\ (i - 1) + 1 = i
    BY <1>1
  <2>2. QED BY <1>7, <2>1
<1>9. f \in [1..Len(q) -> Seq(S)]
  <2>1. DOMAIN f = 1..Len(q) /\ f = [i \in 1..Len(q) |-> f[i]]
    BY <1>2 DEF Flattens
  <2>2. QED BY <1>8, <2>1
<1>10. f[1] = q[1]
  BY <1>1, <1>4
<1>11. \A i \in 2..Len(q) : f[i] = f[i - 1] \o q[i]
  <2>1. \A i \in 2..Len(q) : i \in 1..Len(q) /\ i # 1
    BY <1>1
  <2>2. QED BY <1>4, <2>1
<1>12. QED BY <1>3, <1>9, <1>10, <1>11

\* x holds the m bytes of a, then those of d.
Joined(x, a, d, m) ==
  /\ Len(x) = m + Len(d)
  /\ \A j \in 1..m : x[j] = a[j]
  /\ \A j \in 1..Len(d) : x[m + j] = d[j]

\* What a concatenation holds.
LEMMA Concat ==
  ASSUME NEW S, NEW a \in Seq(S), NEW d \in Seq(S), NEW m, Len(a) = m
  PROVE  m \in Nat /\ Len(d) \in Nat /\ a \o d \in Seq(S) /\ Joined(a \o d, a, d, m)
<1>0. m \in Nat
  OBVIOUS
<1>1. /\ a \o d \in Seq(S) /\ Len(a \o d) = m + Len(d) /\ Len(d) \in Nat
      /\ \A i \in 1..(m + Len(d)) : (a \o d)[i] = IF i <= m THEN a[i] ELSE d[i - m]
  <2>1. a \o d \in Seq(S) /\ Len(a \o d) = Len(a) + Len(d) /\ Len(d) \in Nat
    OBVIOUS
  <2>2. \A i \in 1 .. Len(a) + Len(d) : (a \o d)[i] = IF i <= Len(a) THEN a[i] ELSE d[i - Len(a)]
    BY ConcatProperties
  <2>3. QED BY <2>1, <2>2
<1>2. ASSUME NEW j \in 1..m PROVE (a \o d)[j] = a[j]
  <2>1. j \in 1..(m + Len(d)) /\ j <= m
    BY <1>0, <1>1
  <2>2. QED BY <1>1, <2>1
<1>3. ASSUME NEW j \in 1..Len(d) PROVE (a \o d)[m + j] = d[j]
  <2>1. m + j \in 1..(m + Len(d)) /\ ~(m + j <= m) /\ (m + j) - m = j
    BY <1>0, <1>1
  <2>2. QED BY <1>1, <2>1
<1>4. QED BY <1>0, <1>1, <1>2, <1>3 DEF Joined

-----------------------------------------------------------------------------
(* A packet on the wire.                                                     *)

\* Fragment i of packet p: the bytes of p before it, the bytes on the wire before
\* it, the bytes of p in it, and these as a sequence.
CutStart(i) == (i - 1) * MaxLen
FragStart(i) == (i - 1) * (MaxLen + 4)
FragLen(p, i) == IF i * MaxLen <= Len(p) THEN MaxLen ELSE Len(p) - CutStart(i)
Cut(p, i) == SubSeq(p, (i - 1) * MaxLen + 1, IF i * MaxLen < Len(p) THEN i * MaxLen ELSE Len(p))

\* Its number, when the first fragment has the number s.
Number(s, i) == (s + i - 1) % SeqCount

\* A fragment holds at least a byte.
LEMMA MaxLenType == MaxLen \in Nat /\ MaxLen >= 1
<1> DEFINE sq == Radix * Radix
           cb == sq * Radix
<1>1. Radix \in Nat /\ Radix > 1
  BY ParserAssumption
<1>2. sq \in Nat /\ sq >= 2
  BY <1>1
<1> HIDE DEF sq
<1>3. cb \in Nat /\ cb >= 2
  BY <1>1, <1>2
<1>4. MaxLen = cb - 1
  BY DEF MaxLen, sq
<1>5. QED BY <1>3, <1>4

\* The fragments of a packet: all are full but the last, which is not, and which
\* ends where the packet ends.
LEMMA FragmentFacts ==
  ASSUME NEW p \in Seq(Nat)
  PROVE  /\ NumFragments(p) \in Nat /\ NumFragments(p) >= 1
         /\ \A i \in 1..NumFragments(p) :
              /\ CutStart(i) \in Nat /\ FragLen(p, i) \in 0..MaxLen
              /\ CutStart(i) + FragLen(p, i) <= Len(p)
              /\ i < NumFragments(p) => FragLen(p, i) = MaxLen
              /\ i = NumFragments(p) => FragLen(p, i) < MaxLen /\ CutStart(i) + FragLen(p, i) = Len(p)
              /\ CutStart(i + 1) = CutStart(i) + MaxLen
              /\ Cut(p, i) \in Seq(Nat) /\ Len(Cut(p, i)) = FragLen(p, i)
              /\ \A j \in 1..FragLen(p, i) : Cut(p, i)[j] = p[CutStart(i) + j]
<1> DEFINE M == MaxLen
           n == Len(p)
           q == n \div M
<1>1. M \in Nat /\ M >= 1 /\ n \in Nat
  BY MaxLenType
<1> HIDE DEF M, n
<1>2. q \in Nat /\ q * M <= n /\ n < q * M + M
  BY <1>1, Quotient
<1> HIDE DEF q
<1>3. NumFragments(p) = q + 1
  BY DEF NumFragments, q, M, n
<1>4. ASSUME NEW i \in 1..(q + 1)
      PROVE  /\ CutStart(i) \in Nat /\ FragLen(p, i) \in 0..M
             /\ CutStart(i) + FragLen(p, i) <= n
             /\ i < q + 1 => FragLen(p, i) = M
             /\ i = q + 1 => FragLen(p, i) < M /\ CutStart(i) + FragLen(p, i) = n
             /\ CutStart(i + 1) = CutStart(i) + M
             /\ Cut(p, i) \in Seq(Nat) /\ Len(Cut(p, i)) = FragLen(p, i)
             /\ \A j \in 1..FragLen(p, i) : Cut(p, i)[j] = p[CutStart(i) + j]
  <2> DEFINE a == CutStart(i)
             l == FragLen(p, i)
  <2>1. PICK h \in Nat : i = h + 1 /\ h <= q
    <3>1. i - 1 \in Nat /\ i = (i - 1) + 1 /\ i - 1 <= q
      BY <1>2
    <3>2. QED BY <3>1
  <2>2. i - 1 = h /\ (i + 1) - 1 = i
    BY <2>1
  <2>3. a = h * M /\ a \in Nat /\ i * M = a + M /\ CutStart(i + 1) = a + M
    BY <1>1, <2>1, <2>2, Multiples DEF CutStart, M
  <2>4. a <= q * M /\ (i < q + 1 => i * M <= q * M) /\ q * M \in Nat
    <3>1. h * M <= q * M /\ q * M \in Nat
      BY <1>1, <1>2, <2>1, Multiples
    <3>2. ASSUME i < q + 1 PROVE i * M <= q * M
      <4>1. i \in Nat /\ i <= q
        BY <3>2, <1>2
      <4>2. QED BY <4>1, <1>1, <1>2, Multiples
    <3>3. QED BY <2>3, <3>1, <3>2
  <2>5. ASSUME i = q + 1 PROVE a = q * M
    <3>1. h = q
      BY <2>1, <2>5, <1>2
    <3>2. QED BY <3>1, <2>3
  <2> DEFINE x == i * M
             y == q * M
  <2>6. x = a + M /\ a <= y /\ (i < q + 1 => x <= y) /\ (i = q + 1 => a = y) /\ y \in Nat /\ y <= n /\ n < y + M /\ a \in Nat
    BY <1>2, <2>3, <2>4, <2>5
  <2>7. l = (IF x <= n THEN M ELSE n - a) /\ Cut(p, i) = SubSeq(p, a + 1, IF x < n THEN x ELSE n)
    BY DEF FragLen, Cut, CutStart, M, n
  <2> HIDE DEF x, y, a, l
  <2>8. l \in 0..M /\ a + l <= n /\ (i < q + 1 => l = M) /\ (i = q + 1 => l < M /\ a + l = n)
    BY <1>1, <1>2, <2>6, <2>7
  <2>9. (IF x < n THEN x ELSE n) = a + l
    BY <1>1, <2>6, <2>7, <2>8
  <2>10. Cut(p, i) \in Seq(Nat) /\ Len(Cut(p, i)) = l /\ \A j \in 1..l : Cut(p, i)[j] = p[a + j]
    <3>1. Cut(p, i) = SubSeq(p, a + 1, a + l)
      BY <2>7, <2>9
    <3>2. l \in Nat /\ a \in Nat /\ a + l <= Len(p)
      BY <2>6, <2>8, <1>1 DEF n
    <3>3. SubSeq(p, a + 1, a + l) = [j \in 1..l |-> p[a + j]]
      BY <3>2
    <3>4. \A j \in 1..l : a + j \in 1..Len(p)
      BY <3>2
    <3>5. \A j \in 1..l : p[a + j] \in Nat
      BY <3>4
    <3>6. QED BY <3>1, <3>2, <3>3, <3>5
  <2>11. QED BY <2>3, <2>6, <2>8, <2>10 DEF a, l
<1>5. QED BY <1>2, <1>3, <1>4 DEF M, n

\* Where the bytes of packet p lie in t, when it begins behind the first at bytes
\* and its first fragment has the number s.
Framed(t, at, p, s) ==
  \A i \in 1..NumFragments(p) :
    /\ t[at + FragStart(i) + 1] = FragLen(p, i) % Radix
    /\ t[at + FragStart(i) + 2] = (FragLen(p, i) \div Radix) % Radix
    /\ t[at + FragStart(i) + 3] = FragLen(p, i) \div (Radix * Radix)
    /\ t[at + FragStart(i) + 4] = Number(s, i)
    /\ \A j \in 1..FragLen(p, i) : t[at + FragStart(i) + 4 + j] = p[CutStart(i) + j]

\* The bytes of a packet on the wire.
PacketSize(p) == FragStart(NumFragments(p)) + 4 + FragLen(p, NumFragments(p))

\* b is a fragment: length, number, data.
IsFragment(b, n, s, d) ==
  /\ b \in Seq(Nat) /\ Len(b) = 4 + Len(d)
  /\ b[1] = n % Radix /\ b[2] = (n \div Radix) % Radix
  /\ b[3] = n \div (Radix * Radix) /\ b[4] = s
  /\ \A j \in 1..Len(d) : b[4 + j] = d[j]

\* The bytes of one fragment.
LEMMA FragmentBytesFacts ==
  ASSUME NEW n \in Nat, NEW s \in Nat, NEW d \in Seq(Nat)
  PROVE  IsFragment(FragmentBytes(n, s, d), n, s, d)
<1> DEFINE x == n % Radix
           y == (n \div Radix) % Radix
           z == n \div (Radix * Radix)
           h == <<x, y, z, s>>
<1>1. x \in Nat /\ y \in Nat /\ z \in Nat
  <2>1. Radix \in Nat /\ Radix > 0
    BY ParserAssumption
  <2> DEFINE r == Radix * Radix
  <2>2. r \in Nat /\ r > 0
    BY <2>1
  <2> HIDE DEF r
  <2>3. x \in Nat /\ n \div Radix \in Nat /\ n \div r \in Nat
    BY <2>1, <2>2
  <2> DEFINE e == n \div Radix
  <2> HIDE DEF e
  <2>4. e \in Nat
    BY <2>3 DEF e
  <2>5. e % Radix \in Nat
    BY <2>1, <2>4
  <2>6. QED BY <2>3, <2>5 DEF e, r
<1>2. FragmentBytes(n, s, d) = h \o d
  BY DEF FragmentBytes
<1> HIDE DEF x, y, z
<1>3. h \in Seq(Nat) /\ Len(h) = 4 /\ h[1] = x /\ h[2] = y /\ h[3] = z /\ h[4] = s
  BY <1>1
<1> HIDE DEF h
<1>4. Len(d) \in Nat
  OBVIOUS
<1>5. /\ h \o d \in Seq(Nat) /\ Len(h \o d) = 4 + Len(d)
      /\ \A i \in 1..4 : (h \o d)[i] = h[i]
      /\ \A j \in 1..Len(d) : (h \o d)[4 + j] = d[j]
  <2>1. h \o d \in Seq(Nat) /\ Joined(h \o d, h, d, 4)
    BY <1>3, Concat
  <2>2. QED BY <2>1 DEF Joined
<1>8. /\ (h \o d)[1] = x /\ (h \o d)[2] = y /\ (h \o d)[3] = z /\ (h \o d)[4] = s
  <2>1. 1 \in 1..4 /\ 2 \in 1..4 /\ 3 \in 1..4 /\ 4 \in 1..4
    OBVIOUS
  <2>2. QED BY <1>3, <1>5, <2>1
<1>9. QED BY <1>2, <1>4, <1>5, <1>8 DEF IsFragment, x, y, z

\* Fragments follow each other at a distance of MaxLen + 4 as long as they are full.
LEMMA FragStartFacts ==
  /\ FragStart(1) = 0
  /\ \A i \in Nat \ {0} : FragStart(i) \in Nat /\ FragStart(i + 1) = FragStart(i) + MaxLen + 4
<1> DEFINE m == MaxLen + 4
<1>1. m \in Nat
  BY MaxLenType
<1>2. \A i : FragStart(i) = (i - 1) * m
  BY DEF FragStart
<1> HIDE DEF m
<1>3. FragStart(1) = 0
  BY <1>1, <1>2
<1>4. ASSUME NEW i \in Nat \ {0} PROVE FragStart(i) \in Nat /\ FragStart(i + 1) = FragStart(i) + m
  <2>1. PICK h \in Nat : i = h + 1
    <3>1. i - 1 \in Nat /\ i = (i - 1) + 1
      OBVIOUS
    <3>2. QED BY <3>1
  <2>2. i - 1 = h /\ (i + 1) - 1 = h + 1
    BY <2>1
  <2>3. h * m \in Nat /\ (h + 1) * m = h * m + m
    BY <1>1, Multiples
  <2>4. QED BY <1>2, <2>2, <2>3
<1>5. \A i \in Nat \ {0} : FragStart(i) + m = FragStart(i) + MaxLen + 4
  BY <1>4, MaxLenType DEF m
<1>6. QED BY <1>3, <1>4, <1>5

\* The bytes of a packet are its fragments, one after the other.
LEMMA PacketBytesFacts ==
  ASSUME NEW p \in Seq(Nat), NEW s \in 0..(SeqCount - 1)
  PROVE  /\ PacketBytes(p, s) \in Seq(Nat)
         /\ Len(PacketBytes(p, s)) = PacketSize(p)
         /\ Framed(PacketBytes(p, s), 0, p, s)
<1> DEFINE N == NumFragments(p)
           F == [i \in 1..N |-> FragmentBytes(FragLen(p, i), Number(s, i), Cut(p, i))]
<1>1. /\ N \in Nat /\ N >= 1
      /\ \A i \in 1..N : /\ FragLen(p, i) \in Nat /\ Cut(p, i) \in Seq(Nat) /\ Len(Cut(p, i)) = FragLen(p, i)
                         /\ i < N => FragLen(p, i) = MaxLen
                         /\ \A j \in 1..FragLen(p, i) : Cut(p, i)[j] = p[CutStart(i) + j]
  BY FragmentFacts
<1>2. PacketBytes(p, s) = FlattenSeq(F)
  <2>1. PacketBytes(p, s) = FlattenSeq([i \in 1..N |-> FragmentBytes(Len(Cut(p, i)), Number(s, i), Cut(p, i))])
    BY DEF PacketBytes, Cut, Number
  <2>2. [i \in 1..N |-> FragmentBytes(Len(Cut(p, i)), Number(s, i), Cut(p, i))] = F
    BY <1>1
  <2>3. QED BY <2>1, <2>2
<1>3. \A i \in 1..N : Number(s, i) \in Nat
  <2> TAKE i \in 1..N
  <2>1. s + i - 1 \in Nat /\ SeqCount \in Nat /\ SeqCount > 0
    BY <1>1, ParserAssumption
  <2> DEFINE x == s + i - 1
  <2> HIDE DEF x
  <2>2. x % SeqCount \in Nat
    BY <2>1 DEF x
  <2>3. QED BY <2>2 DEF Number, x
<1> DEFINE Good(b, i) ==
      /\ b \in Seq(Nat) /\ Len(b) = 4 + FragLen(p, i)
      /\ b[1] = FragLen(p, i) % Radix /\ b[2] = (FragLen(p, i) \div Radix) % Radix
      /\ b[3] = FragLen(p, i) \div (Radix * Radix) /\ b[4] = Number(s, i)
      /\ \A j \in 1..FragLen(p, i) : b[4 + j] = p[CutStart(i) + j]
<1>4. \A i \in 1..N : Good(F[i], i)
  <2> TAKE i \in 1..N
  <2> DEFINE b == FragmentBytes(FragLen(p, i), Number(s, i), Cut(p, i))
  <2>1. F[i] = b
    OBVIOUS
  <2>2. /\ b \in Seq(Nat) /\ Len(b) = 4 + Len(Cut(p, i))
        /\ b[1] = FragLen(p, i) % Radix /\ b[2] = (FragLen(p, i) \div Radix) % Radix
        /\ b[3] = FragLen(p, i) \div (Radix * Radix) /\ b[4] = Number(s, i)
        /\ \A j \in 1..Len(Cut(p, i)) : b[4 + j] = Cut(p, i)[j]
    <3>1. FragLen(p, i) \in Nat /\ Number(s, i) \in Nat /\ Cut(p, i) \in Seq(Nat)
      BY <1>1, <1>3
    <3>2. IsFragment(b, FragLen(p, i), Number(s, i), Cut(p, i))
      BY <3>1, FragmentBytesFacts
    <3>3. QED BY <3>2 DEF IsFragment
  <2> HIDE DEF b
  <2>3. Good(b, i)
    BY <1>1, <2>2
  <2>4. QED BY <2>1, <2>3
<1> HIDE DEF N
<1>5. F \in Seq(Seq(Nat)) /\ Len(F) = N
  BY <1>1, <1>4
<1> HIDE DEF F, Good
<1>6. PICK f \in [1..N -> Seq(Nat)] :
        /\ FlattenSeq(F) = f[N] /\ f[1] = F[1]
        /\ \A i \in 2..N : f[i] = f[i - 1] \o F[i]
  <2>1. Len(F) > 0
    BY <1>1, <1>5
  <2>2. \E f \in [1..Len(F) -> Seq(Nat)] :
          /\ FlattenSeq(F) = f[Len(F)] /\ f[1] = F[1]
          /\ \A i \in 2..Len(F) : f[i] = f[i - 1] \o F[i]
    BY <2>1, <1>5, FlattenFacts
  <2>3. QED BY <2>2, <1>5
<1> DEFINE Done(i) ==
      /\ Len(f[i]) = FragStart(i) + 4 + FragLen(p, i)
      /\ \A k \in 1..i : \A j \in 1..(4 + FragLen(p, k)) : f[i][FragStart(k) + j] = F[k][j]
    P == {m \in Nat : m + 1 \in 1..N => Done(m + 1)}
<1>7. 0 \in P
  <2>1. Done(1)
    <3>1. FragStart(1) = 0 /\ 1 \in 1..N /\ 1..1 = {1}
      BY <1>1, FragStartFacts
    <3>2. Len(f[1]) = 4 + FragLen(p, 1) /\ FragLen(p, 1) \in Nat
      BY <1>1, <1>4, <1>6, <3>1 DEF Good
    <3>3. QED BY <1>6, <3>1, <3>2
  <2>2. QED BY <2>1
<1>8. ASSUME NEW m \in Nat, m \in P PROVE m + 1 \in P
  <2> DEFINE i == m + 1
             z == i + 1
  <2> SUFFICES ASSUME z \in 1..N PROVE Done(z)
    OBVIOUS
  <2>1. i \in 1..N /\ z \in 2..N /\ z - 1 = i /\ i < N /\ i \in Nat \ {0} /\ z = i + 1
    BY <1>1
  <2>2. Done(i)
    BY <1>8, <2>1
  <2> HIDE DEF i, z, P
  <2>3. FragLen(p, i) = MaxLen /\ FragStart(z) = FragStart(i) + MaxLen + 4 /\ FragStart(i) \in Nat /\ MaxLen \in Nat
    BY <1>1, <2>1, FragStartFacts, MaxLenType
  <2>4. Len(f[i]) = FragStart(z)
    BY <2>2, <2>3
  <2>5. f[z] = f[i] \o F[z] /\ f[i] \in Seq(Nat) /\ F[z] \in Seq(Nat) /\ Len(F[z]) = 4 + FragLen(p, z) /\ FragLen(p, z) \in Nat
    BY <1>1, <1>4, <1>6, <2>1 DEF Good
  <2> DEFINE w == FragStart(z)
             l == 4 + FragLen(p, z)
  <2>6. w \in Nat /\ l \in Nat
    BY <2>3, <2>5
  <2> HIDE DEF w, l
  <2>7. /\ Len(f[z]) = w + l
        /\ \A x \in 1..w : f[z][x] = f[i][x]
        /\ \A x \in 1..l : f[z][w + x] = F[z][x]
    <3>1. Len(f[i]) = w /\ Len(F[z]) = l
      BY <2>4, <2>5 DEF w, l
    <3>2. Joined(f[i] \o F[z], f[i], F[z], w)
      BY <2>5, <3>1, Concat
    <3>3. QED BY <2>5, <3>1, <3>2 DEF Joined
  <2>8. Len(f[z]) = FragStart(z) + 4 + FragLen(p, z)
    BY <2>7, <2>3, <2>5 DEF w, l
  <2>9. ASSUME NEW k \in 1..z, NEW j \in 1..(4 + FragLen(p, k))
        PROVE  f[z][FragStart(k) + j] = F[k][j]
    <3>1. CASE k = z
      <4>1. j \in 1..l
        BY <3>1 DEF l
      <4>2. QED BY <2>7, <4>1, <3>1 DEF w
    <3>2. CASE k # z
      <4>1. k \in 1..i
        BY <3>2, <2>1
      <4>2. f[i][FragStart(k) + j] = F[k][j]
        BY <2>2, <4>1
      <4>3. FragStart(k) + j \in 1..w
        <5>1. k \in 1..N /\ k \in Nat \ {0} /\ k < N
          BY <4>1, <2>1, <1>1
        <5>2. FragLen(p, k) = MaxLen /\ FragStart(k) \in Nat
          BY <5>1, <1>1, FragStartFacts
        <5>3. FragStart(k) <= FragStart(i)
          <6>1. MaxLen + 4 \in Nat /\ k - 1 \in Nat /\ i - 1 \in Nat /\ k - 1 <= i - 1
            BY <4>1, <2>1, MaxLenType
          <6>2. QED BY <6>1, Multiples DEF FragStart
        <5>4. QED BY <2>3, <5>2, <5>3 DEF w
      <4>4. QED BY <2>7, <4>2, <4>3
    <3>3. QED BY <3>1, <3>2
  <2>10. QED BY <2>8, <2>9
<1>9. Done(N)
  <2>1. Nat \subseteq P
    <3> HIDE DEF P
    <3>1. QED BY <1>7, <1>8, SetInduction
  <2>2. N - 1 \in Nat /\ (N - 1) + 1 = N /\ N \in 1..N
    BY <1>1
  <2>3. N - 1 \in P
    BY <2>1, <2>2
  <2> HIDE DEF Done
  <2>4. QED BY <2>2, <2>3
<1>10. \A i \in 1..N : \A j \in 1..(4 + FragLen(p, i)) : f[N][FragStart(i) + j] = F[i][j]
  BY <1>9
<1>11. ASSUME NEW i \in 1..N
       PROVE  /\ f[N][0 + FragStart(i) + 1] = FragLen(p, i) % Radix
              /\ f[N][0 + FragStart(i) + 2] = (FragLen(p, i) \div Radix) % Radix
              /\ f[N][0 + FragStart(i) + 3] = FragLen(p, i) \div (Radix * Radix)
              /\ f[N][0 + FragStart(i) + 4] = Number(s, i)
              /\ \A j \in 1..FragLen(p, i) : f[N][0 + FragStart(i) + 4 + j] = p[CutStart(i) + j]
  <2>1. FragStart(i) \in Nat /\ FragLen(p, i) \in Nat
    <3>1. i \in Nat \ {0}
      BY <1>1
    <3>2. QED BY <3>1, <1>1, FragStartFacts
  <2>2. Good(F[i], i)
    BY <1>4
  <2>3. \A j \in 1..4 : f[N][0 + FragStart(i) + j] = F[i][j]
    <3> TAKE j \in 1..4
    <3>1. j \in 1..(4 + FragLen(p, i)) /\ 0 + FragStart(i) + j = FragStart(i) + j
      BY <2>1
    <3>2. QED BY <1>10, <3>1
  <2>4. \A j \in 1..FragLen(p, i) : f[N][0 + FragStart(i) + 4 + j] = F[i][4 + j]
    <3> TAKE j \in 1..FragLen(p, i)
    <3>1. 4 + j \in 1..(4 + FragLen(p, i)) /\ 0 + FragStart(i) + 4 + j = FragStart(i) + (4 + j)
      BY <2>1
    <3>2. QED BY <1>10, <3>1
  <2>5. \A j \in 1..FragLen(p, i) : f[N][0 + FragStart(i) + 4 + j] = p[CutStart(i) + j]
    BY <2>2, <2>4 DEF Good
  <2>6. 1 \in 1..4 /\ 2 \in 1..4 /\ 3 \in 1..4 /\ 4 \in 1..4
    OBVIOUS
  <2>7. QED BY <2>2, <2>3, <2>5, <2>6 DEF Good
<1>12. Len(f[N]) = PacketSize(p)
  BY <1>9 DEF PacketSize, N
<1>13. f[N] \in Seq(Nat)
  BY <1>1, <1>6
<1>14. QED BY <1>2, <1>6, <1>11, <1>12, <1>13 DEF Framed, N

\* No fragment reaches beyond its packet.
LEMMA SizeFacts ==
  ASSUME NEW p \in Seq(Nat)
  PROVE  /\ PacketSize(p) \in Nat /\ PacketSize(p) >= 4
         /\ \A i \in 1..NumFragments(p) :
              /\ FragStart(i) \in Nat /\ FragLen(p, i) \in Nat
              /\ FragStart(i) + 4 + FragLen(p, i) <= PacketSize(p)
              /\ i < NumFragments(p) => FragStart(i + 1) = FragStart(i) + 4 + FragLen(p, i)
<1> DEFINE N == NumFragments(p)
<1>1. /\ N \in Nat /\ N >= 1
      /\ \A i \in 1..N : FragLen(p, i) \in 0..MaxLen /\ (i < N => FragLen(p, i) = MaxLen)
  BY FragmentFacts
<1>2. PacketSize(p) = FragStart(N) + 4 + FragLen(p, N)
  BY DEF PacketSize
<1>3. MaxLen \in Nat
  BY MaxLenType
<1> HIDE DEF N
<1>4. \A i \in 1..N : FragStart(i) \in Nat /\ FragLen(p, i) \in Nat /\ FragStart(i + 1) = FragStart(i) + MaxLen + 4
  <2> TAKE i \in 1..N
  <2>1. i \in Nat \ {0}
    BY <1>1
  <2>2. FragLen(p, i) \in Nat
    BY <1>1, <1>3
  <2>3. QED BY <2>1, <2>2, FragStartFacts
<1>5. N \in 1..N
  BY <1>1
<1>6. PacketSize(p) \in Nat /\ PacketSize(p) >= 4
  BY <1>2, <1>4, <1>5
<1>7. ASSUME NEW i \in 1..N, i < N
      PROVE  /\ FragStart(i + 1) = FragStart(i) + 4 + FragLen(p, i)
             /\ FragStart(i) + 4 + FragLen(p, i) <= PacketSize(p)
  <2>1. FragStart(i + 1) = FragStart(i) + 4 + FragLen(p, i)
    BY <1>1, <1>3, <1>4, <1>7
  <2>2. FragStart(i + 1) <= FragStart(N)
    <3>1. MaxLen + 4 \in Nat /\ (i + 1) - 1 \in Nat /\ N - 1 \in Nat /\ (i + 1) - 1 <= N - 1
      BY <1>1, <1>3, <1>7
    <3>2. QED BY <3>1, Multiples DEF FragStart
  <2>3. QED BY <2>1, <2>2, <1>2, <1>4, <1>5
<1>8. ASSUME NEW i \in 1..N PROVE FragStart(i) + 4 + FragLen(p, i) <= PacketSize(p)
  <2>1. CASE i < N
    BY <2>1, <1>7
  <2>2. CASE i = N
    BY <2>2, <1>2, <1>6
  <2>3. QED BY <2>1, <2>2, <1>1
<1>9. QED BY <1>4, <1>6, <1>7, <1>8 DEF N

\* A packet stays where it is when more is written, or is put behind what was
\* written before.
LEMMA FramedMoves ==
  ASSUME NEW p \in Seq(Nat), NEW s, NEW t \in Seq(Nat), NEW at \in Nat, Framed(t, at, p, s),
         NEW u, NEW d \in Nat, \A j \in 1..PacketSize(p) : u[at + d + j] = t[at + j]
  PROVE  Framed(u, at + d, p, s)
<1> SUFFICES ASSUME NEW i \in 1..NumFragments(p)
             PROVE  /\ u[at + d + FragStart(i) + 1] = FragLen(p, i) % Radix
                    /\ u[at + d + FragStart(i) + 2] = (FragLen(p, i) \div Radix) % Radix
                    /\ u[at + d + FragStart(i) + 3] = FragLen(p, i) \div (Radix * Radix)
                    /\ u[at + d + FragStart(i) + 4] = Number(s, i)
                    /\ \A j \in 1..FragLen(p, i) : u[at + d + FragStart(i) + 4 + j] = p[CutStart(i) + j]
  BY DEF Framed
<1> DEFINE f == FragStart(i)
           l == FragLen(p, i)
<1>1. /\ t[at + f + 1] = l % Radix
      /\ t[at + f + 2] = (l \div Radix) % Radix
      /\ t[at + f + 3] = l \div (Radix * Radix)
      /\ t[at + f + 4] = Number(s, i)
      /\ \A j \in 1..l : t[at + f + 4 + j] = p[CutStart(i) + j]
  BY DEF Framed
<1>2. f \in Nat /\ l \in Nat /\ f + 4 + l <= PacketSize(p) /\ PacketSize(p) \in Nat
  BY SizeFacts
<1> HIDE DEF f, l
<1>3. ASSUME NEW j \in 1..(4 + l) PROVE u[at + d + f + j] = t[at + f + j]
  <2>1. f + j \in 1..PacketSize(p) /\ at + d + f + j = at + d + (f + j) /\ at + f + j = at + (f + j)
    BY <1>2
  <2>2. QED BY <2>1
<1>4. 1 \in 1..(4 + l) /\ 2 \in 1..(4 + l) /\ 3 \in 1..(4 + l) /\ 4 \in 1..(4 + l)
  BY <1>2
<1>5. \A j \in 1..l : u[at + d + f + 4 + j] = t[at + f + 4 + j]
  <2> TAKE j \in 1..l
  <2>1. 4 + j \in 1..(4 + l) /\ at + d + f + 4 + j = at + d + f + (4 + j) /\ at + f + 4 + j = at + f + (4 + j)
    BY <1>2
  <2>2. QED BY <1>3, <2>1
<1>6. /\ u[at + d + f + 1] = t[at + f + 1] /\ u[at + d + f + 2] = t[at + f + 2]
      /\ u[at + d + f + 3] = t[at + f + 3] /\ u[at + d + f + 4] = t[at + f + 4]
  BY <1>3, <1>4
<1>7. QED BY <1>1, <1>5, <1>6 DEF f, l

\* The three length bytes make up the length again.
LEMMA LengthBytes ==
  ASSUME NEW n \in 0..MaxLen
  PROVE  LET a == n % Radix
             b == (n \div Radix) % Radix
             c == n \div (Radix * Radix)
         IN  /\ a \in Nat /\ b \in Nat /\ c \in Nat
             /\ a + Radix * b + Radix * Radix * c = n
             /\ a + Radix * b \in 0..n /\ a \in 0..n
<1> DEFINE R == Radix
           q == n \div R
           a == n % R
           b == q % R
           e == q \div R
<1>1. R \in Nat /\ R > 1 /\ n \in Nat
  BY ParserAssumption, MaxLenType
<1> HIDE DEF R
<1>2. q \in Nat /\ a \in Nat /\ a < R /\ n = R * q + a
  BY <1>1
<1> HIDE DEF q, a
<1>3. b \in Nat /\ b < R /\ e \in Nat /\ q = R * e + b
  BY <1>1, <1>2
<1>0. a < R /\ b < R /\ a \in Nat /\ b \in Nat
  BY <1>2, <1>3
<1> HIDE DEF b, e
<1> DEFINE x == R * b
           y == R * e
           z == R * y
<1>4. x \in Nat /\ y \in Nat /\ z \in Nat
  BY <1>1, <1>3
<1>5. R * q = z + x
  BY <1>1, <1>3
<1> HIDE DEF x, y, z
<1>6. n = z + x + a
  BY <1>1, <1>2, <1>4, <1>5
<1>7. n \div (R * R) = e
  <2> DEFINE m == R * R
             r == x + a
  <2>1. m \in Nat /\ m > 0 /\ r \in Nat
    BY <1>1, <1>2, <1>4
  <2>2. z = e * m
    BY <1>1, <1>3 DEF z, y
  <2>3. r < m
    <3>1. b <= R - 1 /\ a <= R - 1 /\ R - 1 \in Nat
      BY <1>0, <1>1
    <3>2. b * R <= (R - 1) * R
      BY <1>1, <1>3, <3>1, Multiples
    <3>3. (R - 1) * R + R = m
      <4>1. ((R - 1) + 1) * R = (R - 1) * R + R /\ (R - 1) + 1 = R
        BY <1>1, <3>1, Multiples
      <4>2. QED BY <4>1
    <3>4. x = b * R
      BY <1>1, <1>3 DEF x
    <3> DEFINE w == (R - 1) * R
    <3>5. x <= w /\ w + R = m /\ w \in Nat
      BY <1>1, <3>1, <3>2, <3>3, <3>4, Multiples
    <3> HIDE DEF w, m
    <3>6. QED BY <1>1, <1>2, <1>4, <2>1, <3>1, <3>5
  <2> HIDE DEF m
  <2>4. n = e * m + r
    <3>1. e * m \in Nat
      BY <2>2, <1>4
    <3>2. QED BY <2>2, <1>6, <1>2, <1>4, <3>1
  <2>5. n \div m = e
    <3> HIDE DEF r
    <3>1. QED BY <2>1, <2>3, <2>4, <1>1, <1>3, Division
  <2>6. QED BY <2>5 DEF m
<1>8. R * R * e = z
  BY <1>1, <1>3 DEF z, y
<1>9. /\ a \in Nat /\ b \in Nat /\ e \in Nat
      /\ a + x + z = n
      /\ a + x \in 0..n /\ a \in 0..n
  BY <1>1, <1>2, <1>3, <1>4, <1>6
<1>10. QED BY <1>7, <1>8, <1>9 DEF R, a, b, q, x

\* The number after that of a fragment is the number of the next fragment.
LEMMA NumberFacts ==
  ASSUME NEW s \in 0..(SeqCount - 1), NEW i \in Nat \ {0}
  PROVE  /\ Number(s, i) \in 0..(SeqCount - 1)
         /\ NextSeq(Number(s, i)) = Number(s, i + 1)
         /\ Number(s, i + 1) = (s + i) % SeqCount
         /\ Number(s, 1) = s
         /\ NextSeq(s) \in 0..(SeqCount - 1) /\ NextSeq(s) # s
<1> DEFINE x == s + i - 1
           q == x \div SeqCount
           r == x % SeqCount
<1>1. SeqCount \in Nat /\ SeqCount > 1 /\ x \in Nat /\ s \in Nat /\ s < SeqCount
  BY ParserAssumption
<1>2. s + (i + 1) - 1 = x + 1 /\ s + i = x + 1
  BY <1>1
<1> HIDE DEF x
<1>3. q \in Nat /\ r \in Nat /\ r < SeqCount /\ x = q * SeqCount + r
  BY <1>1
<1> HIDE DEF q, r
<1>4. q * SeqCount \in Nat /\ (q + 1) * SeqCount = q * SeqCount + SeqCount
  BY <1>1, <1>3, Multiples
<1>5. (x + 1) % SeqCount = (r + 1) % SeqCount
  <2>1. CASE r + 1 < SeqCount
    <3>1. x + 1 = q * SeqCount + (r + 1)
      BY <1>3, <1>4
    <3>2. r + 1 = 0 * SeqCount + (r + 1)
      BY <1>1, <1>3
    <3>3. (x + 1) % SeqCount = r + 1
      <4>1. x + 1 \in Nat /\ r + 1 \in Nat
        BY <1>1, <1>3
      <4>2. QED BY <1>1, <1>3, <2>1, <3>1, <4>1, Division
    <3>4. (r + 1) % SeqCount = r + 1
      BY <1>1, <1>3, <2>1, <3>2, Division
    <3>5. QED BY <3>3, <3>4
  <2>2. CASE ~(r + 1 < SeqCount)
    <3>0. r + 1 = SeqCount
      BY <2>2, <1>1, <1>3
    <3>1. x + 1 = (q + 1) * SeqCount + 0
      <4> DEFINE y == q * SeqCount
      <4>1. y \in Nat /\ (q + 1) * SeqCount = y + SeqCount /\ x = y + r
        BY <1>3, <1>4
      <4> HIDE DEF y
      <4>2. QED BY <4>1, <3>0, <1>1, <1>3
    <3>2. r + 1 = 1 * SeqCount + 0
      BY <1>1, <1>3, <3>0
    <3>3. (x + 1) % SeqCount = 0
      <4>1. x + 1 \in Nat /\ q + 1 \in Nat
        BY <1>1, <1>3
      <4>2. QED BY <1>1, <3>1, <4>1, Division
    <3>4. (r + 1) % SeqCount = 0
      BY <1>1, <1>3, <3>2, Division
    <3>5. QED BY <3>3, <3>4
  <2>3. QED BY <2>1, <2>2
<1>6. Number(s, i) = r /\ Number(s, i + 1) = (x + 1) % SeqCount
  BY <1>2 DEF Number, r, x
<1>7. r \in 0..(SeqCount - 1)
  BY <1>1, <1>3
<1>8. NextSeq(Number(s, i)) = Number(s, i + 1)
  BY <1>5, <1>6 DEF NextSeq
<1>9. Number(s, 1) = s
  <2>1. s + 1 - 1 = s /\ s = 0 * SeqCount + s
    BY <1>1
  <2>2. s % SeqCount = s
    BY <1>1, <2>1, Division
  <2>3. QED BY <2>1, <2>2 DEF Number
<1>10. NextSeq(s) \in 0..(SeqCount - 1) /\ NextSeq(s) # s
  <2>1. CASE s + 1 < SeqCount
    <3>1. s + 1 \in Nat /\ s + 1 = 0 * SeqCount + (s + 1)
      BY <1>1
    <3>2. (s + 1) % SeqCount = s + 1
      BY <1>1, <2>1, <3>1, Division
    <3>3. QED BY <3>2, <1>1, <2>1 DEF NextSeq
  <2>2. CASE ~(s + 1 < SeqCount)
    <3>1. s + 1 = 1 * SeqCount + 0 /\ s # 0
      BY <1>1, <2>2
    <3>2. (s + 1) % SeqCount = 0
      BY <1>1, <3>1, Division
    <3>3. QED BY <3>2, <3>1, <1>1 DEF NextSeq
  <2>3. QED BY <2>1, <2>2
<1>11. QED
  BY <1>2, <1>6, <1>7, <1>8, <1>9, <1>10

-----------------------------------------------------------------------------
(* The invariant.                                                            *)

\* The numbers a fragment can have.
Numbers == 0..(SeqCount - 1)

\* A caller that is told that memory ran out does not read on.
GivesUp == "nomem" \in Faults => "SYSERR" \notin RetryOn

\* What has been returned is a part of what was sent, from the first packet on.
Delivered ==
  /\ Len(got) <= Len(sent)
  /\ \A j \in 1..Len(got) : got[j] = sent[j]

\* Packet p is the k-th in t.
Lies(t, at, num, k, p) ==
  /\ at[k + 1] = at[k] + PacketSize(p) /\ at[k + 1] <= Len(t)
  /\ num[k + 1] = Number(num[k], NumFragments(p) + 1)
  /\ Framed(t, at[k], p, num[k])

\* t is everything the peer has written since the connection was opened: packet k
\* behind the first at[k] bytes, its first number num[k]. After a number it skipped
\* there is one packet more.
Laid(t, at, num, ps, q) ==
  /\ at[1] = 0 /\ num[Len(ps) + 1] = q
  /\ \A k \in 1..Len(ps) : Lies(t, at, num, k, ps[k])

\* Nothing lies behind the last packet ...
EndsRight(t, at, ps) == Len(t) = at[Len(ps) + 1]

\* ... or one packet more, with a number the parser does not expect.
EndsWrong(t, at, ps, q) ==
  \E p \in Seq(Nat) : Len(t) = at[Len(ps) + 1] + PacketSize(p) /\ Framed(t, at[Len(ps) + 1], p, NextSeq(q))

\* t is what the peer has written.
Written(t, at, num) ==
  /\ Laid(t, at, num, sent, peer_seq)
  /\ broken => EndsWrong(t, at, sent, peer_seq)
  /\ ~broken => EndsRight(t, at, sent)

\* The parser has consumed pos bytes of it; a cut loses some at the end.
Unread(t, pos) ==
  /\ pos + Len(recv) + Len(stream) <= Len(t)
  /\ ~eof => pos + Len(recv) + Len(stream) = Len(t)
  /\ \A j \in 1..Len(recv) : recv[j] = t[pos + j]
  /\ \A j \in 1..Len(stream) : stream[j] = t[pos + Len(recv) + j]

\* Between two packets.
Boundary(at, num, pos) ==
  /\ state = "S_LEN_0" /\ ~fragment
  /\ pos = at[Len(got) + 1] /\ sequence_number = num[Len(got) + 1]

\* p is the packet that lies where the parser is: the next one to deliver, or the
\* one whose number is wrong.
Current(t, at, num, p, s) ==
  LET k == Len(got) + 1 IN
  /\ Framed(t, at[k], p, s) /\ at[k] + PacketSize(p) <= Len(t)
  /\ \/ k <= Len(sent) /\ p = sent[k] /\ s = num[k]
     \/ k = Len(sent) + 1 /\ broken /\ s = NextSeq(num[k])

\* packet_buffer holds the first n bytes of p.
Holds(buf, p, n) == Len(buf) = n /\ \A j \in 1..n : buf[j] = p[j]

\* In a packet of which the parser reads fragment i, from byte base on: where it
\* is, what it knows of the fragment's length, what it has kept of the packet and
\* which number it expects.
In(st, fr, r, sq, buf, p, i, base, n0, pos) ==
  LET b == base + FragStart(i)
      l == FragLen(p, i)
  IN  /\ \/ /\ st = "S_LEN_0" /\ pos = b
         \/ /\ st = "S_LEN_1" /\ pos = b + 1
            /\ r = l % Radix
         \/ /\ st = "S_LEN_2" /\ pos = b + 2
            /\ r = (l % Radix) + Radix * ((l \div Radix) % Radix)
         \/ /\ st = "S_SEQ" /\ pos = b + 3 /\ r = l
         \/ /\ st = "S_PAYLOAD" /\ r \in 1..l /\ pos = b + 4 + (l - r)
      /\ st \in {"S_LEN_0", "S_LEN_1", "S_LEN_2"} => (fr <=> i # 1)
      /\ st \in {"S_SEQ", "S_PAYLOAD"} => (fr <=> l = MaxLen)
      /\ st # "S_PAYLOAD" => sq = Number(n0, i)
      /\ st # "S_PAYLOAD" /\ (i # 1 \/ st = "S_SEQ") => Holds(buf, p, CutStart(i))
      /\ st = "S_PAYLOAD" => sq = Number(n0, i + 1) /\ Holds(buf, p, CutStart(i) + (l - r))

\* The parser is in fragment i of p. It gets behind a number only when the number
\* is the one of the next packet.
Inside(p, i, base, n0, pos) ==
  /\ In(state, fragment, bytes_remaining, sequence_number, packet, p, i, base, n0, pos)
  /\ state = "S_PAYLOAD" => Len(got) < Len(sent)
  /\ Len(got) = Len(sent) => i = 1

\* Between two packets or in a fragment of one.
Where(t, at, num, pos) ==
  \/ Boundary(at, num, pos)
  \/ \E p \in Seq(Nat), s \in Numbers :
       /\ Current(t, at, num, p, s)
       /\ \E i \in 1..NumFragments(p) : Inside(p, i, at[Len(got) + 1], num[Len(got) + 1], pos)

\* The bytes written, the packets in them and the parser's place among them.
Parsing ==
  \E t \in Seq(Nat), at \in [Nat -> Nat], num \in [Nat -> Numbers], pos \in Nat :
    Written(t, at, num) /\ Unread(t, pos) /\ Where(t, at, num, pos)

\* The inductive invariant. After an allocation failed the bytes it was for are
\* lost and the caller does not read on.
IInv ==
  /\ TypeOK /\ Delivered
  /\ rc = "SYSERR" => pc = "idle" /\ "nomem" \in Faults
  /\ rc # "SYSERR" => ~deferred_end_callback /\ Parsing

-----------------------------------------------------------------------------
(* The peer's steps.                                                         *)

\* The packets delivered and those still to come.
LEMMA Lengths ==
  ASSUME TypeOK, Delivered
  PROVE  /\ Len(got) \in Nat /\ Len(sent) \in Nat /\ Len(got) + 1 \in 1..(Len(sent) + 1)
         /\ got \in Seq(Seq(Nat)) /\ sent \in Seq(Seq(Nat))
         /\ \A k \in 1..Len(sent) : sent[k] \in Seq(Nat)
<1>1. got \in Seq(Seq(Nat)) /\ sent \in Seq(Packets)
  BY DEF TypeOK
<1>2. Len(got) \in Nat /\ Len(sent) \in Nat /\ Len(got) <= Len(sent)
  BY <1>1 DEF Delivered
<1>3. Packets \subseteq Seq(Nat)
  BY ParserAssumption
<1>4. \A k \in 1..Len(sent) : sent[k] \in Packets
  BY <1>1
<1>5. sent \in Seq(Seq(Nat))
  BY <1>1, <1>3
<1>6. QED BY <1>1, <1>2, <1>3, <1>4, <1>5

\* u begins with t.
Extends(u, t) == Len(t) <= Len(u) /\ \A j \in 1..Len(t) : u[j] = t[j]

\* A packet more, or none.
LEMMA OneMore ==
  ASSUME NEW S, NEW q \in Seq(S), NEW e, NEW r, r = q \/ r = Append(q, e)
  PROVE  Len(r) \in Nat /\ Extends(r, q)
<1>1. CASE r = q
  BY <1>1 DEF Extends
<1>2. CASE r = Append(q, e)
  BY <1>2 DEF Extends
<1>3. QED BY <1>1, <1>2

\* What is written is not affected by what is written behind it.
LEMMA FramedStays ==
  ASSUME NEW p \in Seq(Nat), NEW s, NEW t \in Seq(Nat), NEW at \in Nat,
         Framed(t, at, p, s), at + PacketSize(p) <= Len(t),
         NEW u \in Seq(Nat), Extends(u, t)
  PROVE  Framed(u, at, p, s) /\ at + PacketSize(p) <= Len(u)
<1> DEFINE z == PacketSize(p)
           n == Len(t)
           m == Len(u)
<1>1. z \in Nat /\ n \in Nat /\ m \in Nat /\ at + z <= n /\ n <= m /\ \A j \in 1..n : u[j] = t[j]
  BY SizeFacts DEF Extends
<1> HIDE DEF z, n, m
<1>2. ASSUME NEW j \in 1..z PROVE u[at + 0 + j] = t[at + j]
  <2>1. at + j \in 1..n /\ at + 0 + j = at + j
    BY <1>1
  <2>2. QED BY <1>1, <2>1
<1>3. Framed(u, at + 0, p, s)
  <2>1. 0 \in Nat
    OBVIOUS
  <2>2. QED BY <1>2, <2>1, FramedMoves DEF z
<1>4. at + 0 = at /\ at + z <= m
  BY <1>1
<1>5. QED BY <1>3, <1>4 DEF z, m

\* A packet that is written behind everything else.
LEMMA FramedBehind ==
  ASSUME NEW p \in Seq(Nat), NEW s \in Numbers, NEW t \in Seq(Nat)
  PROVE  LET u == t \o PacketBytes(p, s) IN
         /\ u \in Seq(Nat) /\ Len(u) = Len(t) + PacketSize(p) /\ Extends(u, t)
         /\ Framed(u, Len(t), p, s)
<1> DEFINE b == PacketBytes(p, s)
           u == t \o b
           n == Len(t)
           z == PacketSize(p)
<1>1. b \in Seq(Nat) /\ Len(b) = z /\ Framed(b, 0, p, s) /\ z \in Nat /\ n \in Nat
  BY PacketBytesFacts, SizeFacts DEF Numbers
<1> HIDE DEF b
<1>2. u \in Seq(Nat) /\ Joined(u, t, b, n)
  BY <1>1, Concat
<1> HIDE DEF u
<1>3. Len(u) = n + z /\ (\A j \in 1..n : u[j] = t[j]) /\ (\A j \in 1..z : u[n + j] = b[j])
  BY <1>1, <1>2 DEF Joined
<1> HIDE DEF n, z
<1>4. ASSUME NEW j \in 1..z PROVE u[0 + n + j] = b[0 + j]
  <2>1. 0 + n + j = n + j /\ 0 + j = j
    BY <1>1
  <2>2. QED BY <1>3, <2>1
<1>5. Framed(u, 0 + n, p, s)
  <2>1. 0 \in Nat
    OBVIOUS
  <2>2. QED BY <1>1, <1>4, <2>1, FramedMoves DEF z
<1>6. 0 + n = n /\ n <= n + z
  BY <1>1
<1>7. QED BY <1>2, <1>3, <1>5, <1>6 DEF Extends, u, n, z, b

\* The state of the parser is that of the packet at hand, whatever is written then.
LEMMA WhereStays ==
  ASSUME TypeOK, Delivered, NEW t \in Seq(Nat), NEW at \in [Nat -> Nat], NEW num \in [Nat -> Numbers], NEW pos \in Nat,
         Where(t, at, num, pos),
         NEW u \in Seq(Nat), Extends(u, t),
         NEW bt \in [Nat -> Nat], NEW num2 \in [Nat -> Numbers],
         \A k \in 1..(Len(sent) + 1) : bt[k] = at[k] /\ num2[k] = num[k],
         UNCHANGED <<parserVars, got>>,
         \/ sent' = sent /\ (broken => broken')
         \/ ~broken /\ \E q \in Packets : sent' = Append(sent, q)
  PROVE  Where(u, bt, num2, pos)'
<1> DEFINE k == Len(got) + 1
           n == Len(sent)
<1>0. sent \in Seq(Seq(Nat)) /\ k \in 1..(n + 1) /\ n \in Nat /\ Len(got) \in Nat
  BY Lengths
<1>1. /\ state' = state /\ fragment' = fragment /\ sequence_number' = sequence_number
      /\ bytes_remaining' = bytes_remaining /\ packet' = packet /\ got' = got
  BY DEF parserVars
<1>2. bt[k] = at[k] /\ num2[k] = num[k] /\ at[k] \in Nat
  <2>1. k \in Nat
    BY <1>0
  <2>2. QED BY <1>0, <2>1
<1>3. (\A j \in 1..n : sent'[j] = sent[j]) /\ Len(sent') \in Nat /\ n <= Len(sent')
  <2>1. PICK q : sent' = sent \/ sent' = Append(sent, q)
    OBVIOUS
  <2>2. Len(sent') \in Nat /\ Extends(sent', sent)
    BY <1>0, <2>1, OneMore
  <2>3. QED BY <2>2 DEF Extends
<1>a. PICK a, n0 : a = at[k] /\ n0 = num[k]
  OBVIOUS
<1>4. CASE Boundary(at, num, pos)
  BY <1>1, <1>2, <1>4 DEF Boundary, Where
<1>5. ASSUME NEW p \in Seq(Nat), NEW s \in Numbers, Current(t, at, num, p, s),
             NEW i \in 1..NumFragments(p), Inside(p, i, a, n0, pos)
      PROVE  Current(u, bt, num2, p, s)' /\ Inside(p, i, a, n0, pos)'
  <2>1. Framed(t, at[k], p, s) /\ at[k] + PacketSize(p) <= Len(t)
    BY <1>5 DEF Current
  <2>2. Framed(u, at[k], p, s) /\ at[k] + PacketSize(p) <= Len(u)
    BY <2>1, <1>2, FramedStays
  <2>3. \/ k <= n /\ p = sent[k] /\ s = num[k]
        \/ k = n + 1 /\ broken /\ s = NextSeq(num[k])
    BY <1>5 DEF Current
  <2>4. \/ k <= Len(sent') /\ p = sent'[k] /\ s = num2[k]
        \/ k = Len(sent') + 1 /\ broken' /\ s = NextSeq(num2[k])
    <3>1. CASE k <= n /\ p = sent[k] /\ s = num[k]
      <4>1. k \in 1..n /\ k <= Len(sent')
        BY <1>0, <1>3, <3>1
      <4>2. QED BY <3>1, <4>1, <1>2, <1>3
    <3>2. CASE k = n + 1 /\ broken /\ s = NextSeq(num[k])
      BY <3>2, <1>2
    <3>3. QED BY <2>3, <3>1, <3>2
  <2>5. Current(u, bt, num2, p, s)'
    BY <1>1, <1>2, <2>2, <2>4 DEF Current
  <2>6. Len(got) < n => Len(got) < Len(sent')
    BY <1>0, <1>3
  <2>7. Len(got) = Len(sent') => Len(got) = n
    BY <1>0, <1>3
  <2>8. Inside(p, i, a, n0, pos)'
    <3>1. /\ In(state, fragment, bytes_remaining, sequence_number, packet, p, i, a, n0, pos)
          /\ state = "S_PAYLOAD" => Len(got) < Len(sent)
          /\ Len(got) = Len(sent) => i = 1
      BY <1>5 DEF Inside
    <3>2. In(state, fragment, bytes_remaining, sequence_number, packet, p, i, a, n0, pos)'
      BY <1>1, <3>1
    <3>3. (state = "S_PAYLOAD" => Len(got) < Len(sent))'
      BY <1>1, <3>1, <2>6
    <3>4. (Len(got) = Len(sent) => i = 1)'
      BY <1>1, <3>1, <2>7
    <3>5. QED BY <3>2, <3>3, <3>4 DEF Inside
  <2>9. QED BY <2>5, <2>8
<1>6. QED
  <2>1. CASE ~Boundary(at, num, pos)
    <3>1. PICK p \in Seq(Nat), s \in Numbers :
            Current(t, at, num, p, s) /\ \E i \in 1..NumFragments(p) : Inside(p, i, a, n0, pos)
      BY <2>1, <1>a DEF Where
    <3>2. PICK i \in 1..NumFragments(p) : Inside(p, i, a, n0, pos)
      BY <3>1
    <3>3. Current(u, bt, num2, p, s)' /\ Inside(p, i, a, n0, pos)'
      BY <1>5, <3>1, <3>2
    <3>4. bt[Len(got') + 1] = a /\ num2[Len(got') + 1] = n0
      BY <1>1, <1>2, <1>a
    <3>5. \E j \in 1..NumFragments(p) : Inside(p, j, a, n0, pos)'
      BY <3>3
    <3>6. QED BY <3>3, <3>4, <3>5 DEF Where
  <2>2. QED BY <1>4, <2>1

\* Packets written before stay where they are.
LEMMA LiesStays ==
  ASSUME NEW t \in Seq(Nat), NEW at \in [Nat -> Nat], NEW num \in [Nat -> Numbers],
         NEW k \in Nat, NEW p \in Seq(Nat), Lies(t, at, num, k, p),
         NEW u \in Seq(Nat), Extends(u, t),
         NEW bt, NEW num2, bt[k] = at[k], bt[k + 1] = at[k + 1], num2[k] = num[k], num2[k + 1] = num[k + 1]
  PROVE  Lies(u, bt, num2, k, p)
<1>1. at[k] \in Nat /\ Framed(t, at[k], p, num[k]) /\ at[k] + PacketSize(p) <= Len(t)
  BY DEF Lies
<1>2. Framed(u, at[k], p, num[k]) /\ at[k] + PacketSize(p) <= Len(u)
  BY <1>1, FramedStays
<1>3. QED BY <1>2 DEF Lies

\* What the socket brings when more is written.
LEMMA UnreadGrows ==
  ASSUME TypeOK, NEW t \in Seq(Nat), NEW pos \in Nat, Unread(t, pos), ~eof,
         NEW p \in Seq(Nat), NEW s \in Numbers, stream' = stream \o PacketBytes(p, s),
         UNCHANGED <<recv, eof>>
  PROVE  Unread(t \o PacketBytes(p, s), pos)' /\ stream' \in Seq(Nat)
<1> DEFINE b == PacketBytes(p, s)
           u == t \o b
           n == Len(t)
           r == Len(recv)
           m == Len(stream)
           z == Len(b)
<1>1. b \in Seq(Nat) /\ recv \in Seq(Nat) /\ stream \in Seq(Nat)
  BY PacketBytesFacts DEF TypeOK, Numbers
<1>2. n \in Nat /\ r \in Nat /\ m \in Nat /\ z \in Nat
  BY <1>1
<1>3. u \in Seq(Nat) /\ Joined(u, t, b, n) /\ stream' \in Seq(Nat) /\ Joined(stream', stream, b, m)
  BY <1>1, Concat
<1>4. /\ pos + r + m = n
      /\ \A j \in 1..r : recv[j] = t[pos + j]
      /\ \A j \in 1..m : stream[j] = t[pos + r + j]
  BY DEF Unread
<1> HIDE DEF b, u
<1>5. Len(u) = n + z /\ (\A j \in 1..n : u[j] = t[j]) /\ (\A j \in 1..z : u[n + j] = b[j])
  BY <1>3 DEF Joined
<1>6. Len(stream') = m + z /\ (\A j \in 1..m : stream'[j] = stream[j]) /\ (\A j \in 1..z : stream'[m + j] = b[j])
  BY <1>3 DEF Joined
<1> HIDE DEF n, r, m, z
<1>7. ASSUME NEW j \in 1..r PROVE recv[j] = u[pos + j]
  <2>1. pos + j \in 1..n
    BY <1>2, <1>4
  <2>2. QED BY <1>4, <1>5, <2>1
<1>8. ASSUME NEW j \in 1..(m + z) PROVE stream'[j] = u[pos + r + j]
  <2>1. CASE j <= m
    <3>1. j \in 1..m /\ pos + r + j \in 1..n
      BY <1>2, <1>4, <2>1
    <3>2. QED BY <1>4, <1>5, <1>6, <3>1
  <2>2. CASE ~(j <= m)
    <3>1. j - m \in 1..z /\ m + (j - m) = j /\ pos + r + j = n + (j - m)
      BY <1>2, <1>4, <2>2
    <3>2. stream'[m + (j - m)] = b[j - m] /\ u[n + (j - m)] = b[j - m]
      BY <1>5, <1>6, <3>1
    <3>3. QED BY <3>1, <3>2
  <2>3. QED BY <2>1, <2>2
<1>9. pos + r + (m + z) = n + z
  BY <1>2, <1>4
<1>10. recv' = recv /\ eof' = eof
  OBVIOUS
<1>11. Unread(u, pos)'
  <2>1. pos + Len(recv') + Len(stream') <= Len(u) /\ pos + Len(recv') + Len(stream') = Len(u)
    BY <1>2, <1>5, <1>6, <1>9, <1>10 DEF r
  <2>2. \A j \in 1..Len(recv') : recv'[j] = u[pos + j]
    BY <1>7, <1>10 DEF r
  <2>3. \A j \in 1..Len(stream') : stream'[j] = u[pos + Len(recv') + j]
    BY <1>6, <1>8, <1>10 DEF r
  <2>4. QED BY <2>1, <2>2, <2>3 DEF Unread
<1>12. QED BY <1>3, <1>11 DEF u, b

\* Delivered packets stay delivered.
LEMMA DeliveredStays ==
  ASSUME TypeOK, Delivered, got' = got, NEW q, sent' = sent \/ sent' = Append(sent, q)
  PROVE  Delivered'
<1>1. Len(got) \in Nat /\ Len(sent) \in Nat /\ sent \in Seq(Seq(Nat))
  BY Lengths
<1>2. Len(sent') \in Nat /\ Extends(sent', sent)
  BY <1>1, OneMore
<1>3. Len(got) <= Len(sent) /\ \A j \in 1..Len(got) : got[j] = sent[j]
  BY DEF Delivered
<1> DEFINE g == Len(got)
           n == Len(sent)
           m == Len(sent')
<1>4. n <= m /\ (\A j \in 1..n : sent'[j] = sent[j]) /\ g \in Nat /\ n \in Nat /\ m \in Nat /\ g <= n
  BY <1>1, <1>2, <1>3 DEF Extends
<1> HIDE DEF g, n, m
<1>5. g <= m /\ \A j \in 1..g : j \in 1..n
  BY <1>4
<1>6. \A j \in 1..g : got[j] = sent'[j]
  BY <1>3, <1>4, <1>5 DEF g
<1>7. QED BY <1>5, <1>6 DEF Delivered, g, m

\* u is t with packet p behind it, and s the number that comes next.
After(u, s, t, p, q) == u = t \o PacketBytes(p, q) /\ s = Number(q, NumFragments(p) + 1)

\* u holds one packet more than the earlier ones, which are where they were.
Grown(u, at, num, ps, p, aft) ==
  \E bt \in [Nat -> Nat], num2 \in [Nat -> Numbers] :
    /\ Laid(u, bt, num2, Append(ps, p), aft) /\ EndsRight(u, bt, Append(ps, p))
    /\ \A k \in 1..(Len(ps) + 1) : bt[k] = at[k] /\ num2[k] = num[k]

\* Another packet behind those that are written.
LEMMA LaidGrows ==
  ASSUME NEW t \in Seq(Nat), NEW at \in [Nat -> Nat], NEW num \in [Nat -> Numbers],
         NEW ps \in Seq(Seq(Nat)), NEW q \in Numbers, NEW p \in Seq(Nat),
         Laid(t, at, num, ps, q), EndsRight(t, at, ps),
         NEW u, NEW aft, After(u, aft, t, p, q)
  PROVE  Grown(u, at, num, ps, p, aft)
<1> DEFINE N == NumFragments(p)
           n == Len(ps)
           last == n + 1
           qs == Append(ps, p)
           bt == [at EXCEPT ![last + 1] = Len(u)]
           num2 == [num EXCEPT ![last + 1] = aft]
<1>a. u = t \o PacketBytes(p, q) /\ aft = Number(q, N + 1)
  BY DEF After
<1>0. N \in Nat /\ N >= 1
  BY FragmentFacts
<1>e. n \in Nat
  OBVIOUS
<1>1. N + 1 \in Nat \ {0}
  <2> HIDE DEF N
  <2>1. QED BY <1>0
<1>2. aft \in Numbers
  BY <1>a, <1>1, NumberFacts DEF Numbers
<1>3. u \in Seq(Nat) /\ Len(u) = Len(t) + PacketSize(p) /\ Extends(u, t) /\ Framed(u, Len(t), p, q) /\ Len(u) \in Nat
  BY <1>a, FramedBehind
<1>4. qs \in Seq(Seq(Nat)) /\ Len(qs) = last /\ qs[last] = p /\ \A j \in 1..n : qs[j] = ps[j]
  OBVIOUS
<1> HIDE DEF N, qs
<1>5. /\ at[1] = 0 /\ num[last] = q /\ Len(t) = at[last]
      /\ \A k \in 1..n : Lies(t, at, num, k, ps[k])
  BY DEF Laid, EndsRight
<1> HIDE DEF n
<1>6. last \in Nat /\ last + 1 \in Nat /\ 1 \in 1..last /\ last \in 1..last
  BY <1>e
<1>b. \A k \in 1..n : k \in Nat /\ k \in 1..last /\ k + 1 \in 1..last
  BY <1>e
<1>c. \A k \in 1..last : k \in Nat /\ k # last + 1 /\ (k \in 1..n \/ k = last)
  <2> TAKE k \in 1..last
  <2>1. k \in Nat /\ 1 <= k /\ k <= n + 1 /\ last = n + 1
    BY <1>e
  <2> HIDE DEF last
  <2>2. QED BY <1>e, <2>1
<1> HIDE DEF last
<1>7. /\ bt \in [Nat -> Nat] /\ num2 \in [Nat -> Numbers]
      /\ bt[last + 1] = Len(u) /\ num2[last + 1] = aft
  BY <1>2, <1>3, <1>6
<1>d. \A k \in 1..last : bt[k] = at[k] /\ num2[k] = num[k]
  BY <1>c
<1> HIDE DEF bt, num2
<1>8. ASSUME NEW k \in 1..n PROVE Lies(u, bt, num2, k, qs[k])
  <2>0. k \in Nat /\ k \in 1..last /\ k + 1 \in 1..last
    BY <1>b
  <2>1. bt[k] = at[k] /\ num2[k] = num[k] /\ bt[k + 1] = at[k + 1] /\ num2[k + 1] = num[k + 1]
    <3>1. PICK m : m = k + 1
      OBVIOUS
    <3>2. bt[k] = at[k] /\ num2[k] = num[k] /\ bt[m] = at[m] /\ num2[m] = num[m]
      BY <2>0, <3>1, <1>d
    <3>3. QED BY <3>1, <3>2
  <2>a. ps[k] \in Seq(Nat)
    BY DEF n
  <2>b. qs[k] = ps[k]
    BY <1>4
  <2>c. Lies(t, at, num, k, ps[k])
    BY <1>5
  <2>2. ps[k] \in Seq(Nat) /\ Lies(t, at, num, k, ps[k]) /\ qs[k] = ps[k]
    BY <2>a, <2>b, <2>c
  <2>3. Lies(u, bt, num2, k, ps[k])
    BY <1>3, <2>0, <2>1, <2>2, LiesStays
  <2>4. QED BY <2>2, <2>3
<1>9. Lies(u, bt, num2, last, qs[last])
  <2>1. bt[last] = Len(t) /\ num2[last] = q
    BY <1>5, <1>6, <1>d
  <2>2. bt[last + 1] = Len(u) /\ num2[last + 1] = aft /\ Len(u) <= Len(u)
    BY <1>3, <1>7
  <2>3. QED BY <1>3, <1>4, <2>1, <2>2, <1>a DEF Lies, N
<1>10. \A k \in 1..Len(qs) : Lies(u, bt, num2, k, qs[k])
  BY <1>4, <1>c, <1>8, <1>9
<1>11. bt[1] = 0
  BY <1>5, <1>6, <1>d
<1>12. Laid(u, bt, num2, qs, aft) /\ EndsRight(u, bt, qs)
  BY <1>4, <1>7, <1>10, <1>11 DEF Laid, EndsRight
<1>13. QED BY <1>7, <1>d, <1>12 DEF Grown, qs, n, last

\* A packet with a number that was skipped to.
LEMMA LaidWrong ==
  ASSUME NEW t \in Seq(Nat), NEW at \in [Nat -> Nat], NEW num \in [Nat -> Numbers],
         NEW ps \in Seq(Seq(Nat)), NEW q \in Numbers, NEW p \in Seq(Nat),
         Laid(t, at, num, ps, q), EndsRight(t, at, ps)
  PROVE  LET u == t \o PacketBytes(p, NextSeq(q)) IN Laid(u, at, num, ps, q) /\ EndsWrong(u, at, ps, q)
<1> DEFINE u == t \o PacketBytes(p, NextSeq(q))
           n == Len(ps)
<1>1. NextSeq(q) \in Numbers /\ n \in Nat
  BY NumberFacts DEF Numbers
<1>2. u \in Seq(Nat) /\ Len(u) = Len(t) + PacketSize(p) /\ Extends(u, t) /\ Framed(u, Len(t), p, NextSeq(q))
  BY <1>1, FramedBehind
<1> HIDE DEF u
<1>3. /\ at[1] = 0 /\ num[n + 1] = q /\ Len(t) = at[n + 1]
      /\ \A k \in 1..n : Lies(t, at, num, k, ps[k])
  BY DEF Laid, EndsRight
<1>4. ASSUME NEW k \in 1..n PROVE Lies(u, at, num, k, ps[k])
  <2>1. k \in Nat /\ ps[k] \in Seq(Nat) /\ Lies(t, at, num, k, ps[k])
    BY <1>1, <1>3
  <2>2. QED BY <1>2, <2>1, LiesStays
<1>5. Len(u) = at[n + 1] + PacketSize(p) /\ Framed(u, at[n + 1], p, NextSeq(q))
  BY <1>2, <1>3
<1>6. Laid(u, at, num, ps, q) /\ EndsWrong(u, at, ps, q)
  BY <1>3, <1>4, <1>5 DEF Laid, EndsWrong
<1>7. QED BY <1>6 DEF u

\* PeerSend without its bounds.
Writes(p) ==
  /\ ~eof /\ ~broken /\ stream' = stream \o PacketBytes(p, peer_seq)
  /\ peer_seq' = (peer_seq + NumFragments(p)) % SeqCount
  /\ sent' = Append(sent, p)
  /\ UNCHANGED <<eof, broken, clientVars>>

\* The peer writes a packet.
LEMMA WritesStep ==
  ASSUME IInv, NEW p \in Packets, Writes(p)
  PROVE  IInv'
<1>1. /\ ~eof /\ ~broken /\ stream' = stream \o PacketBytes(p, peer_seq)
      /\ peer_seq' = (peer_seq + NumFragments(p)) % SeqCount
      /\ sent' = Append(sent, p) /\ eof' = eof /\ broken' = broken
  BY DEF Writes
<1>2. UNCHANGED clientVars /\ UNCHANGED <<parserVars, got>>
  BY DEF clientVars, Writes
<1>3. /\ state' = state /\ fragment' = fragment /\ deferred_end_callback' = deferred_end_callback
      /\ sequence_number' = sequence_number /\ bytes_remaining' = bytes_remaining /\ packet' = packet
      /\ recv' = recv /\ pc' = pc /\ rc' = rc /\ got' = got
  BY <1>2 DEF clientVars, parserVars
<1>4. p \in Seq(Nat) /\ TypeOK /\ Delivered /\ peer_seq \in Numbers /\ sent \in Seq(Packets) /\ broken \in BOOLEAN
  BY ParserAssumption DEF IInv, TypeOK, Numbers
<1>5. sent \in Seq(Seq(Nat))
  BY <1>4, Lengths
<1>6. peer_seq' = Number(peer_seq, NumFragments(p) + 1) /\ peer_seq' \in Numbers
  <2>1. NumFragments(p) \in Nat \ {0} /\ NumFragments(p) + 1 \in Nat \ {0}
    BY <1>4, FragmentFacts
  <2>2. Number(peer_seq, NumFragments(p) + 1) = (peer_seq + NumFragments(p)) % SeqCount
    <3>1. peer_seq + (NumFragments(p) + 1) - 1 = peer_seq + NumFragments(p)
      BY <1>4, <2>1 DEF Numbers
    <3>2. QED BY <3>1 DEF Number
  <2>3. Number(peer_seq, NumFragments(p) + 1) \in 0..(SeqCount - 1)
    BY <1>4, <2>1, NumberFacts DEF Numbers
  <2>4. QED BY <1>1, <2>2, <2>3 DEF Numbers
<1>7. sent' \in Seq(Packets)
  BY <1>1, <1>4
<1>8. stream' \in Seq(Nat)
  <2>1. PacketBytes(p, peer_seq) \in Seq(Nat) /\ stream \in Seq(Nat)
    BY <1>4, PacketBytesFacts DEF TypeOK, Numbers
  <2>2. QED BY <1>1, <2>1
<1>9. TypeOK'
  BY <1>1, <1>3, <1>4, <1>6, <1>7, <1>8 DEF TypeOK, Numbers
<1>10. Delivered'
  BY <1>1, <1>3, <1>4, DeliveredStays
<1>11. ASSUME rc # "SYSERR" PROVE Parsing'
  <2>1. PICK t \in Seq(Nat), at \in [Nat -> Nat], num \in [Nat -> Numbers], pos \in Nat :
          Written(t, at, num) /\ Unread(t, pos) /\ Where(t, at, num, pos)
    BY <1>11 DEF IInv, Parsing
  <2>2. PICK q : q = peer_seq
    OBVIOUS
  <2>3. PICK u : u = t \o PacketBytes(p, q)
    OBVIOUS
  <2>4. u \in Seq(Nat) /\ Extends(u, t)
    BY <1>4, <2>2, <2>3, FramedBehind
  <2>5. Laid(t, at, num, sent, q) /\ EndsRight(t, at, sent)
    BY <1>1, <1>4, <2>1, <2>2 DEF Written
  <2>a. PICK aft : aft = Number(q, NumFragments(p) + 1)
    OBVIOUS
  <2>b. PICK ps : ps = sent
    OBVIOUS
  <2>c. q \in Numbers /\ ps \in Seq(Seq(Nat)) /\ Laid(t, at, num, ps, q) /\ EndsRight(t, at, ps)
    BY <1>4, <1>5, <2>2, <2>5, <2>b
  <2>d. Grown(u, at, num, ps, p, aft)
    <3>1. After(u, aft, t, p, q)
      BY <2>3, <2>a DEF After
    <3>2. QED BY <1>4, <2>c, <3>1, LaidGrows
  <2>6. PICK bt \in [Nat -> Nat], num2 \in [Nat -> Numbers] :
          /\ Laid(u, bt, num2, Append(sent, p), aft) /\ EndsRight(u, bt, Append(sent, p))
          /\ \A k \in 1..(Len(sent) + 1) : bt[k] = at[k] /\ num2[k] = num[k]
    BY <2>b, <2>d DEF Grown
  <2>7. Written(u, bt, num2)'
    <3>1. broken' = FALSE
      BY <1>1, <1>4
    <3>2. QED BY <1>1, <1>6, <2>2, <2>6, <2>a, <3>1 DEF Written
  <2>8. Unread(u, pos)'
    BY <1>1, <1>3, <1>4, <2>1, <2>2, <2>3, UnreadGrows
  <2>9. Where(u, bt, num2, pos)'
    <3>1. ~broken /\ \E r \in Packets : sent' = Append(sent, r)
      BY <1>1
    <3>2. QED BY <1>2, <1>4, <2>1, <2>4, <2>6, <3>1, WhereStays
  <2>10. QED BY <2>4, <2>6, <2>7, <2>8, <2>9 DEF Parsing
<1>12. QED BY <1>3, <1>9, <1>10, <1>11 DEF IInv

LEMMA PeerSendStep ==
  ASSUME IInv, NEW p \in Packets, PeerSend(p)
  PROVE  IInv'
<1>1. Writes(p)
  BY DEF PeerSend, Writes
<1>2. QED BY <1>1, WritesStep

\* The peer writes a packet with a number it has skipped to.
LEMMA PeerSkipsStep ==
  ASSUME IInv, NEW p \in Packets, PeerSkips(p)
  PROVE  IInv'
<1>1. /\ ~eof /\ ~broken /\ stream' = stream \o PacketBytes(p, NextSeq(peer_seq))
      /\ peer_seq' = peer_seq /\ sent' = sent /\ eof' = eof /\ broken' = TRUE
  BY DEF PeerSkips
<1>2. UNCHANGED clientVars /\ UNCHANGED <<parserVars, got>>
  BY DEF clientVars, PeerSkips
<1>3. /\ state' = state /\ fragment' = fragment /\ deferred_end_callback' = deferred_end_callback
      /\ sequence_number' = sequence_number /\ bytes_remaining' = bytes_remaining /\ packet' = packet
      /\ recv' = recv /\ pc' = pc /\ rc' = rc /\ got' = got
  BY <1>2 DEF clientVars, parserVars
<1>4. p \in Seq(Nat) /\ TypeOK /\ Delivered /\ peer_seq \in Numbers /\ sent \in Seq(Packets) /\ broken \in BOOLEAN
  BY ParserAssumption DEF IInv, TypeOK, Numbers
<1>5. sent \in Seq(Seq(Nat))
  BY <1>4, Lengths
<1>6. NextSeq(peer_seq) \in Numbers
  BY <1>4, NumberFacts DEF Numbers
<1>8. stream' \in Seq(Nat)
  <2>1. PacketBytes(p, NextSeq(peer_seq)) \in Seq(Nat) /\ stream \in Seq(Nat)
    BY <1>4, <1>6, PacketBytesFacts DEF TypeOK, Numbers
  <2>2. QED BY <1>1, <2>1
<1>9. TypeOK'
  BY <1>1, <1>3, <1>4, <1>8 DEF TypeOK
<1>10. Delivered'
  BY <1>1, <1>3, <1>4, DeliveredStays
<1>11. ASSUME rc # "SYSERR" PROVE Parsing'
  <2>1. PICK t \in Seq(Nat), at \in [Nat -> Nat], num \in [Nat -> Numbers], pos \in Nat :
          Written(t, at, num) /\ Unread(t, pos) /\ Where(t, at, num, pos)
    BY <1>11 DEF IInv, Parsing
  <2>2. PICK q : q = peer_seq
    OBVIOUS
  <2>3. PICK u : u = t \o PacketBytes(p, NextSeq(q))
    OBVIOUS
  <2>4. u \in Seq(Nat) /\ Extends(u, t)
    BY <1>4, <1>6, <2>2, <2>3, FramedBehind
  <2>5. Laid(t, at, num, sent, q) /\ EndsRight(t, at, sent)
    BY <1>1, <1>4, <2>1, <2>2 DEF Written
  <2>6. Laid(u, at, num, sent, q) /\ EndsWrong(u, at, sent, q)
    BY <1>4, <1>5, <2>2, <2>3, <2>5, LaidWrong
  <2>7. Written(u, at, num)'
    BY <1>1, <2>2, <2>6 DEF Written
  <2>8. Unread(u, pos)'
    <3>1. stream' = stream \o PacketBytes(p, NextSeq(q)) /\ NextSeq(q) \in Numbers
      BY <1>1, <1>6, <2>2
    <3>2. PICK s \in Numbers : s = NextSeq(q)
      BY <3>1
    <3>3. Unread(t \o PacketBytes(p, s), pos)'
      BY <1>1, <1>3, <1>4, <2>1, <3>1, <3>2, UnreadGrows
    <3>4. QED BY <2>3, <3>2, <3>3
  <2>9. Where(u, at, num, pos)'
    <3>1. sent' = sent /\ (broken => broken')
      BY <1>1
    <3>2. QED BY <1>2, <1>4, <2>1, <2>4, <3>1, WhereStays
  <2>10. QED BY <2>4, <2>7, <2>8, <2>9 DEF Parsing
<1>12. QED BY <1>3, <1>9, <1>10, <1>11 DEF IInv

\* The connection goes down.
LEMMA PeerCutStep ==
  ASSUME IInv, NEW n \in 0..Len(stream), PeerCut(n)
  PROVE  IInv'
<1>1. /\ stream' = SubSeq(stream, 1, n) /\ peer_seq' = peer_seq /\ sent' = sent
      /\ eof' = TRUE /\ broken' = broken
  BY DEF PeerCut
<1>2. UNCHANGED clientVars /\ UNCHANGED <<parserVars, got>>
  BY DEF clientVars, PeerCut
<1>3. /\ state' = state /\ fragment' = fragment /\ deferred_end_callback' = deferred_end_callback
      /\ sequence_number' = sequence_number /\ bytes_remaining' = bytes_remaining /\ packet' = packet
      /\ recv' = recv /\ pc' = pc /\ rc' = rc /\ got' = got
  BY <1>2 DEF clientVars, parserVars
<1>4. TypeOK /\ Delivered /\ stream \in Seq(Nat) /\ recv \in Seq(Nat)
  BY DEF IInv, TypeOK
<1>5. n \in Nat /\ n <= Len(stream) /\ Len(stream) \in Nat /\ Len(recv) \in Nat
  BY <1>4
<1>6. stream' \in Seq(Nat) /\ Len(stream') = n /\ \A j \in 1..n : j \in 1..Len(stream) /\ stream'[j] = stream[j]
  BY <1>1, <1>4, <1>5
<1>7. TypeOK'
  BY <1>1, <1>3, <1>4, <1>6 DEF TypeOK
<1>8. Delivered'
  BY <1>1, <1>3, <1>4, DeliveredStays
<1>9. ASSUME rc # "SYSERR" PROVE Parsing'
  <2>1. PICK t \in Seq(Nat), at \in [Nat -> Nat], num \in [Nat -> Numbers], pos \in Nat :
          Written(t, at, num) /\ Unread(t, pos) /\ Where(t, at, num, pos)
    BY <1>9 DEF IInv, Parsing
  <2>2. Written(t, at, num)'
    BY <1>1, <2>1 DEF Written
  <2>3. Unread(t, pos)'
    <3>1. /\ pos + Len(recv) + Len(stream) <= Len(t)
          /\ \A j \in 1..Len(recv) : recv[j] = t[pos + j]
          /\ \A j \in 1..Len(stream) : stream[j] = t[pos + Len(recv) + j]
      BY <2>1 DEF Unread
    <3>2. pos + Len(recv) + n <= Len(t)
      <4> DEFINE r == Len(recv)
                 m == Len(stream)
                 l == Len(t)
      <4>1. pos + r + m <= l /\ r \in Nat /\ m \in Nat /\ l \in Nat /\ n <= m
        BY <1>5, <3>1
      <4> HIDE DEF r, m, l
      <4>2. pos + r + n <= l
        BY <1>5, <4>1
      <4>3. QED BY <4>2 DEF r, l
    <3>3. \A j \in 1..n : stream'[j] = t[pos + Len(recv) + j]
      BY <1>6, <3>1
    <3>4. QED BY <1>1, <1>3, <1>6, <3>1, <3>2, <3>3 DEF Unread
  <2>4. Where(t, at, num, pos)'
    <3>1. sent' = sent /\ (broken => broken')
      BY <1>1
    <3>2. Len(t) \in Nat /\ Extends(t, t)
      BY DEF Extends
    <3>3. \A k \in 1..(Len(sent) + 1) : at[k] = at[k] /\ num[k] = num[k]
      OBVIOUS
    <3>4. QED BY <1>2, <1>4, <2>1, <3>1, <3>2, <3>3, WhereStays
  <2>5. QED BY <2>2, <2>3, <2>4 DEF Parsing
<1>10. QED BY <1>3, <1>7, <1>8, <1>9 DEF IInv

-----------------------------------------------------------------------------
(* What a byte does to the parser.                                           *)

\* The first length byte.
LEMMA ReadsLen0 ==
  ASSUME NEW t, NEW p \in Seq(Nat), NEW i \in 1..NumFragments(p), NEW base \in Nat, NEW n0, NEW s,
         NEW pos \in Nat, Framed(t, base, p, s), NEW fr \in BOOLEAN, NEW r, NEW sq, NEW buf,
         In("S_LEN_0", fr, r, sq, buf, p, i, base, n0, pos)
  PROVE  In("S_LEN_1", fr, t[pos + 1], sq, buf, p, i, base, n0, pos + 1) /\ t[pos + 1] \in 0..MaxLen
<1> DEFINE b == base + FragStart(i)
           l == FragLen(p, i)
           x == l % Radix
           y == (l \div Radix) % Radix
           w == x + Radix * y
<1>1. b \in Nat
  BY SizeFacts
<1>2. l \in 0..MaxLen
  BY FragmentFacts
<1>3. t[b + 1] = x /\ t[b + 2] = y
  BY DEF Framed
<1>4. x \in 0..l /\ w \in 0..l
  BY <1>2, LengthBytes
<1>5. x \in 0..MaxLen /\ w \in 0..MaxLen
  <2> HIDE DEF l, x, w
  <2>1. QED BY <1>2, <1>4, MaxLenType
<1>6. pos = b /\ (fr <=> i # 1) /\ sq = Number(n0, i) /\ (i # 1 => Holds(buf, p, CutStart(i)))
  BY DEF In
<1>7. t[pos + 1] = x
  BY <1>3, <1>6
<1>8. QED BY <1>5, <1>6, <1>7 DEF In

\* The byte behind the first pos.
ByteAt(t, pos, x) == x = t[pos + 1]

\* The second length byte x, added to the first.
Adds(r, r2, x) == r2 = r + Radix * x

\* The second length byte.
LEMMA ReadsLen1 ==
  ASSUME NEW t, NEW p \in Seq(Nat), NEW i \in 1..NumFragments(p), NEW base \in Nat, NEW n0, NEW s,
         NEW pos \in Nat, Framed(t, base, p, s), NEW fr \in BOOLEAN, NEW r, NEW sq, NEW buf,
         In("S_LEN_1", fr, r, sq, buf, p, i, base, n0, pos), NEW x, ByteAt(t, pos, x), NEW r2, Adds(r, r2, x)
  PROVE  In("S_LEN_2", fr, r2, sq, buf, p, i, base, n0, pos + 1)
<1> DEFINE b == base + FragStart(i)
           l == FragLen(p, i)
           u == l % Radix
           y == (l \div Radix) % Radix
           w == u + Radix * y
<1>1. b \in Nat
  BY SizeFacts
<1>2. l \in 0..MaxLen
  BY FragmentFacts
<1>3. t[b + 1] = u /\ t[b + 2] = y
  BY DEF Framed
<1>4. u \in 0..l /\ w \in 0..l
  BY <1>2, LengthBytes
<1>5. u \in 0..MaxLen /\ w \in 0..MaxLen
  <2> HIDE DEF l, u, w
  <2>1. QED BY <1>2, <1>4, MaxLenType
<1>6. pos = b + 1 /\ r = u /\ (fr <=> i # 1) /\ sq = Number(n0, i) /\ (i # 1 => Holds(buf, p, CutStart(i)))
  BY DEF In
<1>7. pos + 1 = b + 2
  BY <1>1, <1>6
<1>8. r2 = w
  BY <1>3, <1>6, <1>7 DEF Adds, ByteAt
<1>9. QED BY <1>5, <1>6, <1>7, <1>8 DEF In

\* The third, x; the packet buffer is emptied unless fragment was set.
Begins(fr, fr2, r, r2, buf, buf2, x) ==
  /\ r2 = r + Radix * Radix * x /\ (fr2 <=> r2 = MaxLen)
  /\ fr => buf2 = buf
  /\ ~fr => buf2 = <<>>

\* The last length byte: only a packet's first fragment empties the buffer.
LEMMA ReadsLastLength ==
  ASSUME NEW t, NEW p \in Seq(Nat), NEW i \in 1..NumFragments(p), NEW base \in Nat, NEW n0, NEW s,
         NEW pos \in Nat, Framed(t, base, p, s), NEW fr \in BOOLEAN, NEW r, NEW sq, NEW buf,
         In("S_LEN_2", fr, r, sq, buf, p, i, base, n0, pos),
         NEW fr2 \in BOOLEAN, NEW r2, NEW buf2,
         NEW x, ByteAt(t, pos, x), Begins(fr, fr2, r, r2, buf, buf2, x)
  PROVE  In("S_SEQ", fr2, r2, sq, buf2, p, i, base, n0, pos + 1)
<1> DEFINE b == base + FragStart(i)
           l == FragLen(p, i)
           u == l % Radix
           y == (l \div Radix) % Radix
           z == l \div (Radix * Radix)
<1>1. b \in Nat
  BY SizeFacts
<1>2. l \in 0..MaxLen
  BY FragmentFacts
<1>3. t[b + 3] = z
  BY DEF Framed
<1>4. u + Radix * y + Radix * Radix * z = l
  BY <1>2, LengthBytes
<1>5. pos = b + 2 /\ r = u + Radix * y /\ (fr <=> i # 1) /\ sq = Number(n0, i) /\ (i # 1 => Holds(buf, p, CutStart(i)))
  BY DEF In
<1>6. pos + 1 = b + 3
  BY <1>1, <1>5
<1>a. r2 = r + Radix * Radix * t[pos + 1] /\ (fr2 <=> r2 = MaxLen)
  BY DEF Begins, ByteAt
<1>b. (fr => buf2 = buf) /\ (~fr => buf2 = <<>>)
  BY DEF Begins, ByteAt
<1>7. r2 = l
  BY <1>3, <1>4, <1>5, <1>6, <1>a
<1>8. Holds(buf2, p, CutStart(i))
  <2>1. CASE i # 1
    BY <2>1, <1>5, <1>b
  <2>2. CASE i = 1
    <3>1. buf2 = <<>> /\ CutStart(i) = 0
      <4>1. MaxLen \in Nat /\ CutStart(1) = (1 - 1) * MaxLen
        BY MaxLenType DEF CutStart
      <4>2. CutStart(1) = 0
        BY <4>1
      <4>3. QED BY <4>2, <2>2, <1>5, <1>b
    <3>2. QED BY <3>1 DEF Holds
  <2>3. QED BY <2>1, <2>2
<1>9. QED BY <1>2, <1>5, <1>6, <1>7, <1>8, <1>a DEF In

\* What is left of a fragment is not more than a fragment holds.
LEMMA InBounds ==
  ASSUME NEW p \in Seq(Nat), NEW i \in 1..NumFragments(p), NEW base, NEW n0, NEW pos,
         NEW fr, NEW r, NEW sq, NEW buf, NEW st, st # "S_LEN_0",
         In(st, fr, r, sq, buf, p, i, base, n0, pos)
  PROVE  r \in 0..MaxLen
<1> DEFINE l == FragLen(p, i)
           x == l % Radix
           w == x + Radix * ((l \div Radix) % Radix)
<1>1. l \in 0..MaxLen
  BY FragmentFacts
<1>2. x \in 0..l /\ w \in 0..l
  BY <1>1, LengthBytes
<1>3. r = x \/ r = w \/ r = l \/ r \in 1..l
  BY DEF In
<1> HIDE DEF l, x, w
<1>4. QED BY <1>1, <1>2, <1>3, MaxLenType

\* All of fragment i has been read.
AtEnd(fr, sq, buf, p, i, base, n0, pos) ==
  /\ pos = base + FragStart(i) + 4 + FragLen(p, i)
  /\ fr <=> FragLen(p, i) = MaxLen
  /\ sq = Number(n0, i + 1)
  /\ Holds(buf, p, CutStart(i) + FragLen(p, i))

\* The number, if it is the one expected.
LEMMA ReadsNumber ==
  ASSUME NEW p \in Seq(Nat), NEW i \in 1..NumFragments(p), NEW base \in Nat, NEW n0 \in Numbers,
         NEW pos \in Nat, NEW fr \in BOOLEAN, NEW r, NEW sq, NEW buf,
         In("S_SEQ", fr, r, sq, buf, p, i, base, n0, pos)
  PROVE  /\ r # 0 => In("S_PAYLOAD", fr, r, NextSeq(sq), buf, p, i, base, n0, pos + 1)
         /\ r = 0 => AtEnd(fr, NextSeq(sq), buf, p, i, base, n0, pos + 1)
         /\ sq = Number(n0, i) /\ pos = base + FragStart(i) + 3
<1> DEFINE b == base + FragStart(i)
           l == FragLen(p, i)
           c == CutStart(i)
<1>1. b \in Nat
  BY SizeFacts
<1>2. l \in 0..MaxLen /\ c \in Nat
  BY FragmentFacts
<1>3. pos = b + 3 /\ r = l /\ (fr <=> l = MaxLen) /\ sq = Number(n0, i) /\ Holds(buf, p, c)
  BY DEF In
<1>4. i \in Nat \ {0}
  <2>1. NumFragments(p) \in Nat
    BY FragmentFacts
  <2>2. QED BY <2>1
<1>5. NextSeq(sq) = Number(n0, i + 1)
  BY <1>3, <1>4, NumberFacts DEF Numbers
<1>6. l \in Nat /\ MaxLen \in Nat
  BY <1>2, MaxLenType
<1> HIDE DEF b, l, c
<1>7. pos + 1 = b + 4 + (l - r) /\ c + (l - r) = c /\ (r # 0 => r \in 1..l)
  BY <1>1, <1>2, <1>3, <1>6
<1>8. r = 0 => pos + 1 = b + 4 + l /\ c + l = c
  BY <1>1, <1>2, <1>3, <1>6
<1>9. ASSUME r # 0 PROVE In("S_PAYLOAD", fr, r, NextSeq(sq), buf, p, i, base, n0, pos + 1)
  BY <1>3, <1>5, <1>7, <1>9 DEF In, b, l, c
<1>10. ASSUME r = 0 PROVE AtEnd(fr, NextSeq(sq), buf, p, i, base, n0, pos + 1)
  BY <1>3, <1>5, <1>8, <1>10 DEF AtEnd, b, l, c
<1>11. QED BY <1>3, <1>9, <1>10 DEF b

\* c is a chunk of t from byte pos on.
Brings(c, t, pos) == \A j \in 1..Len(c) : c[j] = t[pos + j]

\* With it, what is left of r is r2, and the next byte is the one behind q.
Takes(c, r, r2, pos, q) == Len(c) <= r /\ r2 = r - Len(c) /\ q = pos + Len(c)

\* A chunk of payload.
LEMMA ReadsPayload ==
  ASSUME NEW t, NEW p \in Seq(Nat), NEW i \in 1..NumFragments(p), NEW base \in Nat, NEW n0 \in Numbers, NEW s,
         NEW pos \in Nat, Framed(t, base, p, s), NEW fr \in BOOLEAN, NEW r, NEW sq, NEW buf,
         In("S_PAYLOAD", fr, r, sq, buf, p, i, base, n0, pos),
         NEW c \in Seq(Nat), Brings(c, t, pos), NEW buf2, Joined(buf2, buf, c, Len(buf)),
         NEW r2, NEW q, Takes(c, r, r2, pos, q)
  PROVE  /\ r2 # 0 => In("S_PAYLOAD", fr, r2, sq, buf2, p, i, base, n0, q)
         /\ r2 = 0 => AtEnd(fr, sq, buf2, p, i, base, n0, q)
         /\ r2 \in 0..MaxLen
<1> DEFINE b == base + FragStart(i)
           l == FragLen(p, i)
           d == CutStart(i)
           n == Len(c)
           h == d + (l - r)
<1>1. b \in Nat
  BY SizeFacts
<1>2. l \in 0..MaxLen /\ d \in Nat
  BY FragmentFacts
<1>3. r \in 1..l /\ pos = b + 4 + (l - r) /\ (fr <=> l = MaxLen) /\ sq = Number(n0, i + 1) /\ Holds(buf, p, h)
  BY DEF In
<1>4. \A j \in 1..l : t[b + 4 + j] = p[d + j]
  BY DEF Framed
<1>5. (\A j \in 1..n : c[j] = t[pos + j]) /\ n \in Nat
  BY DEF Brings
<1>6. Len(buf) = h /\ \A j \in 1..h : buf[j] = p[j]
  BY <1>3 DEF Holds
<1>7. Len(buf2) = h + n /\ (\A j \in 1..h : buf2[j] = buf[j]) /\ (\A j \in 1..n : buf2[h + j] = c[j])
  BY <1>6 DEF Joined
<1>8. l \in Nat /\ MaxLen \in Nat
  BY <1>2, MaxLenType
<1>a. n <= r
  BY DEF Takes
<1>b. h = d + (l - r)
  OBVIOUS
<1> HIDE DEF b, l, d, n, h
<1>9. h \in Nat /\ r \in Nat
  BY <1>2, <1>3, <1>8, <1>b
<1>10. ASSUME NEW j \in 1..(h + n) PROVE buf2[j] = p[j]
  <2>1. CASE j <= h
    <3>1. j \in 1..h
      BY <2>1, <1>5, <1>9
    <3>2. QED BY <3>1, <1>6, <1>7
  <2>2. CASE ~(j <= h)
    <3>1. PICK e : e = j - h
      OBVIOUS
    <3>2. e \in 1..n /\ h + e = j
      BY <3>1, <2>2, <1>5, <1>9
    <3>3. buf2[j] = t[pos + e]
      BY <3>2, <1>5, <1>7
    <3>4. PICK g : g = (l - r) + e
      OBVIOUS
    <3>5. g \in 1..l /\ pos + e = b + 4 + g /\ d + g = j
      BY <3>2, <3>4, <1>1, <1>2, <1>3, <1>5, <1>8, <1>9, <1>a, <1>b
    <3>6. t[b + 4 + g] = p[d + g]
      BY <3>5, <1>4
    <3>7. QED BY <3>3, <3>5, <3>6
  <2>3. QED BY <2>1, <2>2
<1>11. Holds(buf2, p, h + n)
  BY <1>7, <1>10 DEF Holds
<1>12. /\ n \in Nat /\ r \in 1..l /\ pos = b + 4 + (l - r)
       /\ r2 = r - n /\ q = pos + n
  BY <1>3, <1>5 DEF n, Takes
<1>13. r2 \in 0..l /\ r2 \in 0..MaxLen
  <2>1. r \in Nat /\ r <= l /\ r2 = r - n /\ n \in Nat /\ n <= r
    BY <1>8, <1>9, <1>12, <1>a
  <2>2. r2 \in Nat /\ r2 <= l
    BY <2>1, <1>8
  <2>3. l <= MaxLen
    BY <1>2, <1>8
  <2>4. r2 <= MaxLen
    BY <2>2, <2>3, <1>8
  <2>5. QED BY <2>2, <2>4, <1>8
<1>14. q = b + 4 + (l - r2) /\ h + n = d + (l - r2)
  BY <1>1, <1>2, <1>8, <1>9, <1>12, <1>b
<1>15. Holds(buf2, p, d + (l - r2))
  BY <1>11, <1>14
<1>16. ASSUME r2 # 0 PROVE In("S_PAYLOAD", fr, r2, sq, buf2, p, i, base, n0, q)
  <2>1. r2 \in 1..l
    BY <1>8, <1>13, <1>16
  <2>2. QED BY <1>3, <1>14, <1>15, <2>1 DEF In, b, l, d
<1>17. ASSUME r2 = 0 PROVE AtEnd(fr, sq, buf2, p, i, base, n0, q)
  <2>1. q = b + 4 + l /\ d + (l - r2) = d + l
    BY <1>1, <1>2, <1>8, <1>14, <1>17
  <2>2. QED BY <1>3, <1>15, <2>1 DEF AtEnd, b, l, d
<1>18. QED BY <1>13, <1>16, <1>17

\* Another fragment follows.
GoesOn(fr, sq, buf, p, i, base, n0, pos) ==
  /\ i + 1 \in 1..NumFragments(p)
  /\ \A r : In("S_LEN_0", fr, r, sq, buf, p, i + 1, base, n0, pos)

\* The buffer holds the packet.
IsComplete(sq, buf, p, base, n0, pos) ==
  buf = p /\ pos = base + PacketSize(p) /\ sq = Number(n0, NumFragments(p) + 1)

\* Behind a full fragment comes another one, behind any other the packet is complete.
LEMMA ReadsEnd ==
  ASSUME NEW p \in Seq(Nat), NEW i \in 1..NumFragments(p), NEW base \in Nat, NEW n0 \in Numbers,
         NEW pos \in Nat, NEW fr \in BOOLEAN, NEW sq, NEW buf \in Seq(Nat),
         AtEnd(fr, sq, buf, p, i, base, n0, pos)
  PROVE  /\ fr => GoesOn(fr, sq, buf, p, i, base, n0, pos)
         /\ ~fr => IsComplete(sq, buf, p, base, n0, pos)
<1> DEFINE N == NumFragments(p)
           b == base + FragStart(i)
           l == FragLen(p, i)
           d == CutStart(i)
<1>1. b \in Nat /\ FragStart(i) \in Nat
  BY SizeFacts
<1>2. /\ N \in Nat /\ l \in 0..MaxLen /\ d \in Nat
      /\ i < N => l = MaxLen
      /\ i = N => l < MaxLen /\ d + l = Len(p)
      /\ CutStart(i + 1) = d + MaxLen
  BY FragmentFacts
<1>3. pos = b + 4 + l /\ (fr <=> l = MaxLen) /\ sq = Number(n0, i + 1) /\ Holds(buf, p, d + l)
  BY DEF AtEnd
<1>4. MaxLen \in Nat
  BY MaxLenType
<1>5. i \in Nat \ {0} /\ i <= N
  BY <1>2
<1>6. FragStart(i + 1) = FragStart(i) + MaxLen + 4
  BY <1>5, FragStartFacts
<1>7. ASSUME fr
      PROVE  GoesOn(fr, sq, buf, p, i, base, n0, pos)
  <2>1. l = MaxLen /\ i + 1 \in 1..N /\ i + 1 # 1
    <3> HIDE DEF N, l, d
    <3>1. QED BY <1>7, <1>2, <1>3, <1>4, <1>5
  <2>2. pos = base + FragStart(i + 1)
    <3> DEFINE f == FragStart(i)
               m == MaxLen
    <3>1. pos = base + f + 4 + m /\ FragStart(i + 1) = f + m + 4 /\ f \in Nat /\ m \in Nat
      BY <2>1, <1>1, <1>3, <1>4, <1>6
    <3> HIDE DEF f, m
    <3>2. QED BY <3>1
  <2>3. Holds(buf, p, CutStart(i + 1))
    BY <2>1, <1>2, <1>3
  <2>4. ASSUME NEW r PROVE In("S_LEN_0", fr, r, sq, buf, p, i + 1, base, n0, pos)
    BY <1>3, <1>7, <2>1, <2>2, <2>3 DEF In
  <2>5. QED BY <2>1, <2>4 DEF GoesOn
<1>8. ASSUME ~fr
      PROVE  IsComplete(sq, buf, p, base, n0, pos)
  <2>1. i = N /\ l # MaxLen
    <3> HIDE DEF N, l, d
    <3>1. QED BY <1>8, <1>2, <1>3, <1>5
  <2>2. Len(buf) = Len(p) /\ \A j \in 1..Len(p) : buf[j] = p[j]
    <3>1. Holds(buf, p, Len(p))
      BY <2>1, <1>2, <1>3
    <3>2. QED BY <3>1 DEF Holds
  <2>3. buf = p
    BY <2>2, SeqEqual
  <2>4. PacketSize(p) = FragStart(i) + 4 + l
    BY <2>1 DEF PacketSize
  <2>5. pos = base + PacketSize(p)
    <3> DEFINE f == FragStart(i)
    <3>1. l \in Nat /\ f \in Nat
      BY <1>1, <1>2, <1>4
    <3>2. pos = base + f + 4 + l /\ PacketSize(p) = f + 4 + l
      BY <1>3, <2>4
    <3> HIDE DEF f, l
    <3>3. QED BY <3>1, <3>2
  <2>6. QED BY <1>3, <2>1, <2>3, <2>5 DEF IsComplete
<1>9. QED BY <1>7, <1>8

-----------------------------------------------------------------------------
(* The steps of the client.                                                  *)

\* The parser is in fragment i of p, which lies at byte a and starts with number
\* n0, unless s is a wrong one.
Reading(t, at, num, pos, p, s, i, a, n0) ==
  /\ Written(t, at, num) /\ Unread(t, pos) /\ Current(t, at, num, p, s)
  /\ a = at[Len(got) + 1] /\ n0 = num[Len(got) + 1]
  /\ Inside(p, i, a, n0, pos)

\* Where there are bytes to read there is a packet they belong to.
LEMMA InAPacket ==
  ASSUME IInv, rc # "SYSERR", recv # <<>>
  PROVE  \E t \in Seq(Nat), at \in [Nat -> Nat], num \in [Nat -> Numbers], pos \in Nat,
            p \in Seq(Nat), s \in Numbers, i \in Nat, a \in Nat, n0 \in Numbers :
           i \in 1..NumFragments(p) /\ Reading(t, at, num, pos, p, s, i, a, n0)
<1>1. TypeOK /\ Delivered
  BY DEF IInv
<1> DEFINE k == Len(got) + 1
           n == Len(sent)
<1>2. k \in 1..(n + 1) /\ n \in Nat /\ k \in Nat
  BY <1>1, Lengths
<1>3. \A j \in 1..n : sent[j] \in Seq(Nat)
  BY <1>1, Lengths
<1>4. PICK t \in Seq(Nat), at \in [Nat -> Nat], num \in [Nat -> Numbers], pos \in Nat :
        Written(t, at, num) /\ Unread(t, pos) /\ Where(t, at, num, pos)
  BY DEF IInv, Parsing
<1>5. PICK a \in Nat, n0 \in Numbers : a = at[k] /\ n0 = num[k]
  BY <1>2
<1>6. SUFFICES \E p \in Seq(Nat), s \in Numbers :
                 Current(t, at, num, p, s) /\ \E i \in 1..NumFragments(p) : Inside(p, i, a, n0, pos)
  <2>1. PICK p \in Seq(Nat), s \in Numbers :
          Current(t, at, num, p, s) /\ \E i \in 1..NumFragments(p) : Inside(p, i, a, n0, pos)
    BY <1>6
  <2>2. PICK i \in 1..NumFragments(p) : Inside(p, i, a, n0, pos)
    BY <2>1
  <2>3. i \in Nat
    BY FragmentFacts
  <2>4. Reading(t, at, num, pos, p, s, i, a, n0)
    BY <1>4, <1>5, <2>1, <2>2 DEF Reading
  <2>5. QED BY <2>3, <2>4
<1>7. CASE ~Boundary(at, num, pos)
  <2>1. \E p \in Seq(Nat), s \in Numbers :
          Current(t, at, num, p, s) /\ \E i \in 1..NumFragments(p) : Inside(p, i, at[k], num[k], pos)
    BY <1>4, <1>7 DEF Where
  <2>2. QED BY <1>5, <2>1
<1>8. CASE Boundary(at, num, pos)
  <2>1. state = "S_LEN_0" /\ ~fragment /\ pos = a /\ sequence_number = n0
    BY <1>5, <1>8 DEF Boundary
  <2>2. Len(t) > a
    <3> DEFINE l == Len(t)
               r == Len(recv)
               m == Len(stream)
    <3>1. pos + r + m <= l
      BY <1>4 DEF Unread
    <3>2. r \in Nat /\ r > 0 /\ m \in Nat /\ l \in Nat
      <4>1. recv \in Seq(Nat)
        BY <1>1 DEF TypeOK
      <4>2. Len(recv) \in Nat \ {0}
        BY <4>1, EmptySeq
      <4>3. stream \in Seq(Nat)
        BY <1>1 DEF TypeOK
      <4>4. m \in Nat /\ l \in Nat
        BY <4>3
      <4>5. r \in Nat \ {0}
        BY <4>2
      <4> HIDE DEF r, m, l
      <4>6. QED BY <4>4, <4>5
    <3> HIDE DEF l, r, m
    <3>3. a < l
      BY <2>1, <3>1, <3>2
    <3>4. QED BY <3>3, <3>2 DEF l
  <2>3. ASSUME NEW p \in Seq(Nat) PROVE 1 \in 1..NumFragments(p) /\ Inside(p, 1, a, n0, pos)
    <3>1. 1 \in 1..NumFragments(p)
      <4> DEFINE N == NumFragments(p)
      <4>1. N \in Nat /\ N >= 1
        BY FragmentFacts
      <4> HIDE DEF N
      <4>2. 1 \in 1..N
        BY <4>1
      <4>3. QED BY <4>2 DEF N
    <3>2. FragStart(1) = 0 /\ Number(n0, 1) = n0
      <4>1. 1 \in Nat \ {0}
        OBVIOUS
      <4>2. QED BY <4>1, FragStartFacts, NumberFacts DEF Numbers
    <3>3. pos = a + FragStart(1)
      BY <2>1, <3>2
    <3>4. In(state, fragment, bytes_remaining, sequence_number, packet, p, 1, a, n0, pos)
      BY <2>1, <3>2, <3>3 DEF In
    <3>5. QED BY <2>1, <3>1, <3>4 DEF Inside
  <2>4. CASE k <= n
    <3>1. k \in 1..n
      BY <1>2, <2>4
    <3>2. sent[k] \in Seq(Nat) /\ Lies(t, at, num, k, sent[k])
      BY <1>3, <1>4, <3>1 DEF Written, Laid
    <3>3. Current(t, at, num, sent[k], n0)
      BY <1>5, <2>4, <3>2 DEF Current, Lies
    <3>4. QED BY <2>3, <3>2, <3>3
  <2>5. CASE ~(k <= n)
    <3>1. k = n + 1
      <4> HIDE DEF k, n
      <4>1. QED BY <1>2, <2>5
    <3>2. num[k] = peer_seq
      BY <1>4, <3>1 DEF Written, Laid
    <3>3. broken
      <4>1. ASSUME ~broken PROVE FALSE
        <5>1. Len(t) = at[k]
          BY <4>1, <1>4, <3>1 DEF Written, EndsRight
        <5>2. QED BY <5>1, <2>2, <1>5
      <4>2. QED BY <4>1
    <3>4. EndsWrong(t, at, sent, peer_seq)
      BY <1>4, <3>3 DEF Written
    <3>5. PICK p \in Seq(Nat) : Len(t) = at[k] + PacketSize(p) /\ Framed(t, at[k], p, NextSeq(peer_seq))
      BY <3>1, <3>4 DEF EndsWrong
    <3>6. PICK s : s = NextSeq(n0)
      OBVIOUS
    <3>7. s \in Numbers
      BY <3>6, NumberFacts DEF Numbers
    <3>8. at[k] + PacketSize(p) <= Len(t)
      <4>1. Len(t) \in Nat
        OBVIOUS
      <4>2. QED BY <4>1, <3>5
    <3>9. Current(t, at, num, p, s)
      BY <1>5, <3>1, <3>2, <3>3, <3>5, <3>6, <3>8 DEF Current
    <3>10. QED BY <2>3, <3>7, <3>9
  <2>6. QED BY <2>4, <2>5
<1>9. QED BY <1>7, <1>8

\* The client reads on in the same packet.
LEMMA Moves ==
  ASSUME TypeOK, NEW t \in Seq(Nat), NEW at \in [Nat -> Nat], NEW num \in [Nat -> Numbers], NEW pos,
         NEW p \in Seq(Nat), NEW s \in Numbers, NEW i, NEW a, NEW n0,
         Reading(t, at, num, pos, p, s, i, a, n0), UNCHANGED <<peerVars, got>>,
         NEW q \in Nat, Unread(t, q)', NEW j \in 1..NumFragments(p), Inside(p, j, a, n0, q)'
  PROVE  Parsing'
<1>1. sent' = sent /\ peer_seq' = peer_seq /\ broken' = broken /\ got' = got
  BY DEF peerVars
<1>2. Written(t, at, num)'
  <2>1. Written(t, at, num)
    BY DEF Reading
  <2>2. QED BY <1>1, <2>1 DEF Written
<1>3. Current(t, at, num, p, s)'
  <2>1. Current(t, at, num, p, s)
    BY DEF Reading
  <2>2. QED BY <1>1, <2>1 DEF Current
<1>4. a = at[Len(got') + 1] /\ n0 = num[Len(got') + 1]
  <2>1. a = at[Len(got) + 1] /\ n0 = num[Len(got) + 1]
    BY DEF Reading
  <2>2. QED BY <1>1, <2>1
<1>5. \E l \in 1..NumFragments(p) : Inside(p, l, a, n0, q)'
  OBVIOUS
<1>6. Where(t, at, num, q)'
  BY <1>3, <1>4, <1>5 DEF Where
<1>7. QED BY <1>2, <1>6 DEF Parsing

\* The bytes at the head of recv_buff are consumed.
LEMMA UnreadAdvances ==
  ASSUME TypeOK, NEW t \in Seq(Nat), NEW pos \in Nat, Unread(t, pos),
         NEW c \in 0..Len(recv), recv' = SubSeq(recv, c + 1, Len(recv)), UNCHANGED <<stream, eof>>
  PROVE  Unread(t, pos + c)' /\ recv' \in Seq(Nat)
<1> DEFINE r == Len(recv)
           m == Len(stream)
           l == Len(t)
<1>1. recv \in Seq(Nat) /\ r \in Nat /\ m \in Nat /\ l \in Nat /\ c \in Nat /\ c <= r
  BY DEF TypeOK
<1>2. recv' \in Seq(Nat) /\ Len(recv') = r - c /\ \A j \in 1..(r - c) : recv'[j] = recv[c + j]
  BY <1>1
<1>3. /\ pos + r + m <= l /\ (~eof => pos + r + m = l)
      /\ \A j \in 1..r : recv[j] = t[pos + j]
      /\ \A j \in 1..m : stream[j] = t[pos + r + j]
  BY DEF Unread
<1>4. stream' = stream /\ eof' = eof
  OBVIOUS
<1> HIDE DEF r, m, l
<1>5. /\ pos + c + (r - c) + m = pos + r + m /\ pos + c + (r - c) = pos + r
  BY <1>1
<1>6. ASSUME NEW j \in 1..(r - c) PROVE recv'[j] = t[pos + c + j]
  <2>1. c + j \in 1..r /\ pos + (c + j) = pos + c + j
    BY <1>1
  <2>2. QED BY <1>2, <1>3, <2>1
<1>7. \A j \in 1..m : stream'[j] = t[pos + c + (r - c) + j]
  BY <1>3, <1>4, <1>5
<1>8. Len(stream') = m
  BY <1>4 DEF m
<1>9. pos + c + (r - c) + m <= l /\ (~eof' => pos + c + (r - c) + m = l)
  BY <1>3, <1>4, <1>5
<1>10. Unread(t, pos + c)'
  BY <1>2, <1>6, <1>7, <1>8, <1>9 DEF Unread, l
<1>11. QED BY <1>2, <1>10

\* One byte is consumed.
LEMMA OneByte ==
  ASSUME TypeOK, NEW t \in Seq(Nat), NEW pos \in Nat, Unread(t, pos),
         recv # <<>>, recv' = Tail(recv), UNCHANGED <<stream, eof>>
  PROVE  Unread(t, pos + 1)' /\ recv' \in Seq(Nat) /\ Head(recv) = t[pos + 1]
<1>1. recv \in Seq(Nat) /\ Len(recv) \in Nat \ {0}
  BY EmptySeq DEF TypeOK
<1>2. recv' = SubSeq(recv, 1 + 1, Len(recv))
  <2>1. Tail(recv) = SubSeq(recv, 2, Len(recv))
    BY <1>1, TailIsSubSeq
  <2>2. QED BY <2>1
<1>3. 1 \in 0..Len(recv) /\ 1 \in 1..Len(recv)
  BY <1>1
<1>4. Unread(t, pos + 1)' /\ recv' \in Seq(Nat)
  BY <1>2, <1>3, UnreadAdvances
<1>5. Head(recv) = recv[1]
  BY <1>1
<1>6. recv[1] = t[pos + 1]
  BY <1>3 DEF Unread
<1>7. QED BY <1>4, <1>5, <1>6

\* A step that leaves the parser as it is, and t with it.
LEMMA ParserStays ==
  ASSUME TypeOK, Delivered, Parsing, UNCHANGED <<parserVars, got, peerVars>>,
         \A t \in Seq(Nat), pos \in Nat : Unread(t, pos) => Unread(t, pos)'
  PROVE  Parsing' /\ Delivered'
<1>1. PICK t \in Seq(Nat), at \in [Nat -> Nat], num \in [Nat -> Numbers], pos \in Nat :
        Written(t, at, num) /\ Unread(t, pos) /\ Where(t, at, num, pos)
  BY DEF Parsing
<1>2. sent' = sent /\ peer_seq' = peer_seq /\ broken' = broken /\ got' = got
  BY DEF peerVars
<1>3. Written(t, at, num)'
  BY <1>1, <1>2 DEF Written
<1>4. Unread(t, pos)'
  BY <1>1
<1>5. Where(t, at, num, pos)'
  <2>1. sent' = sent /\ (broken => broken')
    BY <1>2
  <2>2. Extends(t, t)
    BY DEF Extends
  <2>3. \A k \in 1..(Len(sent) + 1) : at[k] = at[k] /\ num[k] = num[k]
    OBVIOUS
  <2>4. UNCHANGED <<parserVars, got>>
    OBVIOUS
  <2>5. QED BY <1>1, <2>1, <2>2, <2>3, <2>4, WhereStays
<1>6. Delivered'
  BY <1>2 DEF Delivered
<1>7. QED BY <1>3, <1>4, <1>5, <1>6 DEF Parsing

\* The call returns with no packet, and everything else stays.
Returns ==
  /\ UNCHANGED <<parserVars, recv, got, stream, peerVars>>
  /\ pc' \in {"idle", "exec"} /\ rc' \in {"AGAIN", "CLOSED_CONNECTION", "INVALID_SEQUENCE_ID"}

LEMMA ReturnsStep ==
  ASSUME IInv, Returns, rc # "SYSERR"
  PROVE  IInv'
<1>1. /\ UNCHANGED <<parserVars, recv, got, stream, peerVars>>
      /\ pc' \in {"idle", "exec"} /\ rc' \in {"AGAIN", "CLOSED_CONNECTION", "INVALID_SEQUENCE_ID"}
  BY DEF Returns
<1>2. /\ state' = state /\ fragment' = fragment /\ deferred_end_callback' = deferred_end_callback
      /\ sequence_number' = sequence_number /\ bytes_remaining' = bytes_remaining /\ packet' = packet
      /\ recv' = recv /\ got' = got /\ stream' = stream
      /\ eof' = eof /\ peer_seq' = peer_seq /\ broken' = broken /\ sent' = sent
  BY <1>1 DEF parserVars, peerVars
<1>3. TypeOK /\ Delivered /\ Parsing /\ ~deferred_end_callback
  BY DEF IInv
<1>4. rc' \in Errors \cup {"OK", "AGAIN"} /\ rc' # "SYSERR"
  BY <1>1 DEF Errors
<1>5. TypeOK'
  BY <1>1, <1>2, <1>3, <1>4 DEF TypeOK
<1>6. ASSUME NEW t \in Seq(Nat), NEW pos \in Nat, Unread(t, pos) PROVE Unread(t, pos)'
  BY <1>2, <1>6 DEF Unread
<1>7. Parsing' /\ Delivered'
  <2>1. UNCHANGED <<parserVars, got, peerVars>>
    BY <1>1
  <2>2. QED BY <1>3, <1>6, <2>1, ParserStays
<1>8. QED BY <1>2, <1>3, <1>4, <1>5, <1>7 DEF IInv

\* read_packet finds nothing, or runs out of bytes, or stops at a number.
LEMMA NothingReadStep ==
  ASSUME IInv, ReadNothing \/ Exhausted \/ WrongSeq, rc # "SYSERR"
  PROVE  IInv'
<1>1. CASE ReadNothing
  <2>1. UNCHANGED <<parserVars, recv, got, stream, peerVars>> /\ pc' = pc /\ pc = "idle"
    BY <1>1 DEF ReadNothing
  <2>2. rc' \in {"AGAIN", "CLOSED_CONNECTION", "INVALID_SEQUENCE_ID"}
    BY <1>1 DEF ReadNothing
  <2>3. QED BY <2>1, <2>2, ReturnsStep DEF Returns
<1>2. CASE Exhausted
  <2>1. Returns
    BY <1>2 DEF Exhausted, Return, Returns
  <2>2. QED BY <2>1, ReturnsStep
<1>3. CASE WrongSeq
  <2>1. Returns
    BY <1>3 DEF WrongSeq, Return, Returns
  <2>2. QED BY <2>1, ReturnsStep
<1>4. QED BY <1>1, <1>2, <1>3

\* read_packet is called and has bytes to look at. The deferred callback is a
\* leftover of a failure after which the caller does not come back.
LEMMA ReadPacketStep ==
  ASSUME IInv, ReadPacket, rc # "SYSERR"
  PROVE  IInv'
<1>1. TypeOK /\ Delivered /\ Parsing /\ ~deferred_end_callback
  BY DEF IInv
<1>2. /\ packet' = packet /\ deferred_end_callback' = FALSE
      /\ UNCHANGED <<state, fragment, sequence_number, bytes_remaining, peerVars>>
  BY DEF ReadPacket
<1>3. pc' = "exec" /\ rc' = rc /\ got' = got
  BY <1>1 DEF ReadPacket
<1>4. deferred_end_callback' = deferred_end_callback
  BY <1>1, <1>2 DEF TypeOK
<1>5. eof' = eof /\ peer_seq' = peer_seq /\ broken' = broken /\ sent' = sent
  BY <1>2 DEF peerVars
<1>6. recv \in Seq(Nat) /\ stream \in Seq(Nat) /\ Len(stream) \in Nat
  BY <1>1 DEF TypeOK
<1>7. \/ recv' = recv /\ stream' = stream
      \/ recv = <<>> /\ \E n \in 1..Len(stream) : recv' = SubSeq(stream, 1, n) /\ stream' = SubSeq(stream, n + 1, Len(stream))
  BY DEF ReadPacket
<1>8. CASE recv' = recv /\ stream' = stream
  <2>1. ASSUME NEW t \in Seq(Nat), NEW pos \in Nat, Unread(t, pos) PROVE Unread(t, pos)'
    BY <1>5, <1>8, <2>1 DEF Unread
  <2>2. UNCHANGED <<parserVars, got, peerVars>>
    BY <1>2, <1>3, <1>4 DEF parserVars
  <2>3. Parsing' /\ Delivered'
    BY <1>1, <2>1, <2>2, ParserStays
  <2>4. TypeOK'
    BY <1>1, <1>2, <1>3, <1>5, <1>8 DEF TypeOK
  <2>5. QED BY <1>2, <1>3, <2>3, <2>4 DEF IInv
<1>9. CASE recv = <<>> /\ \E n \in 1..Len(stream) : recv' = SubSeq(stream, 1, n) /\ stream' = SubSeq(stream, n + 1, Len(stream))
  <2> DEFINE m == Len(stream)
  <2>1. PICK n \in 1..m : recv' = SubSeq(stream, 1, n) /\ stream' = SubSeq(stream, n + 1, m)
    BY <1>9
  <2>2. n \in Nat /\ n <= m /\ m \in Nat
    BY <1>6
  <2>3. recv' \in Seq(Nat) /\ Len(recv') = n /\ \A j \in 1..n : recv'[j] = stream[j]
    BY <1>6, <2>1, <2>2
  <2>4. stream' \in Seq(Nat) /\ Len(stream') = m - n /\ \A j \in 1..(m - n) : stream'[j] = stream[n + j]
    BY <1>6, <2>1, <2>2
  <2> HIDE DEF m
  <2>5. ASSUME NEW t \in Seq(Nat), NEW pos \in Nat, Unread(t, pos) PROVE Unread(t, pos)'
    <3>1. Len(recv) = 0
      BY <1>9
    <3>2. /\ pos + 0 + m <= Len(t) /\ (~eof => pos + 0 + m = Len(t))
          /\ \A j \in 1..m : stream[j] = t[pos + 0 + j]
      BY <2>5, <3>1 DEF Unread, m
    <3>3. pos + n + (m - n) = pos + 0 + m
      BY <2>2
    <3>4. ASSUME NEW j \in 1..n PROVE recv'[j] = t[pos + j]
      <4>1. j \in 1..m /\ pos + 0 + j = pos + j
        BY <2>2
      <4>2. QED BY <2>3, <3>2, <4>1
    <3>5. ASSUME NEW j \in 1..(m - n) PROVE stream'[j] = t[pos + n + j]
      <4>1. n + j \in 1..m /\ pos + 0 + (n + j) = pos + n + j
        BY <2>2
      <4>2. QED BY <2>4, <3>2, <4>1
    <3>6. QED BY <1>5, <2>3, <2>4, <3>2, <3>3, <3>4, <3>5 DEF Unread
  <2>6. UNCHANGED <<parserVars, got, peerVars>>
    BY <1>2, <1>3, <1>4 DEF parserVars
  <2>7. Parsing' /\ Delivered'
    BY <1>1, <2>5, <2>6, ParserStays
  <2>8. TypeOK'
    BY <1>1, <1>2, <1>3, <1>5, <2>3, <2>4 DEF TypeOK
  <2>9. QED BY <1>2, <1>3, <2>7, <2>8 DEF IInv
<1>10. QED BY <1>7, <1>8, <1>9

\* What an iteration that consumes a byte finds.
LEMMA ConsumeFacts ==
  ASSUME IInv, NEW st, Consume(st)
  PROVE  /\ TypeOK /\ Delivered /\ rc # "SYSERR" /\ ~deferred_end_callback /\ fragment \in BOOLEAN
         /\ state = st /\ recv # <<>> /\ recv' = Tail(recv)
         /\ deferred_end_callback' = deferred_end_callback /\ stream' = stream
         /\ eof' = eof /\ peer_seq' = peer_seq /\ broken' = broken /\ sent' = sent
         /\ UNCHANGED peerVars
<1>1. pc = "exec" /\ TypeOK /\ Delivered
  BY DEF Consume, IInv
<1>2. rc # "SYSERR" /\ ~deferred_end_callback
  BY <1>1 DEF IInv
<1>3. QED BY <1>1, <1>2 DEF Consume, peerVars, TypeOK

\* Where it finds it.
LEMMA ConsumeReads ==
  ASSUME IInv, NEW st, Consume(st)
  PROVE  \E t \in Seq(Nat), at \in [Nat -> Nat], num \in [Nat -> Numbers], pos \in Nat,
            p \in Seq(Nat), s \in Numbers, i \in Nat, a \in Nat, n0 \in Numbers :
           /\ i \in 1..NumFragments(p) /\ Reading(t, at, num, pos, p, s, i, a, n0)
           /\ Framed(t, a, p, s) /\ Unread(t, pos + 1)' /\ Head(recv) = t[pos + 1]
           /\ recv' \in Seq(Nat)
           /\ In(state, fragment, bytes_remaining, sequence_number, packet, p, i, a, n0, pos)
<1>1. /\ TypeOK /\ rc # "SYSERR" /\ recv # <<>> /\ recv' = Tail(recv) /\ UNCHANGED <<stream, eof>>
  BY ConsumeFacts
<1>2. PICK t \in Seq(Nat), at \in [Nat -> Nat], num \in [Nat -> Numbers], pos \in Nat,
            p \in Seq(Nat), s \in Numbers, i \in Nat, a \in Nat, n0 \in Numbers :
           i \in 1..NumFragments(p) /\ Reading(t, at, num, pos, p, s, i, a, n0)
  BY <1>1, InAPacket
<1>3. Unread(t, pos) /\ Framed(t, a, p, s)
  BY <1>2 DEF Reading, Current
<1>4. Unread(t, pos + 1)' /\ recv' \in Seq(Nat) /\ Head(recv) = t[pos + 1]
  BY <1>1, <1>3, OneByte
<1>5. In(state, fragment, bytes_remaining, sequence_number, packet, p, i, a, n0, pos)
  BY <1>2 DEF Reading, Inside
<1>6. QED BY <1>2, <1>3, <1>4, <1>5

\* The first length byte.
LEMMA Len0Step ==
  ASSUME IInv, Len0
  PROVE  IInv'
<1>1. /\ TypeOK /\ Delivered /\ rc # "SYSERR" /\ ~deferred_end_callback /\ fragment \in BOOLEAN
      /\ state = "S_LEN_0" /\ recv # <<>> /\ recv' = Tail(recv)
      /\ deferred_end_callback' = deferred_end_callback /\ stream' = stream
      /\ eof' = eof /\ peer_seq' = peer_seq /\ broken' = broken /\ sent' = sent
      /\ UNCHANGED peerVars
  BY ConsumeFacts DEF Len0
<1>2. PICK t \in Seq(Nat), at \in [Nat -> Nat], num \in [Nat -> Numbers], pos \in Nat,
            p \in Seq(Nat), s \in Numbers, i \in Nat, a \in Nat, n0 \in Numbers :
           /\ i \in 1..NumFragments(p) /\ Reading(t, at, num, pos, p, s, i, a, n0)
           /\ Framed(t, a, p, s) /\ Unread(t, pos + 1)' /\ Head(recv) = t[pos + 1]
           /\ recv' \in Seq(Nat)
           /\ In(state, fragment, bytes_remaining, sequence_number, packet, p, i, a, n0, pos)
  BY ConsumeReads DEF Len0
<1>3. /\ bytes_remaining' = t[pos + 1] /\ state' = "S_LEN_1"
      /\ fragment' = fragment /\ sequence_number' = sequence_number /\ packet' = packet
      /\ pc' = pc /\ rc' = rc /\ got' = got
  BY <1>2 DEF Len0
<1>4. In("S_LEN_0", fragment, bytes_remaining, sequence_number, packet, p, i, a, n0, pos)
  BY <1>1, <1>2
<1>5. In("S_LEN_1", fragment, t[pos + 1], sequence_number, packet, p, i, a, n0, pos + 1) /\ t[pos + 1] \in 0..MaxLen
  <2>1. i \in 1..NumFragments(p) /\ Framed(t, a, p, s) /\ fragment \in BOOLEAN
    BY <1>1, <1>2
  <2>2. QED BY <1>4, <2>1, ReadsLen0
<1>6. In(state', fragment', bytes_remaining', sequence_number', packet', p, i, a, n0, pos + 1)
  BY <1>3, <1>5
<1>7. Inside(p, i, a, n0, pos + 1)'
  <2>1. Len(got) = Len(sent) => i = 1
    BY <1>2 DEF Reading, Inside
  <2>2. state' # "S_PAYLOAD"
    BY <1>3
  <2>3. QED BY <1>1, <1>3, <1>6, <2>1, <2>2 DEF Inside
<1>8. Parsing'
  <2>1. UNCHANGED <<peerVars, got>> /\ pos + 1 \in Nat
    BY <1>1, <1>3
  <2>2. QED BY <1>1, <1>2, <1>7, <2>1, Moves
<1>9. Delivered'
  BY <1>1, <1>3 DEF Delivered
<1>10. TypeOK'
  BY <1>1, <1>2, <1>3, <1>5 DEF TypeOK, States
<1>11. QED BY <1>1, <1>3, <1>8, <1>9, <1>10 DEF IInv

\* The second.
LEMMA Len1Step ==
  ASSUME IInv, Len1
  PROVE  IInv'
<1>1. /\ TypeOK /\ Delivered /\ rc # "SYSERR" /\ ~deferred_end_callback /\ fragment \in BOOLEAN
      /\ state = "S_LEN_1" /\ recv # <<>> /\ recv' = Tail(recv)
      /\ deferred_end_callback' = deferred_end_callback /\ stream' = stream
      /\ eof' = eof /\ peer_seq' = peer_seq /\ broken' = broken /\ sent' = sent
      /\ UNCHANGED peerVars
  BY ConsumeFacts DEF Len1
<1>2. PICK t \in Seq(Nat), at \in [Nat -> Nat], num \in [Nat -> Numbers], pos \in Nat,
            p \in Seq(Nat), s \in Numbers, i \in Nat, a \in Nat, n0 \in Numbers :
           /\ i \in 1..NumFragments(p) /\ Reading(t, at, num, pos, p, s, i, a, n0)
           /\ Framed(t, a, p, s) /\ Unread(t, pos + 1)' /\ Head(recv) = t[pos + 1]
           /\ recv' \in Seq(Nat)
           /\ In(state, fragment, bytes_remaining, sequence_number, packet, p, i, a, n0, pos)
  BY ConsumeReads DEF Len1
<1>3. /\ bytes_remaining' = bytes_remaining + Radix * t[pos + 1] /\ state' = "S_LEN_2"
      /\ fragment' = fragment /\ sequence_number' = sequence_number /\ packet' = packet
      /\ pc' = pc /\ rc' = rc /\ got' = got
  BY <1>2 DEF Len1
<1>4. In("S_LEN_1", fragment, bytes_remaining, sequence_number, packet, p, i, a, n0, pos)
  BY <1>1, <1>2
<1>5. In("S_LEN_2", fragment, bytes_remaining', sequence_number, packet, p, i, a, n0, pos + 1) /\ bytes_remaining' \in 0..MaxLen
  <2>0. PICK x : x = t[pos + 1]
    OBVIOUS
  <2>1. Adds(bytes_remaining, bytes_remaining', x) /\ ByteAt(t, pos, x)
    BY <1>3, <2>0 DEF Adds, ByteAt
  <2>2. i \in 1..NumFragments(p) /\ Framed(t, a, p, s) /\ fragment \in BOOLEAN
    BY <1>1, <1>2
  <2>3. In("S_LEN_2", fragment, bytes_remaining', sequence_number, packet, p, i, a, n0, pos + 1)
    BY <1>4, <2>1, <2>2, ReadsLen1
  <2>4. bytes_remaining' \in 0..MaxLen
    BY <2>2, <2>3, InBounds
  <2>5. QED BY <2>3, <2>4
<1>6. In(state', fragment', bytes_remaining', sequence_number', packet', p, i, a, n0, pos + 1)
  BY <1>3, <1>5
<1>7. Inside(p, i, a, n0, pos + 1)'
  <2>1. Len(got) = Len(sent) => i = 1
    BY <1>2 DEF Reading, Inside
  <2>2. state' # "S_PAYLOAD"
    BY <1>3
  <2>3. QED BY <1>1, <1>3, <1>6, <2>1, <2>2 DEF Inside
<1>8. Parsing'
  <2>1. UNCHANGED <<peerVars, got>> /\ pos + 1 \in Nat
    BY <1>1, <1>3
  <2>2. QED BY <1>1, <1>2, <1>7, <2>1, Moves
<1>9. Delivered'
  BY <1>1, <1>3 DEF Delivered
<1>10. TypeOK'
  BY <1>1, <1>2, <1>3, <1>5 DEF TypeOK, States
<1>11. QED BY <1>1, <1>3, <1>8, <1>9, <1>10 DEF IInv

\* The third: the length is known, and the buffer emptied if a packet begins.
LEMMA Len2Step ==
  ASSUME IInv, Len2
  PROVE  IInv'
<1>1. /\ TypeOK /\ Delivered /\ rc # "SYSERR" /\ ~deferred_end_callback /\ fragment \in BOOLEAN
      /\ state = "S_LEN_2" /\ recv # <<>> /\ recv' = Tail(recv)
      /\ deferred_end_callback' = deferred_end_callback /\ stream' = stream
      /\ eof' = eof /\ peer_seq' = peer_seq /\ broken' = broken /\ sent' = sent
      /\ UNCHANGED peerVars
  BY ConsumeFacts DEF Len2
<1>2. PICK t \in Seq(Nat), at \in [Nat -> Nat], num \in [Nat -> Numbers], pos \in Nat,
            p \in Seq(Nat), s \in Numbers, i \in Nat, a \in Nat, n0 \in Numbers :
           /\ i \in 1..NumFragments(p) /\ Reading(t, at, num, pos, p, s, i, a, n0)
           /\ Framed(t, a, p, s) /\ Unread(t, pos + 1)' /\ Head(recv) = t[pos + 1]
           /\ recv' \in Seq(Nat)
           /\ In(state, fragment, bytes_remaining, sequence_number, packet, p, i, a, n0, pos)
  BY ConsumeReads DEF Len2
<1>3. /\ bytes_remaining' = bytes_remaining + Radix * Radix * t[pos + 1] /\ state' = "S_SEQ"
      /\ fragment' = (bytes_remaining' = MaxLen) /\ sequence_number' = sequence_number
      /\ packet' = IF fragment THEN packet ELSE <<>>
      /\ pc' = pc /\ rc' = rc /\ got' = got
  BY <1>2 DEF Len2
<1>4. In("S_LEN_2", fragment, bytes_remaining, sequence_number, packet, p, i, a, n0, pos)
  BY <1>1, <1>2
<1>a. (fragment => packet' = packet) /\ (~fragment => packet' = <<>>)
  BY <1>3
<1>b. fragment' \in BOOLEAN /\ (fragment' <=> bytes_remaining' = MaxLen)
  BY <1>3
<1>c. packet' \in Seq(Nat)
  <2>1. packet \in Seq(Nat) /\ <<>> \in Seq(Nat)
    BY <1>1 DEF TypeOK
  <2>2. QED BY <1>1, <1>a, <2>1
<1>5. In("S_SEQ", fragment', bytes_remaining', sequence_number, packet', p, i, a, n0, pos + 1) /\ bytes_remaining' \in 0..MaxLen
  <2>1. bytes_remaining' = bytes_remaining + Radix * Radix * t[pos + 1]
    BY <1>3
  <2>0. PICK x : x = t[pos + 1]
    OBVIOUS
  <2>2. Begins(fragment, fragment', bytes_remaining, bytes_remaining', packet, packet', x) /\ ByteAt(t, pos, x)
    BY <1>a, <1>b, <2>0, <2>1 DEF Begins, ByteAt
  <2>3. i \in 1..NumFragments(p) /\ Framed(t, a, p, s) /\ fragment \in BOOLEAN
    BY <1>1, <1>2
  <2>4. fragment' \in BOOLEAN
    BY <1>b
  <2>5. In("S_SEQ", fragment', bytes_remaining', sequence_number, packet', p, i, a, n0, pos + 1)
    BY <1>4, <2>2, <2>3, <2>4, ReadsLastLength
  <2>6. bytes_remaining' \in 0..MaxLen
    BY <2>3, <2>5, InBounds
  <2>7. QED BY <2>5, <2>6
<1>6. In(state', fragment', bytes_remaining', sequence_number', packet', p, i, a, n0, pos + 1)
  BY <1>3, <1>5
<1>7. Inside(p, i, a, n0, pos + 1)'
  <2>1. Len(got) = Len(sent) => i = 1
    BY <1>2 DEF Reading, Inside
  <2>2. state' # "S_PAYLOAD"
    BY <1>3
  <2>3. QED BY <1>1, <1>3, <1>6, <2>1, <2>2 DEF Inside
<1>8. Parsing'
  <2>1. UNCHANGED <<peerVars, got>> /\ pos + 1 \in Nat
    BY <1>1, <1>3
  <2>2. QED BY <1>1, <1>2, <1>7, <2>1, Moves
<1>9. Delivered'
  BY <1>1, <1>3 DEF Delivered
<1>10. TypeOK'
  BY <1>1, <1>2, <1>3, <1>5, <1>b, <1>c DEF TypeOK, States
<1>11. QED BY <1>1, <1>3, <1>8, <1>9, <1>10 DEF IInv

\* p is the next packet to be delivered, and ends where the one behind it starts.
IsNext(at, num, p, a, n0) ==
  /\ p = sent[Len(got) + 1]
  /\ at[Len(got) + 2] = a + PacketSize(p)
  /\ num[Len(got) + 2] = Number(n0, NumFragments(p) + 1)

\* The packet at hand, if its number is right, is the next to be delivered.
LEMMA RightPacket ==
  ASSUME TypeOK, Delivered, Len(got) < Len(sent),
         NEW t \in Seq(Nat), NEW at \in [Nat -> Nat], NEW num \in [Nat -> Numbers], NEW pos,
         NEW p \in Seq(Nat), NEW s \in Numbers, NEW i, NEW a, NEW n0,
         Reading(t, at, num, pos, p, s, i, a, n0)
  PROVE  IsNext(at, num, p, a, n0)
<1> DEFINE k == Len(got) + 1
           n == Len(sent)
<1>1. k \in 1..n /\ k + 1 = Len(got) + 2 /\ k # n + 1
  <2>1. Len(got) \in Nat /\ n \in Nat
    BY Lengths
  <2>2. PICK g : g = Len(got)
    OBVIOUS
  <2>3. g \in Nat /\ n \in Nat /\ g < n
    BY <2>1, <2>2
  <2> HIDE DEF n
  <2>4. g + 1 \in 1..n /\ (g + 1) + 1 = g + 2 /\ g + 1 # n + 1
    BY <2>3
  <2>5. QED BY <2>2, <2>4
<1>2. p = sent[k]
  BY <1>1 DEF Reading, Current
<1>3. Lies(t, at, num, k, sent[k])
  BY <1>1 DEF Reading, Written, Laid
<1>4. a = at[k] /\ n0 = num[k]
  BY DEF Reading
<1>5. at[k + 1] = a + PacketSize(p) /\ num[k + 1] = Number(n0, NumFragments(p) + 1)
  BY <1>2, <1>3, <1>4 DEF Lies
<1>6. QED BY <1>1, <1>2, <1>5 DEF IsNext

\* end_of_payload: the parser goes on in the same packet, or has delivered it.
LEMMA FragmentDone ==
  ASSUME TypeOK, Delivered, Len(got) < Len(sent),
         NEW t \in Seq(Nat), NEW at \in [Nat -> Nat], NEW num \in [Nat -> Numbers], NEW pos \in Nat,
         NEW p \in Seq(Nat), NEW s \in Numbers, NEW i \in 1..NumFragments(p), NEW a \in Nat, NEW n0 \in Numbers,
         Reading(t, at, num, pos, p, s, i, a, n0), UNCHANGED <<peerVars, fragment>>,
         EndOfPayload, packet' \in Seq(Nat),
         NEW q \in Nat, Unread(t, q)', AtEnd(fragment, sequence_number', packet', p, i, a, n0, q)
  PROVE  /\ Parsing' /\ Delivered' /\ got' \in Seq(Seq(Nat))
         /\ state' = "S_LEN_0" /\ (rc' = rc \/ rc' = "OK") /\ (pc' = pc \/ pc' = "idle")
<1>1. sent' = sent /\ peer_seq' = peer_seq /\ broken' = broken /\ fragment' = fragment /\ fragment \in BOOLEAN
  BY DEF peerVars, TypeOK
<1>2. state' = "S_LEN_0"
  BY DEF EndOfPayload
<1> DEFINE k == Len(got) + 1
           N == NumFragments(p)
<1>3. /\ fragment => GoesOn(fragment, sequence_number', packet', p, i, a, n0, q)
      /\ ~fragment => IsComplete(sequence_number', packet', p, a, n0, q)
  BY <1>1, ReadsEnd
<1>4. CASE fragment
  <2>1. pc' = pc /\ rc' = rc /\ got' = got
    BY <1>4 DEF EndOfPayload
  <2>2. PICK j : j = i + 1
    OBVIOUS
  <2>3. j \in 1..N /\ In(state', fragment', bytes_remaining', sequence_number', packet', p, j, a, n0, q)
    BY <1>1, <1>2, <1>3, <1>4, <2>2 DEF GoesOn
  <2>4. state' # "S_PAYLOAD" /\ Len(got') # Len(sent')
    <3>1. Len(got) \in Nat /\ Len(sent) \in Nat
      BY Lengths
    <3>2. QED BY <1>1, <1>2, <2>1, <3>1
  <2>5. Inside(p, j, a, n0, q)'
    BY <2>3, <2>4 DEF Inside
  <2>6. Parsing'
    <3>1. UNCHANGED <<peerVars, got>>
      BY <2>1
    <3>2. QED BY <2>3, <2>5, <3>1, Moves
  <2>7. Delivered'
    BY <1>1, <2>1 DEF Delivered
  <2>8. QED BY <1>2, <2>1, <2>6, <2>7 DEF TypeOK
<1>5. CASE ~fragment
  <2>1. pc' = "idle" /\ rc' = "OK" /\ got' = Append(got, packet')
    BY <1>5 DEF EndOfPayload, PacketEnd, Return
  <2>2. packet' = p /\ q = a + PacketSize(p) /\ sequence_number' = Number(n0, N + 1)
    BY <1>3, <1>5 DEF IsComplete
  <2>3. p = sent[k] /\ at[Len(got) + 2] = a + PacketSize(p) /\ num[Len(got) + 2] = Number(n0, N + 1)
    <3>1. IsNext(at, num, p, a, n0)
      BY RightPacket
    <3>2. QED BY <3>1 DEF IsNext
  <2>4. got \in Seq(Seq(Nat)) /\ Len(got) \in Nat /\ Len(sent) \in Nat
    BY Lengths
  <2>5. got' \in Seq(Seq(Nat)) /\ Len(got') = k /\ got'[k] = p /\ \A j \in 1..Len(got) : got'[j] = got[j]
    BY <2>1, <2>2, <2>4
  <2>6. Len(got') + 1 = Len(got) + 2
    BY <2>4, <2>5
  <2>7. Boundary(at, num, q)'
    BY <1>1, <1>2, <1>5, <2>2, <2>3, <2>6 DEF Boundary
  <2>8. Written(t, at, num)'
    BY <1>1 DEF Reading, Written
  <2>9. Parsing'
    BY <2>7, <2>8 DEF Parsing, Where
  <2>10. Delivered'
    <3>1. Len(got') <= Len(sent')
      BY <1>1, <2>4, <2>5
    <3>2. ASSUME NEW j \in 1..k PROVE got'[j] = sent[j]
      <4>1. j = k \/ j \in 1..Len(got)
        <5>1. PICK g : g = Len(got)
          OBVIOUS
        <5>2. j \in 1..(g + 1) /\ g \in Nat
          BY <2>4, <5>1
        <5>3. j = g + 1 \/ j \in 1..g
          BY <5>2
        <5>4. QED BY <5>1, <5>3
      <4>2. \A h \in 1..Len(got) : got[h] = sent[h]
        BY DEF Delivered
      <4>3. CASE j = k
        BY <4>3, <2>3, <2>5
      <4>4. CASE j \in 1..Len(got)
        BY <4>4, <4>2, <2>5
      <4>5. QED BY <4>1, <4>3, <4>4
    <3>3. QED BY <1>1, <2>5, <3>1, <3>2 DEF Delivered
  <2>11. QED BY <1>2, <2>1, <2>5, <2>9, <2>10
<1>6. QED BY <1>1, <1>4, <1>5

\* The number is the expected one.
LEMMA SeqByteStep ==
  ASSUME IInv, SeqByte
  PROVE  IInv'
<1>1. /\ TypeOK /\ Delivered /\ rc # "SYSERR" /\ ~deferred_end_callback /\ fragment \in BOOLEAN
      /\ state = "S_SEQ" /\ recv # <<>> /\ recv' = Tail(recv)
      /\ deferred_end_callback' = deferred_end_callback /\ stream' = stream
      /\ eof' = eof /\ peer_seq' = peer_seq /\ broken' = broken /\ sent' = sent
      /\ UNCHANGED peerVars
  BY ConsumeFacts DEF SeqByte
<1>2. PICK t \in Seq(Nat), at \in [Nat -> Nat], num \in [Nat -> Numbers], pos \in Nat,
            p \in Seq(Nat), s \in Numbers, i \in Nat, a \in Nat, n0 \in Numbers :
           /\ i \in 1..NumFragments(p) /\ Reading(t, at, num, pos, p, s, i, a, n0)
           /\ Framed(t, a, p, s) /\ Unread(t, pos + 1)' /\ Head(recv) = t[pos + 1]
           /\ recv' \in Seq(Nat)
           /\ In(state, fragment, bytes_remaining, sequence_number, packet, p, i, a, n0, pos)
  BY ConsumeReads DEF SeqByte
<1>3. /\ Head(recv) = sequence_number /\ sequence_number' = NextSeq(sequence_number)
      /\ packet' = packet /\ fragment' = fragment /\ bytes_remaining' = bytes_remaining
  BY DEF SeqByte
<1>4. In("S_SEQ", fragment, bytes_remaining, sequence_number, packet, p, i, a, n0, pos)
  BY <1>1, <1>2
<1>a. i \in 1..NumFragments(p) /\ fragment \in BOOLEAN
  BY <1>1, <1>2
<1>b. sequence_number = Number(n0, i)
  BY SMTT(30), <1>a, <1>4, ReadsNumber
<1>c. pos = a + FragStart(i) + 3
  BY SMTT(30), <1>a, <1>4, ReadsNumber
<1>5. sequence_number = Number(n0, i) /\ pos = a + FragStart(i) + 3
  BY <1>b, <1>c
<1>6. t[pos + 1] = Number(s, i)
  <2>1. t[a + FragStart(i) + 4] = Number(s, i)
    BY <1>2 DEF Framed
  <2>2. FragStart(i) \in Nat
    BY <1>2, SizeFacts
  <2>3. pos + 1 = a + FragStart(i) + 4
    <3> DEFINE f == FragStart(i)
    <3>1. pos = a + f + 3 /\ f \in Nat
      BY <1>5, <2>2
    <3> HIDE DEF f
    <3>2. pos + 1 = a + f + 4
      BY <3>1
    <3>3. QED BY <3>2 DEF f
  <2>4. QED BY <2>1, <2>3
<1>7. Number(s, i) = Number(n0, i)
  BY <1>2, <1>3, <1>5, <1>6
<1>8. Len(got) < Len(sent)
  <2>1. Len(got) \in Nat /\ Len(sent) \in Nat /\ Len(got) + 1 \in 1..(Len(sent) + 1)
    BY <1>1, Lengths
  <2>2. ASSUME Len(got) = Len(sent) PROVE FALSE
    <3>1. i = 1
      BY <1>2, <2>2 DEF Reading, Inside
    <3>2. Number(s, 1) = s /\ Number(n0, 1) = n0 /\ NextSeq(n0) # n0
      <4>1. 1 \in Nat \ {0}
        OBVIOUS
      <4>2. QED BY <4>1, NumberFacts DEF Numbers
    <3>3. s = n0
      BY <1>7, <3>1, <3>2
    <3>4. s = NextSeq(n0)
      <4>1. ~(Len(got) + 1 <= Len(sent))
        BY <2>1, <2>2
      <4>2. QED BY <1>2, <4>1 DEF Reading, Current
    <3>5. QED BY <3>2, <3>3, <3>4
  <2>3. QED BY <2>1, <2>2
<1>9. sequence_number' \in Numbers /\ packet' \in Seq(Nat)
  <2>1. sequence_number \in Numbers
    BY <1>1 DEF TypeOK, Numbers
  <2>2. NextSeq(sequence_number) \in Numbers
    BY <2>1, NumberFacts DEF Numbers
  <2>3. QED BY <1>1, <1>3, <2>2 DEF TypeOK
<1>10. CASE bytes_remaining = 0
  <2>1. EndOfPayload
    BY <1>10 DEF SeqByte
  <2>2. AtEnd(fragment, NextSeq(sequence_number), packet, p, i, a, n0, pos + 1)
    BY SMTT(30), <1>a, <1>4, <1>10, ReadsNumber
  <2>3. PICK q \in Nat : q = pos + 1
    OBVIOUS
  <2>4. AtEnd(fragment, sequence_number', packet', p, i, a, n0, q) /\ Unread(t, q)'
    BY <1>2, <1>3, <2>2, <2>3
  <2>5. UNCHANGED <<peerVars, fragment>>
    BY <1>1, <1>3
  <2>6. /\ Parsing' /\ Delivered' /\ got' \in Seq(Seq(Nat))
        /\ state' = "S_LEN_0" /\ (rc' = rc \/ rc' = "OK") /\ (pc' = pc \/ pc' = "idle")
    BY <1>1, <1>2, <1>8, <1>9, <2>1, <2>4, <2>5, FragmentDone
  <2>7. TypeOK'
    BY <1>1, <1>2, <1>3, <1>9, <2>6 DEF TypeOK, States, Numbers
  <2>8. QED BY <1>1, <2>6, <2>7 DEF IInv
<1>11. CASE bytes_remaining # 0
  <2>1. state' = "S_PAYLOAD" /\ pc' = pc /\ rc' = rc /\ got' = got
    BY <1>11 DEF SeqByte
  <2>2. In("S_PAYLOAD", fragment, bytes_remaining, NextSeq(sequence_number), packet, p, i, a, n0, pos + 1)
    BY SMTT(30), <1>a, <1>4, <1>11, ReadsNumber
  <2>3. In(state', fragment', bytes_remaining', sequence_number', packet', p, i, a, n0, pos + 1)
    BY <1>3, <2>1, <2>2
  <2>4. Inside(p, i, a, n0, pos + 1)'
    <3>1. (Len(got) < Len(sent))' /\ ~(Len(got) = Len(sent))'
      <4>1. Len(got) \in Nat /\ Len(sent) \in Nat
        BY <1>1, Lengths
      <4>2. QED BY <1>1, <1>8, <2>1, <4>1
    <3>2. QED BY <2>3, <3>1 DEF Inside
  <2>5. Parsing'
    <3>1. UNCHANGED <<peerVars, got>> /\ pos + 1 \in Nat
      BY <1>1, <2>1
    <3>2. QED BY <1>1, <1>2, <2>4, <3>1, Moves
  <2>6. Delivered'
    BY <1>1, <2>1 DEF Delivered
  <2>7. TypeOK'
    BY <1>1, <1>2, <1>3, <1>9, <2>1 DEF TypeOK, States, Numbers
  <2>8. QED BY <1>1, <2>1, <2>5, <2>6, <2>7 DEF IInv
<1>12. QED BY <1>10, <1>11

\* The first n bytes of a chunk.
LEMMA Prefix ==
  ASSUME NEW b \in Seq(Nat), NEW n \in Nat, n <= Len(b)
  PROVE  SubSeq(b, 1, n) \in Seq(Nat) /\ Len(SubSeq(b, 1, n)) = n
  OBVIOUS

\* A chunk of payload. When memory runs out the bytes are lost, and read_packet
\* says so.
LEMMA PayloadStep ==
  ASSUME IInv, Payload
  PROVE  IInv'
<1>1. pc = "exec" /\ state = "S_PAYLOAD" /\ recv # <<>> /\ TypeOK /\ Delivered
  BY DEF Payload, IInv
<1>2. rc # "SYSERR" /\ ~deferred_end_callback /\ fragment \in BOOLEAN
  BY <1>1 DEF IInv, TypeOK
<1>3. recv \in Seq(Nat) /\ Len(recv) \in Nat /\ bytes_remaining \in 0..MaxLen /\ bytes_remaining \in Nat /\ packet \in Seq(Nat)
  BY <1>1, MaxLenType DEF TypeOK
<1>4. PICK n : n = IF Len(recv) > bytes_remaining THEN bytes_remaining ELSE Len(recv)
  OBVIOUS
<1>5. n \in 0..Len(recv) /\ n \in Nat /\ n <= bytes_remaining
  <2> DEFINE l == Len(recv)
  <2>1. l \in Nat /\ bytes_remaining \in Nat /\ n = IF l > bytes_remaining THEN bytes_remaining ELSE l
    BY <1>3, <1>4
  <2> HIDE DEF l
  <2>2. n \in 0..l /\ n \in Nat /\ n <= bytes_remaining
    BY <2>1
  <2>3. QED BY <2>2 DEF l
<1>6. /\ recv' = SubSeq(recv, n + 1, Len(recv)) /\ bytes_remaining' = bytes_remaining - n
      /\ UNCHANGED <<fragment, sequence_number, stream, peerVars>>
  BY <1>4 DEF Payload
<1>7. \/ /\ packet' = packet \o SubSeq(recv, 1, n)
         /\ IF bytes_remaining' = 0 THEN EndOfPayload ELSE UNCHANGED <<state, pc, rc, got>>
         /\ UNCHANGED deferred_end_callback
      \/ /\ "nomem" \in Faults
         /\ deferred_end_callback' \in BOOLEAN
         /\ pc' = "idle" /\ rc' = "SYSERR"
         /\ UNCHANGED <<state, packet, got>>
  BY <1>4 DEF Payload, Return
<1>8. /\ fragment' = fragment /\ sequence_number' = sequence_number /\ stream' = stream
      /\ eof' = eof /\ peer_seq' = peer_seq /\ broken' = broken /\ sent' = sent
  BY <1>6 DEF peerVars
<1>9. PICK t \in Seq(Nat), at \in [Nat -> Nat], num \in [Nat -> Numbers], pos \in Nat,
            p \in Seq(Nat), s \in Numbers, i \in Nat, a \in Nat, n0 \in Numbers :
           i \in 1..NumFragments(p) /\ Reading(t, at, num, pos, p, s, i, a, n0)
  BY <1>1, <1>2, InAPacket
<1>10. Unread(t, pos) /\ Framed(t, a, p, s)
  BY <1>9 DEF Reading, Current
<1>11. In("S_PAYLOAD", fragment, bytes_remaining, sequence_number, packet, p, i, a, n0, pos) /\ Len(got) < Len(sent)
  BY <1>1, <1>9 DEF Reading, Inside
<1>12. PICK q : q = pos + n
  OBVIOUS
<1>13. q \in Nat /\ Unread(t, q)' /\ recv' \in Seq(Nat)
  <2>1. Unread(t, pos + n)' /\ recv' \in Seq(Nat)
    BY <1>1, <1>5, <1>6, <1>8, <1>10, UnreadAdvances
  <2>2. pos + n \in Nat
    BY <1>5
  <2>3. QED BY <1>12, <2>1, <2>2
<1>14. bytes_remaining' \in 0..MaxLen
  <2>1. PICK m : m = bytes_remaining
    OBVIOUS
  <2>2. m \in Nat /\ m <= MaxLen /\ MaxLen \in Nat /\ n <= m /\ n \in Nat
    BY <1>3, <1>5, <2>1, MaxLenType
  <2>3. m - n \in 0..MaxLen
    BY <2>2
  <2>4. QED BY <1>6, <2>1, <2>3
<1>15. CASE /\ "nomem" \in Faults
            /\ deferred_end_callback' \in BOOLEAN
            /\ pc' = "idle" /\ rc' = "SYSERR"
            /\ UNCHANGED <<state, packet, got>>
  <2>1. TypeOK'
    BY <1>1, <1>8, <1>13, <1>14, <1>15 DEF TypeOK, Errors
  <2>2. Delivered'
    BY <1>1, <1>8, <1>15 DEF Delivered
  <2>3. QED BY <1>15, <2>1, <2>2 DEF IInv
<1>16. CASE /\ packet' = packet \o SubSeq(recv, 1, n)
            /\ IF bytes_remaining' = 0 THEN EndOfPayload ELSE UNCHANGED <<state, pc, rc, got>>
            /\ UNCHANGED deferred_end_callback
  <2>1. PICK c : c = SubSeq(recv, 1, n)
    OBVIOUS
  <2>a. c \in Seq(Nat) /\ Len(c) = n
    <3>1. recv \in Seq(Nat) /\ Len(recv) \in Nat
      BY <1>3
    <3>2. n \in Nat /\ n <= Len(recv)
      BY <1>5, <3>1
    <3>3. SubSeq(recv, 1, n) \in Seq(Nat) /\ Len(SubSeq(recv, 1, n)) = n
      BY <3>1, <3>2, Prefix
    <3>4. QED BY <2>1, <3>3
  <2>b. \A j \in 1..n : j \in 1..Len(recv)
    BY <1>3, <1>5
  <2>c. \A j \in 1..n : c[j] = recv[j]
    BY <1>3, <1>5, <2>1, <2>b
  <2>2. c \in Seq(Nat) /\ Len(c) = n /\ \A j \in 1..n : j \in 1..Len(recv) /\ c[j] = recv[j]
    BY <2>a, <2>b, <2>c
  <2>3. Brings(c, t, pos)
    BY <1>10, <2>2 DEF Brings, Unread
  <2>4. packet' \in Seq(Nat) /\ Joined(packet', packet, c, Len(packet))
    BY <1>3, <1>16, <2>1, <2>2, Concat
  <2>5. Takes(c, bytes_remaining, bytes_remaining', pos, q)
    BY <1>5, <1>6, <1>12, <2>2 DEF Takes
  <2>6. i \in 1..NumFragments(p) /\ fragment \in BOOLEAN
    BY <1>2, <1>9
  <2>7. bytes_remaining' # 0 => In("S_PAYLOAD", fragment, bytes_remaining', sequence_number, packet', p, i, a, n0, q)
    BY <1>10, <1>11, <2>2, <2>3, <2>4, <2>5, <2>6, ReadsPayload
  <2>8. bytes_remaining' = 0 => AtEnd(fragment, sequence_number, packet', p, i, a, n0, q)
    BY <1>10, <1>11, <2>2, <2>3, <2>4, <2>5, <2>6, ReadsPayload
  <2>9. ~deferred_end_callback' /\ deferred_end_callback' \in BOOLEAN
    BY <1>1, <1>2, <1>16 DEF TypeOK
  <2>10. CASE bytes_remaining' = 0
    <3>1. EndOfPayload
      BY <1>16, <2>10
    <3>2. AtEnd(fragment, sequence_number', packet', p, i, a, n0, q)
      BY <1>8, <2>8, <2>10
    <3>3. UNCHANGED <<peerVars, fragment>>
      BY <1>6
    <3>4. /\ Parsing' /\ Delivered' /\ got' \in Seq(Seq(Nat))
          /\ state' = "S_LEN_0" /\ (rc' = rc \/ rc' = "OK") /\ (pc' = pc \/ pc' = "idle")
      BY <1>1, <1>9, <1>11, <1>13, <2>4, <2>6, <3>1, <3>2, <3>3, FragmentDone
    <3>5. TypeOK'
      BY <1>1, <1>8, <1>13, <1>14, <2>4, <2>9, <3>4 DEF TypeOK, States
    <3>6. QED BY <1>2, <2>9, <3>4, <3>5 DEF IInv
  <2>11. CASE bytes_remaining' # 0
    <3>1. state' = state /\ pc' = pc /\ rc' = rc /\ got' = got
      BY <1>16, <2>11
    <3>2. In(state', fragment', bytes_remaining', sequence_number', packet', p, i, a, n0, q)
      BY <1>1, <1>8, <2>7, <2>11, <3>1
    <3>3. Inside(p, i, a, n0, q)'
      <4>1. (Len(got) < Len(sent))' /\ ~(Len(got) = Len(sent))'
        <5>1. Len(got) \in Nat /\ Len(sent) \in Nat
          BY <1>1, Lengths
        <5>2. QED BY <1>8, <1>11, <3>1, <5>1
      <4>2. QED BY <3>2, <4>1 DEF Inside
    <3>4. Parsing'
      <4>1. UNCHANGED <<peerVars, got>>
        BY <1>6, <3>1
      <4>2. QED BY <1>1, <1>9, <1>13, <2>6, <3>3, <4>1, Moves
    <3>5. Delivered'
      BY <1>1, <1>8, <3>1 DEF Delivered
    <3>6. TypeOK'
      BY <1>1, <1>8, <1>13, <1>14, <2>4, <2>9, <3>1 DEF TypeOK
    <3>7. QED BY <1>2, <2>9, <3>1, <3>4, <3>5, <3>6 DEF IInv
  <2>12. QED BY <2>10, <2>11
<1>17. QED BY <1>7, <1>15, <1>16

-----------------------------------------------------------------------------
(* The theorems.                                                             *)

\* Nothing is written and nothing read when the connection is opened.
LEMMA InitInv ==
  ASSUME Init
  PROVE  IInv
<1>1. /\ state = "S_LEN_0" /\ fragment = FALSE /\ deferred_end_callback = FALSE
      /\ sequence_number \in Numbers /\ bytes_remaining = 0
      /\ packet = <<>> /\ recv = <<>> /\ pc = "idle" /\ rc = "AGAIN" /\ got = <<>>
      /\ stream = <<>> /\ eof = FALSE /\ peer_seq = sequence_number /\ broken = FALSE /\ sent = <<>>
  BY DEF Init, ClientInit, Numbers
<1>2. TypeOK
  <2>1. 0 \in 0..MaxLen
    BY MaxLenType
  <2>2. <<>> \in Seq(Nat) /\ <<>> \in Seq(Packets) /\ <<>> \in Seq(Seq(Nat))
    OBVIOUS
  <2>3. QED BY <1>1, <2>1, <2>2 DEF TypeOK, States, Numbers
<1>3. Delivered
  BY <1>1 DEF Delivered
<1>4. PICK t : t = <<>>
  OBVIOUS
<1>5. PICK at : at = [x \in Nat |-> 0]
  OBVIOUS
<1>6. PICK num : num = [x \in Nat |-> sequence_number]
  OBVIOUS
<1>7. t \in Seq(Nat) /\ Len(t) = 0 /\ at \in [Nat -> Nat] /\ num \in [Nat -> Numbers]
  BY <1>1, <1>4, <1>5, <1>6
<1>8. at[1] = 0 /\ num[1] = sequence_number
  BY <1>5, <1>6
<1>9. Len(sent) = 0 /\ Len(got) = 0 /\ Len(recv) = 0 /\ Len(stream) = 0
  BY <1>1
<1>10. Written(t, at, num)
  <2>1. Laid(t, at, num, sent, peer_seq)
    <3>1. at[1] = 0 /\ num[Len(sent) + 1] = peer_seq
      BY <1>1, <1>8, <1>9
    <3>2. \A k \in 1..Len(sent) : FALSE
      BY <1>9
    <3>3. QED BY <3>1, <3>2 DEF Laid
  <2>2. EndsRight(t, at, sent)
    BY <1>7, <1>8, <1>9 DEF EndsRight
  <2>3. QED BY <1>1, <2>1, <2>2 DEF Written
<1>11. Unread(t, 0)
  BY <1>7, <1>9 DEF Unread
<1>12. Where(t, at, num, 0)
  <2>1. 0 = at[Len(got) + 1] /\ sequence_number = num[Len(got) + 1]
    BY <1>8, <1>9
  <2>2. QED BY <1>1, <2>1 DEF Where, Boundary
<1>13. Parsing
  <2>1. 0 \in Nat
    OBVIOUS
  <2>2. QED BY <1>7, <1>10, <1>11, <1>12, <2>1 DEF Parsing
<1>14. QED BY <1>1, <1>2, <1>3, <1>13 DEF IInv

\* Nothing changes.
LEMMA StutterStep ==
  ASSUME IInv, UNCHANGED vars
  PROVE  IInv'
<1>1. /\ state' = state /\ fragment' = fragment /\ deferred_end_callback' = deferred_end_callback
      /\ sequence_number' = sequence_number /\ bytes_remaining' = bytes_remaining /\ packet' = packet
      /\ recv' = recv /\ pc' = pc /\ rc' = rc /\ got' = got /\ stream' = stream
      /\ eof' = eof /\ peer_seq' = peer_seq /\ broken' = broken /\ sent' = sent
  BY DEF vars, clientVars, parserVars, peerVars
<1>2. UNCHANGED <<parserVars, got, peerVars>>
  BY <1>1 DEF parserVars, peerVars
<1>3. ASSUME NEW t \in Seq(Nat), NEW pos \in Nat, Unread(t, pos) PROVE Unread(t, pos)'
  BY <1>1, <1>3 DEF Unread
<1>4. TypeOK /\ Delivered
  BY DEF IInv
<1>5. TypeOK'
  BY <1>1, <1>4 DEF TypeOK
<1>6. Delivered'
  BY <1>1, <1>4 DEF Delivered
<1>7. ASSUME rc # "SYSERR" PROVE Parsing'
  <2>1. Parsing
    BY <1>7 DEF IInv
  <2>2. QED BY <1>2, <1>3, <1>4, <2>1, ParserStays
<1>8. QED BY <1>1, <1>5, <1>6, <1>7 DEF IInv

\* The invariant: the parser is where the bytes it has consumed say it is, in the
\* stream the peer has written, with as much of the packet as has arrived.
THEOREM ParserInvariant ==
  ASSUME GivesUp
  PROVE  Spec => []IInv
<1>1. Init => IInv
  BY InitInv
<1>2. IInv /\ [Next]_vars => IInv'
  <2> SUFFICES ASSUME IInv, [Next]_vars PROVE IInv'
    OBVIOUS
  <2>0. rc = "SYSERR" => pc = "idle" /\ "nomem" \in Faults
    BY DEF IInv
  <2>1. CASE \E p \in Packets : PeerSend(p) \/ PeerSkips(p)
    BY <2>1, PeerSendStep, PeerSkipsStep
  <2>2. CASE \E n \in 0..Len(stream) : PeerCut(n)
    BY <2>2, PeerCutStep
  <2>3. CASE ReadPacket
    <3>1. rc # "SYSERR"
      BY <2>0, <2>3 DEF ReadPacket, GivesUp, Errors
    <3>2. QED BY <2>3, <3>1, ReadPacketStep
  <2>4. CASE ReadNothing
    <3>1. rc # "SYSERR"
      BY <2>0, <2>4 DEF ReadNothing, GivesUp, Errors
    <3>2. QED BY <2>4, <3>1, NothingReadStep
  <2>5. CASE Exhausted \/ WrongSeq
    <3>1. pc = "exec"
      BY <2>5 DEF Exhausted, WrongSeq
    <3>2. rc # "SYSERR"
      BY <2>0, <3>1
    <3>3. QED BY <2>5, <3>2, NothingReadStep
  <2>6. CASE Len0
    BY <2>6, Len0Step
  <2>7. CASE Len1
    BY <2>7, Len1Step
  <2>8. CASE Len2
    BY <2>8, Len2Step
  <2>9. CASE SeqByte
    BY <2>9, SeqByteStep
  <2>10. CASE Payload
    BY <2>10, PayloadStep
  <2>11. CASE UNCHANGED vars
    BY <2>11, StutterStep
  <2>12. QED
    BY <2>1, <2>2, <2>3, <2>4, <2>5, <2>6, <2>7, <2>8, <2>9, <2>10, <2>11 DEF Next, Execute
<1>3. QED BY <1>1, <1>2, PTL DEF Spec

\* Every variable of the parser stays in its range, bytes_remaining among them.
THEOREM ParserTypes ==
  ASSUME GivesUp
  PROVE  Spec => []TypeOK
<1>1. IInv => TypeOK
  BY DEF IInv
<1>2. QED BY <1>1, ParserInvariant, PTL

\* What read_packet has returned as OK are the packets the peer has sent, whole and
\* in order (client.c:102).
THEOREM PacketsAreComplete ==
  ASSUME GivesUp
  PROVE  Spec => []CompletePackets
<1>1. IInv => CompletePackets
  <2> SUFFICES ASSUME IInv PROVE CompletePackets
    OBVIOUS
  <2>1. TypeOK /\ Delivered
    BY DEF IInv
  <2>2. got \in Seq(Seq(Nat)) /\ sent \in Seq(Seq(Nat)) /\ Len(got) \in Nat /\ Len(sent) \in Nat
    BY <2>1, Lengths
  <2> DEFINE g == Len(got)
             pre == SubSeq(sent, 1, g)
  <2>3. g \in Nat /\ g <= Len(sent) /\ \A j \in 1..g : got[j] = sent[j]
    BY <2>1, <2>2 DEF Delivered
  <2>4. pre \in Seq(Seq(Nat)) /\ Len(pre) = g
    BY <2>2, <2>3
  <2>5. \A j \in 1..g : pre[j] = sent[j]
    BY <2>2, <2>3
  <2> HIDE DEF pre
  <2>6. got = pre
    BY <2>2, <2>3, <2>4, <2>5, SeqEqual
  <2>7. QED BY <2>3, <2>6 DEF CompletePackets, IsPrefix, pre
<1>2. QED BY <1>1, ParserInvariant, PTL

\* Payload is read inside a packet that was sent and is not delivered yet.
LEMMA PayloadInside ==
  ASSUME IInv, pc = "exec", state = "S_PAYLOAD"
  PROVE  Len(got) < Len(sent)
<1>1. rc # "SYSERR"
  BY DEF IInv
<1>2. PICK t \in Seq(Nat), at \in [Nat -> Nat], num \in [Nat -> Numbers], pos \in Nat : Where(t, at, num, pos)
  BY <1>1 DEF IInv, Parsing
<1>3. ~Boundary(at, num, pos)
  BY DEF Boundary
<1>4. QED BY <1>2, <1>3 DEF Where, Inside

\* When everything sent has been delivered nothing is on the way, and the parser
\* expects the number the peer will use.
LEMMA AllDelivered ==
  ASSUME IInv, rc # "SYSERR", ~eof, ~broken, Len(got) = Len(sent)
  PROVE  /\ state = "S_LEN_0" /\ ~fragment /\ sequence_number = peer_seq
         /\ recv = <<>> /\ stream = <<>>
<1>1. TypeOK /\ Delivered
  BY DEF IInv
<1> DEFINE n == Len(sent)
<1>2. n \in Nat /\ n + 1 \in 1..(n + 1) /\ Len(got) + 1 = n + 1
  BY <1>1, Lengths
<1>3. PICK t \in Seq(Nat), at \in [Nat -> Nat], num \in [Nat -> Numbers], pos \in Nat :
        Written(t, at, num) /\ Unread(t, pos) /\ Where(t, at, num, pos)
  BY DEF IInv, Parsing
<1>4. Boundary(at, num, pos)
  <2>1. SUFFICES ASSUME NEW p \in Seq(Nat), NEW s \in Numbers, Current(t, at, num, p, s) PROVE FALSE
    BY <1>3 DEF Where
  <2>2. Len(got) + 1 <= n
    BY <2>1 DEF Current
  <2>3. QED BY <1>2, <2>2
<1>5. state = "S_LEN_0" /\ ~fragment /\ pos = at[n + 1] /\ sequence_number = num[n + 1]
  BY <1>2, <1>4 DEF Boundary
<1>6. sequence_number = peer_seq
  BY <1>3, <1>5 DEF Written, Laid
<1>7. pos = Len(t)
  BY <1>3, <1>5 DEF Written, EndsRight
<1>8. recv \in Seq(Nat) /\ stream \in Seq(Nat)
  BY <1>1 DEF TypeOK
<1>9. Len(recv) = 0 /\ Len(stream) = 0
  <2>1. PICK r \in Nat : r = Len(recv)
    BY <1>8
  <2>2. PICK m \in Nat : m = Len(stream)
    BY <1>8
  <2>3. pos + r + m = pos
    BY <1>3, <1>7, <2>1, <2>2 DEF Unread
  <2>4. QED BY <2>1, <2>2, <2>3
<1>10. QED BY <1>5, <1>6, <1>8, <1>9, EmptySeq

\* When all that was written has been read, all of it has been returned, and the
\* parser is ready for the next packet, with the number the peer will use.
THEOREM NothingIsSwallowed ==
  ASSUME GivesUp
  PROVE  Spec => []NothingSwallowed
<1>1. IInv => NothingSwallowed
  <2> SUFFICES ASSUME IInv, stream = <<>>, recv = <<>>, rc # "SYSERR", ~eof, ~broken
               PROVE  state = "S_LEN_0" /\ ~fragment /\ got = sent /\ sequence_number = peer_seq
    BY DEF NothingSwallowed
  <2>1. TypeOK /\ Delivered
    BY DEF IInv
  <2> DEFINE k == Len(got) + 1
             n == Len(sent)
  <2>2. n \in Nat /\ k \in 1..(n + 1) /\ k \in Nat /\ got \in Seq(Seq(Nat)) /\ sent \in Seq(Seq(Nat)) /\ Len(got) \in Nat
    BY <2>1, Lengths
  <2>3. PICK t \in Seq(Nat), at \in [Nat -> Nat], num \in [Nat -> Numbers], pos \in Nat :
          Written(t, at, num) /\ Unread(t, pos) /\ Where(t, at, num, pos)
    BY DEF IInv, Parsing
  <2>4. PICK a \in Nat : a = at[k]
    BY <2>2
  <2>5. pos = Len(t)
    <3>1. Len(recv) = 0 /\ Len(stream) = 0
      OBVIOUS
    <3>2. pos + 0 + 0 = Len(t)
      BY <2>3, <3>1 DEF Unread
    <3>3. QED BY <3>2
  <2>6. ~(k \in 1..n /\ pos = a)
    <3>1. SUFFICES ASSUME k \in 1..n, pos = a PROVE FALSE
      OBVIOUS
    <3>2. Lies(t, at, num, k, sent[k]) /\ sent[k] \in Seq(Nat)
      BY <2>1, <2>3, <3>1, Lengths DEF Written, Laid
    <3>3. PICK z : z = PacketSize(sent[k])
      OBVIOUS
    <3>4. z \in Nat /\ z >= 4
      BY <3>2, <3>3, SizeFacts
    <3>5. a + z <= pos
      BY <2>4, <2>5, <3>2, <3>3 DEF Lies
    <3>6. QED BY <3>1, <3>4, <3>5
  <2>7. CASE Boundary(at, num, pos)
    <3>1. state = "S_LEN_0" /\ ~fragment /\ pos = a /\ sequence_number = num[k]
      BY <2>4, <2>7 DEF Boundary
    <3>2. ~(k \in 1..n)
      BY <2>6, <3>1
    <3>3. k = n + 1
      <4> HIDE DEF k, n
      <4>1. QED BY <2>2, <3>2
    <3>4. sequence_number = peer_seq
      BY <2>3, <3>1, <3>3 DEF Written, Laid
    <3>5. Len(got) = n
      BY <2>2, <3>3
    <3>6. got = sent
      <4>1. \A j \in 1..Len(got) : got[j] = sent[j]
        BY <2>1 DEF Delivered
      <4>2. QED BY <2>2, <3>5, <4>1, SeqEqual
    <3>7. QED BY <3>1, <3>4, <3>6
  <2>8. CASE ~Boundary(at, num, pos)
    <3>1. PICK p \in Seq(Nat), s \in Numbers :
            Current(t, at, num, p, s) /\ \E i \in 1..NumFragments(p) : Inside(p, i, at[k], num[k], pos)
      BY <2>3, <2>8 DEF Where
    <3>2. PICK i \in 1..NumFragments(p) : Inside(p, i, at[k], num[k], pos)
      BY <3>1
    <3>3. a + PacketSize(p) <= pos
      BY <2>4, <2>5, <3>1 DEF Current
    <3>4. In(state, fragment, bytes_remaining, sequence_number, packet, p, i, a, num[k], pos)
      BY <2>4, <3>2 DEF Inside
    <3> DEFINE f == FragStart(i)
               l == FragLen(p, i)
               z == PacketSize(p)
               r == bytes_remaining
    <3>5. pos = a + f \/ pos = a + f + 1 \/ pos = a + f + 2 \/ pos = a + f + 3 \/ (r \in 1..l /\ pos = a + f + 4 + (l - r))
      BY <3>4 DEF In
    <3>6. f \in Nat /\ l \in Nat /\ z \in Nat /\ f + 4 + l <= z
      BY SizeFacts
    <3>7. a + z <= pos
      BY <3>3
    <3> HIDE DEF f, l, z, r
    <3>8. FALSE
      <4>1. ASSUME pos = a + f \/ pos = a + f + 1 \/ pos = a + f + 2 \/ pos = a + f + 3 PROVE FALSE
        <5>1. pos < a + f + 4
          BY <4>1, <3>6
        <5>2. QED BY <5>1, <3>6, <3>7
      <4>2. ASSUME r \in 1..l, pos = a + f + 4 + (l - r) PROVE FALSE
        <5>1. pos < a + f + 4 + l
          BY <4>2, <3>6
        <5>2. QED BY <5>1, <3>6, <3>7
      <4>3. QED BY <3>5, <4>1, <4>2
    <3>9. QED BY <3>8
  <2>9. QED BY <2>7, <2>8
<1>2. QED BY <1>1, ParserInvariant, PTL

\* A number that is not the expected one is still there to be looked at, and no
\* callback is owed.
Stopped ==
  /\ pc = "exec" => ~deferred_end_callback
  /\ rc = "INVALID_SEQUENCE_ID" =>
       /\ state = "S_SEQ" /\ recv # <<>> /\ Head(recv) # sequence_number
       /\ ~deferred_end_callback

\* Behind a fragment with a wrong number nothing is delivered, whatever the caller
\* does after the error (packet_parser.c, S_SEQ).
THEOREM StopsForGood == Spec => StopsAtWrongSeq
<1> DEFINE Ok == rc = "INVALID_SEQUENCE_ID" => got' = got /\ state' = "S_SEQ"
<1>1. Init => Stopped
  BY DEF Init, ClientInit, Stopped
<1>2. Stopped /\ [Next]_vars => Stopped' /\ (Ok \/ UNCHANGED vars)
  <2> SUFFICES ASSUME Stopped, [Next]_vars PROVE Stopped' /\ (Ok \/ UNCHANGED vars)
    OBVIOUS
  <2>1. CASE UNCHANGED <<clientVars>>
    <3>1. UNCHANGED <<pc, rc, got, state, recv, sequence_number, deferred_end_callback>>
      BY <2>1 DEF clientVars, parserVars
    <3>2. QED BY <3>1 DEF Stopped
  <2>2. CASE ReadPacket
    <3>1. /\ deferred_end_callback' = FALSE /\ UNCHANGED <<state, sequence_number>>
      BY <2>2 DEF ReadPacket
    <3>2. CASE rc = "INVALID_SEQUENCE_ID"
      <4>1. recv' = recv /\ rc' = rc /\ got' = got
        BY <2>2, <3>2 DEF ReadPacket, Stopped
      <4>2. QED BY <3>1, <3>2, <4>1 DEF Stopped
    <3>3. CASE rc # "INVALID_SEQUENCE_ID"
      <4>1. rc' = rc \/ rc' = "OK"
        BY <2>2 DEF ReadPacket, PacketEnd, Return
      <4>2. QED BY <3>1, <3>3, <4>1 DEF Stopped
    <3>4. QED BY <3>2, <3>3
  <2>3. CASE ReadNothing
    <3>1. rc # "INVALID_SEQUENCE_ID"
      BY <2>3 DEF ReadNothing, Stopped
    <3>2. rc' # "INVALID_SEQUENCE_ID" /\ pc' = "idle"
      <4>1. rc' = IF eof THEN "CLOSED_CONNECTION" ELSE "AGAIN"
        BY <2>3 DEF ReadNothing
      <4>2. pc' = "idle"
        BY <2>3 DEF ReadNothing
      <4>3. QED BY <4>1, <4>2
    <3>3. QED BY <3>1, <3>2 DEF Stopped
  <2>4. CASE Exhausted
    BY <2>4 DEF Exhausted, Return, Stopped
  <2>5. CASE Len0 \/ Len1 \/ Len2
    <3>1. rc # "INVALID_SEQUENCE_ID" /\ ~deferred_end_callback
      BY <2>5 DEF Len0, Len1, Len2, Consume, Stopped
    <3>2. rc' = rc /\ deferred_end_callback' = deferred_end_callback
      BY <2>5 DEF Len0, Len1, Len2, Consume
    <3>3. QED BY <3>1, <3>2 DEF Stopped
  <2>6. CASE SeqByte
    <3>1. rc # "INVALID_SEQUENCE_ID" /\ ~deferred_end_callback
      BY <2>6 DEF SeqByte, Consume, Stopped
    <3>2. deferred_end_callback' = deferred_end_callback
      BY <2>6 DEF SeqByte, Consume
    <3>3. rc' = rc \/ rc' = "OK"
      BY <2>6 DEF SeqByte, EndOfPayload, PacketEnd, Return
    <3>4. QED BY <3>1, <3>2, <3>3 DEF Stopped
  <2>7. CASE WrongSeq
    <3>1. ~deferred_end_callback /\ UNCHANGED <<parserVars, recv, got>>
      BY <2>7 DEF WrongSeq, Stopped
    <3>2. /\ state = "S_SEQ" /\ recv # <<>> /\ Head(recv) # sequence_number
      BY <2>7 DEF WrongSeq
    <3>3. QED BY <3>1, <3>2 DEF Stopped, parserVars
  <2>8. CASE Payload
    <3>1. rc # "INVALID_SEQUENCE_ID"
      BY <2>8 DEF Payload, Stopped
    <3>2. \/ deferred_end_callback' = deferred_end_callback /\ (rc' = rc \/ rc' = "OK")
          \/ pc' = "idle" /\ rc' = "SYSERR"
      BY <2>8 DEF Payload, EndOfPayload, PacketEnd, Return
    <3>3. ~deferred_end_callback
      BY <2>8 DEF Payload, Stopped
    <3>4. QED BY <3>1, <3>2, <3>3 DEF Stopped
  <2>9. CASE UNCHANGED vars
    <3>1. UNCHANGED <<pc, rc, got, state, recv, sequence_number, deferred_end_callback>>
      BY <2>9 DEF vars, clientVars, parserVars
    <3>2. QED BY <3>1, <2>9 DEF Stopped
  <2>10. CASE \/ \E p \in Packets : PeerSend(p) \/ PeerSkips(p)
              \/ \E n \in 0..Len(stream) : PeerCut(n)
    <3>1. UNCHANGED clientVars
      BY <2>10 DEF PeerSend, PeerSkips, PeerCut
    <3>2. QED BY <2>1, <3>1
  <2>11. QED
    BY <2>2, <2>3, <2>4, <2>5, <2>6, <2>7, <2>8, <2>9, <2>10 DEF Next, Execute
<1>3. QED BY <1>1, <1>2, PTL DEF Spec, StopsAtWrongSeq
=============================================================================
