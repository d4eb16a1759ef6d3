--------------------------- MODULE Packet_proofs ---------------------------
(***************************************************************************)
(* Proofs about packets: what a server has written into one is what the    *)
(* client's parser reads from it, whatever the values are.  A reader that  *)
(* has met no error and touched no byte outside its packet is good; one    *)
(* that stands in front of given bytes, with nothing else before it but    *)
(* the rest, is ready for them.  Each call of reader.c takes a ready       *)
(* reader to one that is ready for the rest and has the value written, and *)
(* a parser makes nothing but such calls, one after the other or in a loop.*)
(***************************************************************************)
EXTENDS ServerPackets, Escape, SequenceTheorems, WellFoundedInduction, TLAPS

-----------------------------------------------------------------------------
(* Numbers and sequences.                                                   *)

\* The order of the natural numbers, as a set of pairs.
Lt == {ss \in Nat \X Nat : ss[1] < ss[2]}

\* The order of the natural numbers is well-founded.
LEMMA LtWellFounded == IsWellFoundedOn(Lt, Nat)
  BY NatLessThanWellFounded, SMT DEF OpToRel, Lt

\* Induction, for a set of numbers.
LEMMA SetInduction ==
  ASSUME NEW S, 0 \in S, \A n \in Nat : n \in S => n + 1 \in S
  PROVE  Nat \subseteq S
<1> SUFFICES ASSUME Nat \ S # {} PROVE FALSE
  OBVIOUS
<1>1. \E x \in Nat \ S : \A y \in Nat \ S : ~ (<<y, x>> \in Lt)
  BY LtWellFounded, WFMin
<1>2. PICK x \in Nat \ S : \A y \in Nat \ S : ~ (<<y, x>> \in Lt)
  BY <1>1
<1>3. x # 0 /\ x - 1 \in Nat /\ (x - 1) + 1 = x
  BY <1>2
<1>4. <<x - 1, x>> \in Lt
  BY <1>3, <1>2 DEF Lt
<1>5. QED BY <1>2, <1>3, <1>4

\* A set of numbers has a least one.
LEMMA Least ==
  ASSUME NEW S, S \subseteq Nat, S # {}
  PROVE  \E x \in S : \A y \in S : x <= y
<1>1. \E x \in S : \A y \in S : ~ (<<y, x>> \in Lt)
  BY LtWellFounded, WFMin
<1>2. PICK x \in S : \A y \in S : ~ (<<y, x>> \in Lt)
  BY <1>1
<1>3. ASSUME NEW y \in S, y < x PROVE FALSE
  <2>1. y \in Nat /\ x \in Nat
    OBVIOUS
  <2>2. <<y, x>> \in Lt
    BY <1>3, <2>1 DEF Lt
  <2>3. QED BY <1>2, <2>2
<1>4. \A y \in S : x <= y
  BY <1>3
<1>5. QED BY <1>4

\* How often m goes into n.
LEMMA Quotient ==
  ASSUME NEW m \in Nat, m > 0, NEW n \in Nat
  PROVE  n \div m \in Nat /\ (n \div m) * m <= n /\ n < (n \div m) * m + m
  OBVIOUS

\* FlattenSeq's function: the first sequence, then one more at a time.
Flattens(f, q, n) ==
  f = [i \in 1..n |-> IF i = 1 THEN q[i] ELSE f[i - 1] \o q[i]]

\* There is one.
LEMMA FlattenExists ==
  ASSUME NEW q, NEW n \in Nat
  PROVE  \E f : Flattens(f, q, n)
<1> DEFINE P == {m \in Nat : \E f : Flattens(f, q, m)}
<1>1. 0 \in P
  <2>1. 1..0 = {}
    OBVIOUS
  <2> DEFINE f == [i \in {} |-> i]
  <2>2. f = [i \in {} |-> IF i = 1 THEN q[i] ELSE f[i - 1] \o q[i]]
    OBVIOUS
  <2>3. Flattens(f, q, 0)
    BY <2>1, <2>2 DEF Flattens
  <2>4. QED BY <2>3
<1>2. ASSUME NEW m \in Nat, m \in P PROVE m + 1 \in P
  <2>1. PICK f : Flattens(f, q, m)
    BY <1>2
  <2> DEFINE g == [i \in 1..(m + 1) |-> IF i <= m THEN f[i] ELSE IF i = 1 THEN q[i] ELSE f[m] \o q[i]]
             h == [i \in 1..(m + 1) |-> IF i = 1 THEN q[i] ELSE g[i - 1] \o q[i]]
  <2>2. \A i \in 1..m : f[i] = IF i = 1 THEN q[i] ELSE f[i - 1] \o q[i]
    BY <2>1 DEF Flattens
  <2>3. ASSUME NEW i \in 1..(m + 1) PROVE g[i] = h[i]
    <3>1. CASE i <= m
      <4>1. i \in 1..m /\ (i # 1 => i - 1 \in 1..(m + 1) /\ i - 1 <= m)
        BY <3>1
      <4>2. g[i] = f[i] /\ (i # 1 => g[i - 1] = f[i - 1])
        BY <3>1, <4>1
      <4>3. QED BY <2>2, <4>1, <4>2
    <3>2. CASE i = m + 1 /\ i # 1
      <4>1. i - 1 = m /\ m \in 1..(m + 1) /\ m <= m /\ ~(i <= m)
        BY <3>2
      <4>2. g[m] = f[m]
        BY <4>1
      <4>3. g[i] = f[m] \o q[i]
        BY <4>1, <3>2
      <4>4. QED BY <4>1, <4>2, <4>3, <3>2
    <3>3. CASE i = m + 1 /\ i = 1
      BY <3>3
    <3>4. QED BY <3>1, <3>2, <3>3
  <2>4. g = h
    <3> HIDE DEF g
    <3>1. DOMAIN g = 1..(m + 1) /\ g = [i \in DOMAIN g |-> g[i]]
      BY DEF g
    <3>2. QED BY <2>3, <3>1
  <2>5. Flattens(g, q, m + 1)
    <3> HIDE DEF g
    <3>1. QED BY <2>4 DEF Flattens
  <2> HIDE DEF g
  <2>6. QED BY <2>5
<1>3. Nat \subseteq P
  <2> HIDE DEF P
  <2>1. QED BY <1>1, <1>2, SetInduction
<1>4. QED BY <1>3

\* So FlattenSeq does what it says.
LEMMA FlattenFacts ==
  ASSUME NEW S, NEW q \in Seq(Seq(S)), Len(q) > 0
  PROVE  \E f \in [1..Len(q) -> Seq(S)] :
           /\ FlattenSeq(q) = f[Len(q)]
           /\ f[1] = q[1]
           /\ \A i \in 2..Len(q) : f[i] = f[i - 1] \o q[i]
<1> DEFINE f == CHOOSE g : Flattens(g, q, Len(q))
<1>1. Len(q) \in Nat /\ \A i \in 1..Len(q) : q[i] \in Seq(S)
  OBVIOUS
<1>2. Flattens(f, q, Len(q))
  BY <1>1, FlattenExists
<1>3. FlattenSeq(q) = f[Len(q)]
  BY DEF FlattenSeq, Flattens
<1> HIDE DEF f
<1>4. \A i \in 1..Len(q) : f[i] = IF i = 1 THEN q[i] ELSE f[i - 1] \o q[i]
  BY <1>2 DEF Flattens
<1> DEFINE P == {m \in Nat : m + 1 \in 1..Len(q) => f[m + 1] \in Seq(S)}
<1>5. 0 \in P
  BY <1>1, <1>4
<1>6. ASSUME NEW m \in Nat, m \in P PROVE m + 1 \in P
  <2> SUFFICES ASSUME (m + 1) + 1 \in 1..Len(q) PROVE f[(m + 1) + 1] \in Seq(S)
    OBVIOUS
  <2>1. m + 1 \in 1..Len(q) /\ ((m + 1) + 1) - 1 = m + 1 /\ (m + 1) + 1 # 1
    BY <1>1
  <2>2. f[(m + 1) + 1] = f[m + 1] \o q[(m + 1) + 1]
    BY <1>4, <2>1
  <2>3. f[m + 1] \in Seq(S) /\ q[(m + 1) + 1] \in Seq(S)
    BY <1>6, <2>1, <1>1
  <2>4. QED BY <2>2, <2>3
<1>7. Nat \subseteq P
  <2> HIDE DEF P
  <2>1. QED BY <1>5, <1>6, SetInduction
<1>8. \A i \in 1..Len(q) : f[i] \in Seq(S)
  <2>1. \A i \in 1..Len(q) : i - 1 \in Nat /\ (i - 1) + 1 = i
    BY <1>1
  <2>2. QED BY <1>7, <2>1
<1>9. f \in [1..Len(q) -> Seq(S)]
  <2>1. DOMAIN f = 1..Len(q) /\ f = [i \in 1..Len(q) |-> f[i]]
    BY <1>2 DEF Flattens
  <2>2. QED BY <1>8, <2>1
<1>10. f[1] = q[1]
  BY <1>1, <1>4
<1>11. \A i \in 2..Len(q) : f[i] = f[i - 1] \o q[i]
  <2>1. \A i \in 2..Len(q) : i \in 1..Len(q) /\ i # 1
    BY <1>1
  <2>2. QED BY <1>4, <2>1
<1>12. QED BY <1>3, <1>9, <1>10, <1>11

\* And what is left of it behind the first sequences.
LEMMA FlattenRest ==
  ASSUME NEW S, NEW q \in Seq(Seq(S)), Len(q) > 0
  PROVE  \E g \in [1..(Len(q) + 1) -> Seq(S)] :
           g[1] = FlattenSeq(q) /\ Len(g[Len(q) + 1]) = 0 /\ \A i \in 1..Len(q) : g[i] = q[i] \o g[i + 1]
<1> DEFINE n == Len(q)
<1>1. n \in Nat /\ n > 0 /\ \A i \in 1..n : q[i] \in Seq(S)
  OBVIOUS
<1>2. PICK f \in [1..n -> Seq(S)] :
        FlattenSeq(q) = f[n] /\ f[1] = q[1] /\ \A i \in 2..n : f[i] = f[i - 1] \o q[i]
  BY FlattenFacts
<1> HIDE DEF n
<1> DEFINE Tails(k, z, g) ==
             /\ g \in [1..(k + 1) -> Seq(S)] /\ g[k + 1] = z /\ g[1] = f[k] \o z
             /\ \A i \in 1..k : g[i] = q[i] \o g[i + 1]
           P == {m \in Nat : m + 1 <= n => \A z \in Seq(S) : \E g : Tails(m + 1, z, g)}
<1>3. \A z \in Seq(S) : \E g : Tails(1, z, g)
  <2> TAKE z \in Seq(S)
  <2>1. PICK y \in Seq(S) : y = q[1] \o z
    <3>1. 1 \in 1..n
      BY <1>1
    <3>2. q[1] \in Seq(S)
      BY <1>1, <3>1
    <3>3. q[1] \o z \in Seq(S)
      BY <3>2
    <3>4. QED BY <3>3
  <2> DEFINE g == [i \in 1..2 |-> IF i = 1 THEN y ELSE z]
  <2>2. g \in [1..2 -> Seq(S)] /\ g[2] = z /\ g[1] = y
    BY <2>1
  <2>3. 1 + 1 = 2 /\ \A i \in 1..1 : i = 1
    OBVIOUS
  <2>4. f[1] \o z = y
    BY <1>2, <2>1
  <2> HIDE DEF g
  <2>5. Tails(1, z, g)
    BY <2>1, <2>2, <2>3, <2>4
  <2> HIDE DEF Tails
  <2>6. QED BY <2>5
<1>4. ASSUME NEW k \in Nat, k > 0, k + 1 <= n, \A z \in Seq(S) : \E g : Tails(k, z, g), NEW z \in Seq(S)
      PROVE  \E g : Tails(k + 1, z, g)
  <2>1. k \in 1..n /\ k + 1 \in 1..n /\ k + 1 \in 2..n /\ (k + 1) - 1 = k /\ (k + 1) + 1 = k + 2
    BY <1>1, <1>4
  <2>2. q[k + 1] \in Seq(S) /\ f[k] \in Seq(S) /\ f[k + 1] = f[k] \o q[k + 1]
    BY <1>1, <1>2, <2>1
  <2>3. PICK y \in Seq(S) : y = q[k + 1] \o z
    <3>1. q[k + 1] \o z \in Seq(S)
      BY <2>2
    <3>2. QED BY <3>1
  <2>4. PICK h : Tails(k, y, h)
    <3> HIDE DEF Tails
    <3>1. QED BY <1>4
  <2>5. f[k + 1] \o z = f[k] \o y
    <3>1. PICK a, d \in Seq(S) : a = f[k] /\ d = q[k + 1]
      BY <2>2
    <3>2. (a \o d) \o z = a \o (d \o z)
      BY SMTT(60), ConcatAssociative
    <3>3. QED BY <2>2, <2>3, <3>1, <3>2
  <2> DEFINE g == [i \in 1..(k + 2) |-> IF i <= k + 1 THEN h[i] ELSE z]
  <2>6. g \in [1..(k + 2) -> Seq(S)]
    <3>1. ASSUME NEW i \in 1..(k + 2) PROVE (IF i <= k + 1 THEN h[i] ELSE z) \in Seq(S)
      <4>1. i <= k + 1 => i \in 1..(k + 1)
        OBVIOUS
      <4>2. QED BY <2>4, <4>1
    <3>2. QED BY <3>1
  <2>7. g[k + 2] = z /\ g[1] = f[k + 1] \o z
    <3>1. k + 2 \in 1..(k + 2) /\ ~(k + 2 <= k + 1) /\ 1 \in 1..(k + 2) /\ 1 <= k + 1
      OBVIOUS
    <3>2. g[k + 2] = z /\ g[1] = h[1]
      BY <3>1
    <3>3. QED BY <2>4, <2>5, <3>2
  <2>8. ASSUME NEW i \in 1..(k + 1) PROVE g[i] = q[i] \o g[i + 1]
    <3>1. CASE i <= k
      <4>1. i \in 1..k /\ i \in 1..(k + 2) /\ i + 1 \in 1..(k + 2) /\ i <= k + 1 /\ i + 1 <= k + 1
        BY <3>1
      <4>2. g[i] = h[i] /\ g[i + 1] = h[i + 1]
        BY <4>1
      <4>3. h[i] = q[i] \o h[i + 1]
        BY <2>4, <4>1
      <4>4. QED BY <4>2, <4>3
    <3>2. CASE i = k + 1
      <4>1. i \in 1..(k + 2) /\ i + 1 \in 1..(k + 2) /\ i <= k + 1 /\ ~(i + 1 <= k + 1)
        BY <3>2
      <4>2. g[i] = h[i] /\ g[i + 1] = z
        BY <4>1
      <4>3. h[k + 1] = y
        BY <2>4
      <4> HIDE DEF g
      <4>4. QED BY <2>3, <3>2, <4>2, <4>3
    <3>3. i <= k \/ i = k + 1
      OBVIOUS
    <3> HIDE DEF g
    <3>4. QED BY <3>1, <3>2, <3>3
  <2> HIDE DEF g
  <2>9. Tails(k + 1, z, g)
    BY <2>1, <2>6, <2>7, <2>8
  <2> HIDE DEF Tails
  <2>10. QED BY <2>9
<1>5. Nat \subseteq P
  <2> HIDE DEF Tails
  <2>1. 0 \in P
    BY <1>3
  <2>2. ASSUME NEW m \in Nat, m \in P PROVE m + 1 \in P
    <3> SUFFICES ASSUME (m + 1) + 1 <= n PROVE \A z \in Seq(S) : \E g : Tails((m + 1) + 1, z, g)
      OBVIOUS
    <3>1. PICK k \in Nat : k = m + 1
      OBVIOUS
    <3>2. k > 0 /\ k + 1 <= n /\ m + 1 <= n
      BY <1>1, <3>1
    <3>3. \A z \in Seq(S) : \E g : Tails(k, z, g)
      BY <2>2, <3>1, <3>2
    <3>4. \A z \in Seq(S) : \E g : Tails(k + 1, z, g)
      BY <1>4, <3>2, <3>3
    <3>5. QED BY <3>1, <3>4
  <2> HIDE DEF P
  <2>3. QED BY <2>1, <2>2, SetInduction
<1>6. PICK z \in Seq(S) : z = <<>> /\ Len(z) = 0
  BY EmptySeq
<1>7. PICK m \in Nat : m + 1 = n
  <2>1. n - 1 \in Nat /\ (n - 1) + 1 = n
    BY <1>1
  <2>2. QED BY <2>1
<1>8. PICK g : Tails(n, z, g)
  <2> HIDE DEF Tails
  <2>1. m \in P /\ m + 1 <= n
    BY <1>1, <1>5, <1>7
  <2>2. \E g : Tails(m + 1, z, g)
    BY <2>1
  <2>3. QED BY <1>7, <2>2
<1>9. f[n] \o z = f[n]
  <2>1. n \in 1..n
    BY <1>1
  <2>2. f[n] \in Seq(S)
    BY <2>1
  <2>3. QED BY <1>6, <2>2
<1>10. g \in [1..(n + 1) -> Seq(S)] /\ g[n + 1] = z /\ g[1] = FlattenSeq(q) /\ \A i \in 1..n : g[i] = q[i] \o g[i + 1]
  BY <1>2, <1>8, <1>9
<1>11. QED BY <1>6, <1>10 DEF n

\* x holds the m bytes of a, then those of d.
Spliced(x, a, d, m) ==
  /\ Len(x) = m + Len(d)
  /\ \A j \in 1..m : x[j] = a[j]
  /\ \A j \in 1..Len(d) : x[m + j] = d[j]

\* What a concatenation holds.
LEMMA Concat ==
  ASSUME NEW S, NEW a \in Seq(S), NEW d \in Seq(S), NEW m, Len(a) = m
  PROVE  m \in Nat /\ Len(d) \in Nat /\ a \o d \in Seq(S) /\ Spliced(a \o d, a, d, m)
<1>0. m \in Nat
  OBVIOUS
<1>1. /\ a \o d \in Seq(S) /\ Len(a \o d) = m + Len(d) /\ Len(d) \in Nat
      /\ \A i \in 1..(m + Len(d)) : (a \o d)[i] = IF i <= m THEN a[i] ELSE d[i - m]
  <2>1. a \o d \in Seq(S) /\ Len(a \o d) = Len(a) + Len(d) /\ Len(d) \in Nat
    OBVIOUS
  <2>2. \A i \in 1 .. Len(a) + Len(d) : (a \o d)[i] = IF i <= Len(a) THEN a[i] ELSE d[i - Len(a)]
    BY ConcatProperties
  <2>3. QED BY <2>1, <2>2
<1>2. ASSUME NEW j \in 1..m PROVE (a \o d)[j] = a[j]
  <2>1. j \in 1..(m + Len(d)) /\ j <= m
    BY <1>0, <1>1
  <2>2. QED BY <1>1, <2>1
<1>3. ASSUME NEW j \in 1..Len(d) PROVE (a \o d)[m + j] = d[j]
  <2>1. m + j \in 1..(m + Len(d)) /\ ~(m + j <= m) /\ (m + j) - m = j
    BY <1>0, <1>1
  <2>2. QED BY <1>1, <2>1
<1>4. QED BY <1>0, <1>1, <1>2, <1>3 DEF Spliced

-----------------------------------------------------------------------------
(* Readers.                                                                  *)

Parts == {"buff", "pos", "rc", "val", "out", "over"}

Safe(r) ==
  /\ r = [part \in Parts |-> r[part]]
  /\ r.over = FALSE /\ r.rc # "EOF"
  /\ r.buff \in Seq(Nat) /\ r.pos \in Nat /\ r.pos <= Len(r.buff)

\* The null bitmap read at the start of a row is still b. With <<>> for b,
\* nothing is said.
Keeps(out, b) == b = <<>> \/ ("bitmap" \in DOMAIN out /\ out["bitmap"] = b)

Good(r, b) == Safe(r) /\ Keeps(r.out, b)

LEMMA OpenGood ==
  ASSUME NEW buff \in Seq(Nat), NEW out
  PROVE  Good(Open(buff, out), <<>>) /\ Open(buff, out).rc = "OK" /\ Open(buff, out).out = out
<1>1. Len(buff) \in Nat
  OBVIOUS
<1>2. QED BY <1>1 DEF Good, Safe, Keeps, Parts, Open

\* A call that fails.
LEMMA FailGood ==
  ASSUME NEW r, NEW b, NEW code, code # "EOF", Good(r, b)
  PROVE  /\ Good(Fail(r, code), b)
         /\ Fail(r, code).rc = code /\ Fail(r, code).out = r.out
<1>1. Fail(r, code) = [part \in Parts |-> Fail(r, code)[part]]
  BY DEF Good, Safe, Parts, Fail
<1>2. /\ Fail(r, code).buff = r.buff /\ Fail(r, code).pos = r.pos /\ Fail(r, code).over = FALSE
      /\ Fail(r, code).rc = code /\ Fail(r, code).out = r.out
  BY DEF Good, Safe, Parts, Fail
<1>3. QED BY <1>1, <1>2 DEF Good, Safe

\* A new value, or more in out.
LEMMA ValGood ==
  ASSUME NEW r, NEW b, NEW value, Good(r, b)
  PROVE  /\ Good([r EXCEPT !.val = value], b)
         /\ [r EXCEPT !.val = value].rc = r.rc /\ [r EXCEPT !.val = value].out = r.out
<1> DEFINE s == [r EXCEPT !.val = value]
<1>1. s = [part \in Parts |-> s[part]]
  BY DEF Good, Safe, Parts
<1>2. s.buff = r.buff /\ s.pos = r.pos /\ s.over = FALSE /\ s.rc = r.rc /\ s.out = r.out
  BY DEF Good, Safe, Parts
<1> HIDE DEF s
<1>3. Good(s, b) /\ s.rc = r.rc /\ s.out = r.out
  BY <1>1, <1>2 DEF Good, Safe
<1>4. QED BY <1>3 DEF s

LEMMA StoreGood ==
  ASSUME NEW r, NEW b, NEW field, NEW value, Good(r, b), b = <<>> \/ field # "bitmap"
  PROVE  /\ Good(Store(r, field, value), b)
         /\ Store(r, field, value).rc = r.rc
<1> DEFINE s == Store(r, field, value)
           o == [f \in {field} \cup DOMAIN r.out |-> IF f = field THEN value ELSE r.out[f]]
<1>1. s = [part \in Parts |-> s[part]]
  BY DEF Good, Safe, Parts, Store
<1>2. s.buff = r.buff /\ s.pos = r.pos /\ s.over = FALSE /\ s.rc = r.rc
  BY DEF Good, Safe, Parts, Store
<1>3. s.out = o
  BY DEF Good, Safe, Parts, Store
<1>4. Keeps(o, b)
  BY DEF Good, Keeps
<1> HIDE DEF s, o
<1>5. Good(s, b)
  BY <1>1, <1>2, <1>3, <1>4 DEF Good, Safe
<1>6. QED BY <1>2, <1>5 DEF s

LEMMA StoreOut ==
  ASSUME NEW r, NEW b, NEW field, NEW value, Good(r, b)
  PROVE  field \in DOMAIN Store(r, field, value).out /\ Store(r, field, value).out[field] = value
<1> DEFINE o == [f \in {field} \cup DOMAIN r.out |-> IF f = field THEN value ELSE r.out[f]]
<1>1. Store(r, field, value).out = o
  BY DEF Good, Safe, Parts, Store
<1>2. QED BY <1>1

LEMMA StoredValue ==
  ASSUME NEW r, NEW b, NEW field, NEW t, Good(r, b), t = Store(r, field, r.val)
  PROVE  field \in DOMAIN t.out /\ t.out[field] = r.val
  BY StoreOut

\* What another reader has or has not touched.
LEMMA OverGood ==
  ASSUME NEW r, NEW b, NEW over, over = FALSE, Good(r, b)
  PROVE  Good([r EXCEPT !.over = @ \/ over], b) /\ [r EXCEPT !.over = @ \/ over].rc = r.rc
<1> DEFINE s == [r EXCEPT !.over = @ \/ over]
<1>1. s = [part \in Parts |-> s[part]]
  BY DEF Good, Safe, Parts
<1>2. s.buff = r.buff /\ s.pos = r.pos /\ s.rc = r.rc /\ s.out = r.out
  BY DEF Good, Safe, Parts
<1>3. s.over = FALSE
  BY DEF Good, Safe, Parts
<1> HIDE DEF s
<1>4. Good(s, b) /\ s.rc = r.rc
  BY <1>1, <1>2, <1>3 DEF Good, Safe
<1>5. QED BY <1>4 DEF s

LEMMA OverFailGood ==
  ASSUME NEW r, NEW b, NEW code, code # "EOF", NEW over, over = FALSE, Good(r, b)
  PROVE  Good([r EXCEPT !.rc = code, !.over = @ \/ over], b)
<1> DEFINE s == [r EXCEPT !.rc = code, !.over = @ \/ over]
<1>1. s = [part \in Parts |-> s[part]]
  BY DEF Good, Safe, Parts
<1>2. s.buff = r.buff /\ s.pos = r.pos /\ s.out = r.out
  BY DEF Good, Safe, Parts
<1>3. s.over = FALSE /\ s.rc = code
  BY DEF Good, Safe, Parts
<1> HIDE DEF s
<1>4. Good(s, b)
  BY <1>1, <1>2, <1>3 DEF Good, Safe
<1>5. QED BY <1>4 DEF s

\* The position moves over bytes that are there.
LEMMA MovedGood ==
  ASSUME NEW r, NEW b, NEW n \in Nat, NEW value, Good(r, b), Check(r, n)
  PROVE  /\ Good(Moved(r, n, value), b)
         /\ Moved(r, n, value).rc = r.rc /\ Moved(r, n, value).val = value /\ Moved(r, n, value).out = r.out
<1> DEFINE s == Moved(r, n, value)
<1>1. s = [part \in Parts |-> s[part]]
  BY DEF Good, Safe, Parts, Moved
<1>2. r.pos \in Nat /\ Len(r.buff) \in Nat /\ n <= Len(r.buff) - r.pos
  BY DEF Good, Safe, Check, Left
<1>3. /\ s.buff = r.buff /\ s.pos = r.pos + n
      /\ s.rc = r.rc /\ s.val = value /\ s.out = r.out
  BY DEF Good, Safe, Parts, Moved
<1>4. s.over = FALSE /\ s.pos \in Nat /\ s.pos <= Len(s.buff)
  <2>1. ~(n > Left(r)) /\ r.over = FALSE
    BY <1>2 DEF Left, Good, Safe
  <2>2. s.over = FALSE
    BY <2>1 DEF Good, Safe, Parts, Moved
  <2> HIDE DEF s
  <2>3. QED BY <1>2, <1>3, <2>2
<1> HIDE DEF s
<1>5. Good(s, b)
  BY <1>1, <1>3, <1>4 DEF Good, Safe
<1>6. QED BY <1>3, <1>5 DEF s

-----------------------------------------------------------------------------
(* Loops. Each is a recursive function of the round; one lemma gives them    *)
(* all their values, so the bodies of all are listed here.                   *)

Body(loop, x, s, i) ==
  CASE loop = "fields" -> Read(s, x[i])
    [] loop = "changes" -> (IF Eof(s) THEN s ELSE StateChange(s))
    [] loop = "row" -> TextValue(s)
    [] loop = "parts" -> Store(GetInt(s, x[i]), "parts", [GetInt(s, x[i]).out.parts EXCEPT ![i] = GetInt(s, x[i]).val])
    [] loop = "stmt_row" -> StmtColumn(s, x[i], i)

Round(loop, x, s, i) ==
  CASE loop = "number" -> (IF s >= Huge \div Radix THEN Huge ELSE x[Len(x) + 1 - i] + Radix * s)
    [] loop = "digits" -> s \div Radix
    [] OTHER -> (IF s.rc = "OK" THEN Body(loop, x, s, i) ELSE s)

\* f has the values of the loop from start on.
Runs(f, loop, x, start, n) ==
  f = [i \in 0..n |-> IF i = 0 THEN start ELSE Round(loop, x, f[i - 1], i)]

\* There is such an f.
LEMMA RunsExists ==
  ASSUME NEW loop, NEW x, NEW start, NEW n \in Nat
  PROVE  \E f : Runs(f, loop, x, start, n)
<1> DEFINE P == {m \in Nat : \E f : Runs(f, loop, x, start, m)}
<1>1. 0 \in P
  <2> DEFINE f == [i \in 0..0 |-> start]
  <2>1. f = [i \in 0..0 |-> IF i = 0 THEN start ELSE Round(loop, x, f[i - 1], i)]
    OBVIOUS
  <2>2. Runs(f, loop, x, start, 0)
    BY <2>1 DEF Runs
  <2>3. QED BY <2>2
<1>2. ASSUME NEW m \in Nat, m \in P PROVE m + 1 \in P
  <2>1. PICK f : Runs(f, loop, x, start, m)
    BY <1>2
  <2> DEFINE g == [i \in 0..(m + 1) |-> IF i <= m THEN f[i] ELSE Round(loop, x, f[m], m + 1)]
             h == [i \in 0..(m + 1) |-> IF i = 0 THEN start ELSE Round(loop, x, g[i - 1], i)]
  <2>2. \A i \in 0..m : f[i] = IF i = 0 THEN start ELSE Round(loop, x, f[i - 1], i)
    BY <2>1 DEF Runs
  <2>3. ASSUME NEW i \in 0..(m + 1) PROVE g[i] = h[i]
    <3>1. CASE i <= m
      <4>1. i \in 0..m /\ (i # 0 => i - 1 \in 0..(m + 1) /\ i - 1 <= m)
        BY <3>1
      <4>2. g[i] = f[i] /\ (i # 0 => g[i - 1] = f[i - 1])
        BY <3>1, <4>1
      <4>3. QED BY <2>2, <4>1, <4>2
    <3>2. CASE i = m + 1
      <4>1. i - 1 = m /\ m \in 0..(m + 1) /\ m <= m /\ ~(i <= m) /\ i # 0
        BY <3>2
      <4>2. g[m] = f[m]
        BY <4>1
      <4>3. g[i] = Round(loop, x, f[m], m + 1)
        BY <4>1
      <4>4. h[i] = Round(loop, x, g[m], m + 1)
        BY <4>1, <3>2
      <4>5. QED BY <4>2, <4>3, <4>4
    <3>3. QED BY <3>1, <3>2
  <2>4. g = h
    <3> HIDE DEF g
    <3>1. DOMAIN g = 0..(m + 1) /\ g = [i \in DOMAIN g |-> g[i]]
      BY DEF g
    <3>2. QED BY <2>3, <3>1
  <2>5. Runs(g, loop, x, start, m + 1)
    <3> HIDE DEF g
    <3>1. QED BY <2>4 DEF Runs
  <2> HIDE DEF g
  <2>6. QED BY <2>5
<1>3. Nat \subseteq P
  <2> HIDE DEF P
  <2>1. QED BY <1>1, <1>2, SetInduction
<1>4. QED BY <1>3

\* A reader that every round leaves good is good at the end.
LEMMA RunsGood ==
  ASSUME NEW f, NEW loop, loop \notin {"number", "digits"}, NEW x, NEW b, NEW start, NEW n \in Nat,
         Runs(f, loop, x, start, n), Good(start, b),
         \A s : \A i \in 1..n : Good(s, b) /\ s.rc = "OK" => Good(Body(loop, x, s, i), b)
  PROVE  \A i \in 0..n : Good(f[i], b)
<1> DEFINE P == {m \in Nat : m <= n => Good(f[m], b)}
<1>1. \A i \in 0..n : f[i] = IF i = 0 THEN start ELSE Round(loop, x, f[i - 1], i)
  BY DEF Runs
<1>2. 0 \in P
  BY <1>1
<1>3. ASSUME NEW m \in Nat, m \in P PROVE m + 1 \in P
  <2> SUFFICES ASSUME m + 1 <= n PROVE Good(f[m + 1], b)
    OBVIOUS
  <2>1. m + 1 \in 0..n /\ m + 1 \in 1..n /\ (m + 1) - 1 = m /\ m + 1 # 0 /\ m <= n
    OBVIOUS
  <2>2. f[m + 1] = Round(loop, x, f[m], m + 1)
    BY <1>1, <2>1
  <2>3. Good(f[m], b)
    BY <1>3, <2>1
  <2>4. f[m + 1] = IF f[m].rc = "OK" THEN Body(loop, x, f[m], m + 1) ELSE f[m]
    BY <2>2 DEF Round
  <2> HIDE DEF P
  <2>5. QED BY <2>1, <2>3, <2>4
<1>4. Nat \subseteq P
  <2> HIDE DEF P
  <2>1. QED BY <1>2, <1>3, SetInduction
<1>5. \A i \in 0..n : i \in Nat /\ i <= n
  OBVIOUS
<1>6. QED BY <1>4, <1>5

\* A reader that has failed before the loop stays as it is.
LEMMA RunsFailed ==
  ASSUME NEW f, NEW loop, loop \notin {"number", "digits"}, NEW x, NEW start, NEW n \in Nat,
         Runs(f, loop, x, start, n), start.rc # "OK"
  PROVE  f[n] = start
<1> DEFINE P == {m \in Nat : m <= n => f[m] = start}
<1>1. \A i \in 0..n : f[i] = IF i = 0 THEN start ELSE Round(loop, x, f[i - 1], i)
  BY DEF Runs
<1>2. 0 \in P
  BY <1>1
<1>3. ASSUME NEW m \in Nat, m \in P PROVE m + 1 \in P
  <2> SUFFICES ASSUME m + 1 <= n PROVE f[m + 1] = start
    OBVIOUS
  <2>1. m + 1 \in 0..n /\ (m + 1) - 1 = m /\ m + 1 # 0 /\ m <= n
    OBVIOUS
  <2>2. f[m + 1] = Round(loop, x, f[m], m + 1) /\ f[m] = start
    BY <1>1, <1>3, <2>1
  <2>3. QED BY <2>2 DEF Round
<1>4. Nat \subseteq P
  <2> HIDE DEF P
  <2>1. QED BY <1>2, <1>3, SetInduction
<1>5. QED BY <1>4

-----------------------------------------------------------------------------
(* Numbers.                                                                  *)

LEMMA RadixFacts == Radix \in Nat /\ Radix >= 16 /\ Huge \in Nat /\ Huge \div Radix \in Nat
<1>1. Radix \in Nat /\ Radix >= 16
  <2>1. CASE Bits = 4 BY <2>1 DEF Radix
  <2>2. CASE Bits = 5 BY <2>2 DEF Radix
  <2>3. CASE Bits = 6 BY <2>3 DEF Radix
  <2>4. CASE Bits = 7 BY <2>4 DEF Radix
  <2>5. CASE Bits = 8 BY <2>5 DEF Radix
  <2>6. QED BY ReaderAssumption, <2>1, <2>2, <2>3, <2>4, <2>5
<1>2. Huge \in Nat
  BY ReaderAssumption
<1>3. QED BY <1>1, <1>2, Quotient

\* The function inside Number.
Counts(f, bytes) ==
  f = [k \in 0..Len(bytes) |->
        IF k = 0 THEN 0
        ELSE IF f[k - 1] >= Huge \div Radix THEN Huge ELSE bytes[Len(bytes) + 1 - k] + Radix * f[k - 1]]

\* Bytes make a number.
LEMMA NumberFacts ==
  ASSUME NEW bytes \in Seq(Nat)
  PROVE  Number(bytes) \in Nat
<1> DEFINE f == CHOOSE g : Counts(g, bytes)
           n == Len(bytes)
<1>1. n \in Nat
  OBVIOUS
<1>2. \E g : Counts(g, bytes)
  <2>1. PICK g : Runs(g, "number", bytes, 0, Len(bytes))
    BY <1>1, RunsExists
  <2>2. Counts(g, bytes)
    BY <2>1 DEF Runs, Round, Counts
  <2>3. QED BY <2>2
<1>3. Counts(f, bytes)
  BY <1>2
<1>4. Number(bytes) = f[n]
  BY DEF Number, Counts
<1> HIDE DEF f
<1> DEFINE P == {m \in Nat : m <= n => f[m] \in Nat}
<1>5. \A k \in 0..n : f[k] = IF k = 0 THEN 0
                             ELSE IF f[k - 1] >= Huge \div Radix THEN Huge ELSE bytes[n + 1 - k] + Radix * f[k - 1]
  BY <1>3 DEF Counts
<1> HIDE DEF n
<1>6. 0 \in P
  BY <1>1, <1>5
<1>7. ASSUME NEW m \in Nat, m \in P PROVE m + 1 \in P
  <2> SUFFICES ASSUME m + 1 <= n PROVE f[m + 1] \in Nat
    OBVIOUS
  <2>1. m + 1 \in 0..n /\ (m + 1) - 1 = m /\ m + 1 # 0 /\ m <= n /\ n + 1 - (m + 1) \in 1..n
    BY <1>1
  <2>2. f[m + 1] = IF f[m] >= Huge \div Radix THEN Huge ELSE bytes[n + 1 - (m + 1)] + Radix * f[m]
    BY <1>5, <2>1
  <2>3. f[m] \in Nat
    BY <1>7, <2>1
  <2>4. bytes[n + 1 - (m + 1)] \in Nat
    BY <2>1 DEF n
  <2>5. Radix * f[m] \in Nat
    BY <2>3, RadixFacts
  <2>6. QED BY <2>2, <2>4, <2>5, RadixFacts
<1>8. Nat \subseteq P
  <2> HIDE DEF P
  <2>1. QED BY <1>6, <1>7, SetInduction
<1>9. QED BY <1>1, <1>4, <1>8

-----------------------------------------------------------------------------
(* The calls of reader.c.                                                    *)

LEMMA SafeFacts ==
  ASSUME NEW r, NEW b, Good(r, b)
  PROVE  /\ r.over = FALSE /\ r.rc # "EOF"
         /\ r.buff \in Seq(Nat) /\ r.pos \in Nat /\ Len(r.buff) \in Nat /\ Left(r) \in Nat
<1>1. r.over = FALSE /\ r.rc # "EOF" /\ r.buff \in Seq(Nat) /\ r.pos \in Nat /\ r.pos <= Len(r.buff)
  BY DEF Good, Safe
<1>2. Len(r.buff) \in Nat
  BY <1>1
<1>3. QED BY <1>1, <1>2 DEF Left

LEMMA PeekFacts ==
  ASSUME NEW r, NEW b, NEW n \in Nat, Good(r, b)
  PROVE  Peek(r, n) \in Seq(Nat) /\ Len(Peek(r, n)) = n
<1>1. ASSUME NEW i \in 1..n
      PROVE  (IF r.pos + i <= Len(r.buff) THEN r.buff[r.pos + i] ELSE 0) \in Nat
  <2>1. CASE r.pos + i <= Len(r.buff)
    <3>1. r.buff \in Seq(Nat) /\ r.pos \in Nat /\ Len(r.buff) \in Nat
      BY SafeFacts
    <3>2. r.pos + i \in 1..Len(r.buff)
      <4>1. PICK p, l \in Nat : p = r.pos /\ l = Len(r.buff)
        BY <3>1
      <4>2. p + i \in 1..l
        BY <2>1, <4>1
      <4>3. QED BY <4>1, <4>2
    <3>3. r.buff[r.pos + i] \in Nat
      BY <3>1, <3>2
    <3>4. QED BY <2>1, <3>3
  <2>2. QED BY <2>1
<1>2. QED BY <1>1 DEF Peek

LEMMA IntGood ==
  ASSUME NEW r, NEW b, NEW width \in Nat, Good(r, b)
  PROVE  /\ Good(GetInt(r, width), b) /\ GetInt(r, width).out = r.out
         /\ GetInt(r, width).rc = "OK" => GetInt(r, width).val \in Nat
<1>1. CASE Check(r, width)
  <2>1. GetInt(r, width) = Moved(r, width, Number(Peek(r, width)))
    BY <1>1 DEF GetInt
  <2>2. Number(Peek(r, width)) \in Nat
    BY PeekFacts, NumberFacts
  <2>3. QED BY <1>1, <2>1, <2>2, MovedGood
<1>2. CASE ~Check(r, width)
  <2>1. PICK code : code = "TRUNCATED_PACKET" /\ code # "EOF" /\ code # "OK"
    OBVIOUS
  <2>2. GetInt(r, width) = Fail(r, code)
    BY <1>2, <2>1 DEF GetInt
  <2>3. QED BY <2>1, <2>2, FailGood
<1>3. QED BY <1>1, <1>2

LEMMA BufferGood ==
  ASSUME NEW r, NEW b, NEW n \in Nat, Good(r, b)
  PROVE  /\ Good(GetBuffer(r, n), b) /\ GetBuffer(r, n).out = r.out
         /\ GetBuffer(r, n).rc = "OK" => GetBuffer(r, n).val \in Seq(Nat) /\ Len(GetBuffer(r, n).val) = n
<1>1. CASE Check(r, n)
  <2>1. GetBuffer(r, n) = Moved(r, n, Peek(r, n))
    BY <1>1 DEF GetBuffer
  <2>2. QED BY <1>1, <2>1, PeekFacts, MovedGood
<1>2. CASE ~Check(r, n)
  <2>1. PICK code : code = "TRUNCATED_PACKET" /\ code # "EOF" /\ code # "OK"
    OBVIOUS
  <2>2. GetBuffer(r, n) = Fail(r, code)
    BY <1>2, <2>1 DEF GetBuffer
  <2>3. Good(Fail(r, code), b) /\ Fail(r, code).rc = code /\ Fail(r, code).out = r.out
    BY <2>1, FailGood
  <2>4. Good(GetBuffer(r, n), b) /\ GetBuffer(r, n).out = r.out /\ GetBuffer(r, n).rc # "OK"
    BY <2>1, <2>2, <2>3
  <2>5. QED BY <2>4
<1>3. QED BY <1>1, <1>2

LEMMA LenencGood ==
  ASSUME NEW r, NEW b, Good(r, b)
  PROVE  /\ Good(GetLenenc(r), b) /\ GetLenenc(r).out = r.out
         /\ GetLenenc(r).rc = "OK" => GetLenenc(r).val \in Nat
<1> DEFINE s == GetInt(r, 1)
<1>1. Good(s, b) /\ s.out = r.out /\ (s.rc = "OK" => s.val \in Nat)
  BY IntGood
<1>2. GetLenenc(r) = AfterLeader(s)
  BY DEF GetLenenc
<1> HIDE DEF s
<1>3. CASE s.rc # "OK" \/ s.val < NullLeader
  <2>1. AfterLeader(s) = s
    BY <1>3 DEF AfterLeader
  <2>2. QED BY <1>1, <1>2, <2>1
<1>4. CASE ~(s.rc # "OK" \/ s.val < NullLeader) /\ s.val = NullLeader
  <2>1. NullLeader \notin {Leader16, Leader24, Leader64}
    BY RadixFacts DEF NullLeader, Leader16, Leader24, Leader64
  <2>2. AfterLeader(s) = Fail(s, "NULL_VALUE")
    BY <1>4, <2>1 DEF AfterLeader
  <2>3. QED BY <1>1, <1>2, <2>2, FailGood
<1>5. CASE ~(s.rc # "OK" \/ s.val < NullLeader) /\ s.val # NullLeader
  <2>1. AfterLeader(s) \in {GetInt(s, 2), GetInt(s, 3), GetInt(s, 8), Fail(s, "PROTOCOL_VIOLATION")}
    BY <1>5 DEF AfterLeader
  <2>2. 2 \in Nat /\ 3 \in Nat /\ 8 \in Nat
    OBVIOUS
  <2>3. QED BY <1>1, <1>2, <2>1, <2>2, IntGood, FailGood
<1>6. QED BY <1>3, <1>4, <1>5

LEMMA LenencBufferGood ==
  ASSUME NEW r, NEW b, Good(r, b)
  PROVE  /\ Good(GetLenencBuffer(r), b) /\ GetLenencBuffer(r).out = r.out
         /\ GetLenencBuffer(r).rc = "OK" => GetLenencBuffer(r).val \in Seq(Nat)
<1> DEFINE s == GetLenenc(r)
<1>1. Good(s, b) /\ s.out = r.out /\ (s.rc = "OK" => s.val \in Nat)
  BY LenencGood
<1>2. GetLenencBuffer(r) = AfterLength(s)
  BY DEF GetLenencBuffer
<1> HIDE DEF s
<1>3. CASE s.rc # "OK"
  <2>1. AfterLength(s) = s
    BY <1>3 DEF AfterLength
  <2>2. QED BY <1>1, <1>2, <1>3, <2>1
<1>4. CASE s.rc = "OK" /\ s.val > Left(s)
  <2>1. AfterLength(s) = Fail(s, "TRUNCATED_PACKET")
    BY <1>4 DEF AfterLength
  <2>2. QED BY <1>1, <1>2, <2>1, FailGood
<1>5. CASE s.rc = "OK" /\ ~(s.val > Left(s))
  <2>1. AfterLength(s) = GetBuffer(s, s.val)
    BY <1>5 DEF AfterLength
  <2>2. QED BY <1>1, <1>2, <1>5, <2>1, BufferGood
<1>6. QED BY <1>3, <1>4, <1>5

\* A set of numbers has a least one.
LEMMA MinFacts ==
  ASSUME NEW S, S \subseteq Nat, S # {}
  PROVE  Min(S) \in S
  BY Least DEF Min

LEMMA StringGood ==
  ASSUME NEW r, NEW b, Good(r, b)
  PROVE  Good(GetString(r), b) /\ GetString(r).out = r.out
<1> DEFINE nuls == {i \in 1..Left(r) : r.buff[r.pos + i] = 0}
           len == Min(nuls) - 1
<1>1. CASE nuls = {}
  <2>1. GetString(r) = Fail(r, "TRUNCATED_PACKET")
    BY <1>1 DEF GetString
  <2>2. QED BY <2>1, FailGood
<1>2. CASE nuls # {}
  <2>1. Left(r) \in Nat
    BY SafeFacts
  <2>2. Min(nuls) \in nuls
    <3>1. nuls \subseteq Nat
      BY <2>1
    <3> HIDE DEF nuls
    <3>2. QED BY <1>2, <3>1, MinFacts
  <2>3. Min(nuls) \in 1..Left(r)
    BY <2>2
  <2>4. len + 1 \in Nat /\ len + 1 <= Left(r)
    <3> HIDE DEF nuls
    <3>1. QED BY <2>1, <2>3
  <2>5. GetString(r) = Moved(r, len + 1, Peek(r, len))
    BY <1>2 DEF GetString
  <2> HIDE DEF len
  <2>6. Check(r, len + 1)
    BY <2>4 DEF Check
  <2>7. QED BY <2>4, <2>5, <2>6, MovedGood
<1>3. QED BY <1>1, <1>2

LEMMA EofBufferGood ==
  ASSUME NEW r, NEW b, Good(r, b)
  PROVE  Good(GetEofBuffer(r), b) /\ GetEofBuffer(r).out = r.out
<1>1. Left(r) \in Nat
  BY SafeFacts
<1>2. Check(r, Left(r))
  BY <1>1 DEF Check
<1>3. QED BY <1>1, <1>2, MovedGood DEF GetEofBuffer

LEMMA FinishGood ==
  ASSUME NEW r, NEW b, Good(r, b)
  PROVE  Good(Finish(r), b) /\ Finish(r).out = r.out
<1>1. Finish(r) = r \/ Finish(r) = Fail(r, "EXTRA_DATA_IN_PACKET")
  BY DEF Finish
<1>2. QED BY <1>1, FailGood

-----------------------------------------------------------------------------
(* What a parser is made of.                                                 *)

\* Calls that store under the given names.
Calls(names) ==
  [get : {"int", "buffer", "lenenc", "lenenc_buffer", "string", "eof_buffer"}, width : Nat, field : names]

LEMMA UIntCall ==
  ASSUME NEW names, NEW n \in Nat, NEW field \in names
  PROVE  UInt(n, field) \in Calls(names)
  BY DEF Calls, UInt

LEMMA BufferCall ==
  ASSUME NEW names, NEW n \in Nat, NEW field \in names
  PROVE  Buffer(n, field) \in Calls(names)
  BY DEF Calls, Buffer

LEMMA LenencCall ==
  ASSUME NEW names, NEW field \in names
  PROVE  Lenenc(field) \in Calls(names)
  BY DEF Calls, Lenenc

LEMMA LenencBufferCall ==
  ASSUME NEW names, NEW field \in names
  PROVE  LenencBuffer(field) \in Calls(names)
  BY DEF Calls, LenencBuffer

LEMMA StringCall ==
  ASSUME NEW names, NEW field \in names
  PROVE  String(field) \in Calls(names)
  BY DEF Calls, String

LEMMA EofBufferCall ==
  ASSUME NEW names, NEW field \in names
  PROVE  EofBuffer(field) \in Calls(names)
  BY DEF Calls, EofBuffer

LEMMA CallGood ==
  ASSUME NEW r, NEW b, NEW names, NEW c \in Calls(names), Good(r, b)
  PROVE  /\ Good(Call(r, c), b) /\ Call(r, c).out = r.out
         /\ Call(r, c).rc = "OK" /\ c.get \in {"buffer", "lenenc_buffer"} => Call(r, c).val \in Seq(Nat)
         /\ Call(r, c).rc = "OK" /\ c.get = "buffer" => Len(Call(r, c).val) = c.width
<1>1. c.width \in Nat /\ c.get \in {"int", "buffer", "lenenc", "lenenc_buffer", "string", "eof_buffer"}
  BY DEF Calls
<1>2. CASE c.get = "int"
  <2>1. Call(r, c) = GetInt(r, c.width)
    BY <1>2 DEF Call
  <2>2. QED BY <1>1, <1>2, <2>1, IntGood
<1>3. CASE c.get = "buffer"
  <2>1. Call(r, c) = GetBuffer(r, c.width)
    BY <1>3 DEF Call
  <2>2. QED BY <1>1, <2>1, BufferGood
<1>4. CASE c.get = "lenenc"
  <2>1. Call(r, c) = GetLenenc(r)
    BY <1>4 DEF Call
  <2>2. QED BY <1>4, <2>1, LenencGood
<1>5. CASE c.get = "lenenc_buffer"
  <2>1. Call(r, c) = GetLenencBuffer(r)
    BY <1>5 DEF Call
  <2>2. QED BY <1>5, <2>1, LenencBufferGood
<1>6. CASE c.get = "string"
  <2>1. Call(r, c) = GetString(r)
    BY <1>6 DEF Call
  <2>2. QED BY <1>6, <2>1, StringGood
<1>7. CASE c.get = "eof_buffer"
  <2>1. Call(r, c) = GetEofBuffer(r)
    BY <1>7 DEF Call
  <2>2. QED BY <1>7, <2>1, EofBufferGood
<1>8. QED BY <1>1, <1>2, <1>3, <1>4, <1>5, <1>6, <1>7

LEMMA ReadGood ==
  ASSUME NEW r, NEW names, NEW c \in Calls(names), Good(r, <<>>)
  PROVE  Good(Read(r, c), <<>>)
<1>1. CASE r.rc = "OK"
  <2> DEFINE s == Call(r, c)
  <2>1. Good(s, <<>>)
    BY CallGood
  <2>2. Read(r, c) = Stored(s, c.field)
    BY <1>1 DEF Read
  <2> HIDE DEF s
  <2>3. Stored(s, c.field) = s \/ Stored(s, c.field) = Store(s, c.field, s.val)
    BY DEF Stored
  <2>4. QED BY <2>1, <2>2, <2>3, StoreGood
<1>2. CASE r.rc # "OK"
  BY <1>2 DEF Read
<1>3. QED BY <1>1, <1>2

\* A buffer is stored as bytes, as many as were asked for.
LEMMA ReadBuffer ==
  ASSUME NEW r, NEW n \in Nat, NEW field, field # "skip", Good(r, <<>>), Read(r, Buffer(n, field)).rc = "OK"
  PROVE  LET t == Read(r, Buffer(n, field)) IN
         field \in DOMAIN t.out /\ t.out[field] \in Seq(Nat) /\ Len(t.out[field]) = n
<1> DEFINE s == GetBuffer(r, n)
           t == Read(r, Buffer(n, field))
<1>1. r.rc = "OK"
  BY DEF Read
<1>2. t = Stored(s, field)
  BY <1>1 DEF Read, Call, Buffer
<1>3. Good(s, <<>>)
  BY BufferGood
<1>4. s.rc = "OK" => s.val \in Seq(Nat) /\ Len(s.val) = n
  BY BufferGood
<1> HIDE DEF s
<1>5. s.rc = "OK"
  BY <1>2 DEF Stored
<1>6. t = Store(s, field, s.val)
  BY <1>2, <1>5 DEF Stored
<1> HIDE DEF t
<1>7. field \in DOMAIN t.out /\ t.out[field] = s.val
  BY <1>3, <1>6, StoredValue
<1>8. field \in DOMAIN t.out /\ t.out[field] \in Seq(Nat) /\ Len(t.out[field]) = n
  BY <1>4, <1>5, <1>7
<1>9. QED BY <1>8 DEF t

LEMMA ReadLenencBuffer ==
  ASSUME NEW r, NEW field, field # "skip", Good(r, <<>>), Read(r, LenencBuffer(field)).rc = "OK"
  PROVE  LET t == Read(r, LenencBuffer(field)) IN
         field \in DOMAIN t.out /\ t.out[field] \in Seq(Nat)
<1> DEFINE s == GetLenencBuffer(r)
           t == Read(r, LenencBuffer(field))
<1>1. r.rc = "OK"
  BY DEF Read
<1>2. t = Stored(s, field)
  BY <1>1 DEF Read, Call, LenencBuffer
<1>3. Good(s, <<>>)
  BY LenencBufferGood
<1>4. s.rc = "OK" => s.val \in Seq(Nat)
  BY LenencBufferGood
<1> HIDE DEF s
<1>5. s.rc = "OK"
  BY <1>2 DEF Stored
<1>6. t = Store(s, field, s.val)
  BY <1>2, <1>5 DEF Stored
<1> HIDE DEF t
<1>7. field \in DOMAIN t.out /\ t.out[field] = s.val
  BY <1>3, <1>6, StoredValue
<1>8. field \in DOMAIN t.out /\ t.out[field] \in Seq(Nat)
  BY <1>4, <1>5, <1>7
<1>9. QED BY <1>8 DEF t

\* The function inside Fields.
FieldRuns(f, calls, r, n) ==
  f = [i \in 0..n |-> IF i = 0 THEN r ELSE LET s == f[i - 1] IN IF s.rc = "OK" THEN Read(s, calls[i]) ELSE s]

\* Reading one value after the other: the last of them is read from a good reader.
LEMMA FieldsGood ==
  ASSUME NEW r, NEW names, NEW calls \in Seq(Calls(names)), Good(r, <<>>)
  PROVE  /\ Good(Fields(r, calls), <<>>)
         /\ calls # <<>> => \E s : Good(s, <<>>) /\ Fields(r, calls) = Read(s, calls[Len(calls)])
<1> DEFINE n == Len(calls)
           f == CHOOSE g : FieldRuns(g, calls, r, n)
<1>1. n \in Nat
  OBVIOUS
<1>2. \E g : FieldRuns(g, calls, r, n)
  <2>1. PICK g : Runs(g, "fields", calls, r, n)
    BY <1>1, RunsExists
  <2>2. FieldRuns(g, calls, r, n)
    BY <2>1 DEF Runs, Round, Body, FieldRuns
  <2>3. QED BY <2>2
<1>3. FieldRuns(f, calls, r, n)
  BY <1>2
<1>4. Fields(r, calls) = f[n]
  BY DEF Fields, Rounds, FieldRuns
<1> HIDE DEF f
<1>5. Runs(f, "fields", calls, r, n)
  BY <1>3 DEF Runs, Round, Body, FieldRuns
<1>6. ASSUME NEW s, NEW i \in 1..n, Good(s, <<>>), s.rc = "OK"
      PROVE  Good(Body("fields", calls, s, i), <<>>)
  <2>1. calls[i] \in Calls(names)
    OBVIOUS
  <2>2. QED BY <1>6, <2>1, ReadGood DEF Body
<1>7. \A i \in 0..n : Good(f[i], <<>>)
  <2> HIDE DEF n
  <2>1. QED BY <1>1, <1>5, <1>6, RunsGood
<1>8. ASSUME calls # <<>> PROVE \E s : Good(s, <<>>) /\ Fields(r, calls) = Read(s, calls[n])
  <2>1. n # 0
    BY <1>8, EmptySeq
  <2> HIDE DEF n
  <2>2. n \in 0..n /\ n - 1 \in 0..n
    BY <1>1, <2>1
  <2>3. f[n] = IF f[n - 1].rc = "OK" THEN Read(f[n - 1], calls[n]) ELSE f[n - 1]
    BY <1>3, <2>1, <2>2 DEF FieldRuns
  <2>4. f[n] = Read(f[n - 1], calls[n])
    BY <2>3 DEF Read
  <2>5. QED BY <1>4, <1>7, <2>2, <2>4
<1>9. n \in 0..n
  BY <1>1
<1>10. QED BY <1>4, <1>7, <1>8, <1>9

\* Calls one after the other, and none.
LEMMA CallsFacts ==
  ASSUME NEW names, NEW a \in Seq(Calls(names)), NEW d \in Seq(Calls(names))
  PROVE  a \o d \in Seq(Calls(names)) /\ <<>> \in Seq(Calls(names))
  OBVIOUS

\* A single call on a good reader.
LEMMA UIntGood ==
  ASSUME NEW r, NEW n \in Nat, NEW field, Good(r, <<>>)
  PROVE  Good(Read(r, UInt(n, field)), <<>>)
  BY UIntCall, ReadGood

LEMMA OtherGood ==
  ASSUME NEW r, NEW field, Good(r, <<>>)
  PROVE  /\ Good(Read(r, Lenenc(field)), <<>>) /\ Good(Read(r, LenencBuffer(field)), <<>>)
         /\ Good(Read(r, String(field)), <<>>) /\ Good(Read(r, EofBuffer(field)), <<>>)
  BY LenencCall, LenencBufferCall, StringCall, EofBufferCall, ReadGood

-----------------------------------------------------------------------------
(* The parsers of protocol.c, one lemma each: whatever the bytes are, the    *)
(* reader they end with is safe.                                             *)

LEMMA ErrPacketGood ==
  ASSUME NEW buff \in Seq(Nat), NEW caps
  PROVE  Good(ParseErr(buff, caps), <<>>)
<1> DEFINE names == {"skip", "error_code", "sql_state_marker", "sql_state", "error_message"}
           C == Calls(names)
           first == <<UInt(1, "skip"), UInt(2, "error_code")>>
           state == <<UInt(1, "sql_state_marker"), Buffer(StateLen, "sql_state")>>
           tail == <<EofBuffer("error_message")>>
           calls == first \o (IF "PROTOCOL_41" \in caps THEN state ELSE <<>>) \o tail
           r == Open(buff, [sql_state_marker |-> 0, sql_state |-> [i \in 1..StateLen |-> 0]])
<1>1. StateLen \in Nat
  BY ProtocolAssumption
<1>2. first \in Seq(C) /\ state \in Seq(C) /\ tail \in Seq(C)
  <2>1. /\ "skip" \in names /\ "error_code" \in names /\ "sql_state_marker" \in names
        /\ "sql_state" \in names /\ "error_message" \in names
    OBVIOUS
  <2> HIDE DEF names
  <2>2. UInt(1, "skip") \in C /\ UInt(2, "error_code") \in C /\ UInt(1, "sql_state_marker") \in C
    BY <2>1, UIntCall
  <2>3. Buffer(StateLen, "sql_state") \in C /\ EofBuffer("error_message") \in C
    BY <1>1, <2>1, BufferCall, EofBufferCall
  <2> HIDE DEF C
  <2>4. QED BY <2>2, <2>3
<1>3. calls \in Seq(C)
  <2> HIDE DEF first, state, tail, names
  <2>1. QED BY <1>2, CallsFacts
<1>4. Good(r, <<>>)
  BY OpenGood
<1>5. ParseErr(buff, caps) = Finish(Fields(r, calls))
  BY DEF ParseErr
<1> HIDE DEF r, calls
<1>6. QED BY <1>3, <1>4, <1>5, FieldsGood, FinishGood

\* The function inside the loop over the changes.
ChangeRuns(f, r, n) ==
  f = [i \in 0..n |-> IF i = 0 THEN r
                      ELSE LET s == f[i - 1] IN IF s.rc = "OK" THEN IF Eof(s) THEN s ELSE StateChange(s) ELSE s]

RowRuns(f, r, n) ==
  f = [i \in 0..n |-> IF i = 0 THEN r ELSE LET s == f[i - 1] IN IF s.rc = "OK" THEN TextValue(s) ELSE s]

-----------------------------------------------------------------------------
(* Rows of the binary protocol.                                              *)

\* The types, by number.
LEMMA TypeFacts ==
  /\ StringTypes = {0, 15} /\ DateTypes = {7, 10, 12} /\ Type.TIME = 11
  /\ DOMAIN Width = {1, 2, 3, 4, 5, 8, 9, 13}
<1>1. /\ Type.DECIMAL = 0 /\ Type.VARCHAR = 15 /\ Type.DATE = 10 /\ Type.DATETIME = 12 /\ Type.TIMESTAMP = 7
      /\ Type.TIME = 11
  BY DEF Type
<1>2. StringTypes = {0, 15} /\ DateTypes = {7, 10, 12}
  BY <1>1 DEF StringTypes, DateTypes
<1>3. /\ Type["TINY"] = 1 /\ Type["SHORT"] = 2 /\ Type["YEAR"] = 13 /\ Type["LONG"] = 3
      /\ Type["INT24"] = 9 /\ Type["FLOAT"] = 4 /\ Type["LONGLONG"] = 8 /\ Type["DOUBLE"] = 5
  BY DEF Type
<1>4. DOMAIN Width = {1, 2, 3, 4, 5, 8, 9, 13}
  BY <1>3 DEF Width
<1>5. QED BY <1>1, <1>2, <1>4

LEMMA WidthFacts == \A type \in DOMAIN Width : Width[type] \in Nat
  BY DEF Width

-----------------------------------------------------------------------------
(* Folds. FoldLeft goes through the indices from the last one down; what it  *)
(* has for the first k of them makes a loop.                                 *)

\* The bit k of a row's null bitmap: bit in ServerStmtRow.
NullBit(values, n, k) == IF k - 2 \in 0..(n - 1) /\ values[k - 1].null THEN 2^(k % Bits) ELSE 0

\* A bit of a mask: the operator in Mask.
MaskBit(bits, b) == IF b \in bits THEN 2^b ELSE 0

Step(loop, x, s, i) ==
  CASE loop = "lex" -> LexChar(x.q, x.plain, s, x.str[i])
    [] loop = "escape" -> (IF x.plain
                           THEN EscapeRound(s, x.str, {"quote"}, LAMBDA c : <<"quote", "quote">>)
                           ELSE EscapeRound(s, x.str, DOMAIN Lookup, LAMBDA c : <<"backslash", Lookup[c]>>))
    [] loop = "nulls" -> s + NullBit(x.values, x.n, x.b * Bits + x.seq[i])
    [] loop = "mask" -> s + MaskBit(x.bits, x.seq[i])

\* g has the values of the fold on every set of indices.
Folding(g, loop, x, start, n) ==
  g = [S \in SUBSET (1..n) |-> IF S = {} THEN start ELSE Step(loop, x, g[S \ {Max(S)}], Max(S))]

LEMMA FoldExists ==
  ASSUME NEW loop, NEW x, NEW start, NEW n \in Nat
  PROVE  \E g : Folding(g, loop, x, start, n)
<1> DEFINE P == {m \in Nat : \E g : Folding(g, loop, x, start, m)}
<1>1. 0 \in P
  <2> DEFINE g == [S \in {{}} |-> start]
  <2>1. SUBSET (1..0) = {{}}
    OBVIOUS
  <2>2. g = [S \in {{}} |-> IF S = {} THEN start ELSE Step(loop, x, g[S \ {Max(S)}], Max(S))]
    OBVIOUS
  <2>3. Folding(g, loop, x, start, 0)
    BY <2>1, <2>2 DEF Folding
  <2>4. QED BY <2>3
<1>2. ASSUME NEW m \in Nat, m \in P PROVE m + 1 \in P
  <2>1. PICK f : Folding(f, loop, x, start, m)
    BY <1>2
  <2> DEFINE g == [S \in SUBSET (1..(m + 1)) |->
                     IF S \subseteq 1..m THEN f[S] ELSE Step(loop, x, f[S \ {m + 1}], m + 1)]
             h == [S \in SUBSET (1..(m + 1)) |->
                     IF S = {} THEN start ELSE Step(loop, x, g[S \ {Max(S)}], Max(S))]
  <2>2. \A S \in SUBSET (1..m) : f[S] = IF S = {} THEN start ELSE Step(loop, x, f[S \ {Max(S)}], Max(S))
    BY <2>1 DEF Folding
  <2>3. ASSUME NEW S \in SUBSET (1..(m + 1)) PROVE g[S] = h[S]
    <3>1. CASE S \subseteq 1..m
      <4> DEFINE T == S \ {Max(S)}
      <4>1. T \in SUBSET (1..m) /\ T \in SUBSET (1..(m + 1)) /\ S \in SUBSET (1..m)
        BY <3>1
      <4>2. g[S] = f[S] /\ g[T] = f[T]
        BY <3>1, <4>1
      <4>3. h[S] = IF S = {} THEN start ELSE Step(loop, x, g[T], Max(S))
        OBVIOUS
      <4>4. f[S] = IF S = {} THEN start ELSE Step(loop, x, f[T], Max(S))
        BY <2>2, <4>1
      <4> HIDE DEF g, h, T
      <4>5. QED BY <4>2, <4>3, <4>4
    <3>2. CASE ~(S \subseteq 1..m)
      <4>1. m + 1 \in S /\ S # {} /\ S \ {m + 1} \in SUBSET (1..m) /\ S \ {m + 1} \in SUBSET (1..(m + 1))
        BY <3>2
      <4>2. Max(S) = m + 1
        <5>1. \A y \in S : m + 1 >= y
          OBVIOUS
        <5>2. \A z \in S : (\A y \in S : z >= y) => z = m + 1
          BY <4>1
        <5>3. QED BY <4>1, <5>1, <5>2 DEF Max
      <4> DEFINE T == S \ {m + 1}
      <4>3. g[S] = Step(loop, x, f[T], m + 1)
        BY <3>2
      <4>4. g[T] = f[T]
        BY <4>1
      <4>5. h[S] = Step(loop, x, g[T], m + 1)
        BY <4>1, <4>2
      <4> HIDE DEF g, h, T
      <4>6. QED BY <4>3, <4>4, <4>5
    <3>3. QED BY <3>1, <3>2
  <2>4. g = h
    <3>1. DOMAIN g = SUBSET (1..(m + 1)) /\ g = [S \in DOMAIN g |-> g[S]]
      OBVIOUS
    <3>2. DOMAIN h = SUBSET (1..(m + 1)) /\ h = [S \in DOMAIN h |-> h[S]]
      OBVIOUS
    <3> HIDE DEF g, h
    <3>3. QED BY <2>3, <3>1, <3>2
  <2>5. Folding(g, loop, x, start, m + 1)
    <3> HIDE DEF g
    <3>1. QED BY <2>4 DEF Folding
  <2> HIDE DEF g
  <2>6. QED BY <2>5
<1>3. Nat \subseteq P
  <2> HIDE DEF P
  <2>1. QED BY <1>1, <1>2, SetInduction
<1>4. QED BY <1>3

\* On the first k indices it is a loop.
LEMMA FoldSteps ==
  ASSUME NEW g, NEW loop, NEW x, NEW start, NEW n \in Nat, Folding(g, loop, x, start, n)
  PROVE  g[1..0] = start /\ \A k \in 0..(n - 1) : g[1..(k + 1)] = Step(loop, x, g[1..k], k + 1)
<1>1. \A S \in SUBSET (1..n) : g[S] = IF S = {} THEN start ELSE Step(loop, x, g[S \ {Max(S)}], Max(S))
  BY DEF Folding
<1>2. 1..0 = {} /\ {} \in SUBSET (1..n)
  OBVIOUS
<1>3. ASSUME NEW k \in 0..(n - 1) PROVE g[1..(k + 1)] = Step(loop, x, g[1..k], k + 1)
  <2> DEFINE S == 1..(k + 1)
  <2>1. S \in SUBSET (1..n) /\ S # {} /\ k + 1 \in S
    OBVIOUS
  <2>2. Max(S) = k + 1
    <3>1. \A y \in S : k + 1 >= y
      OBVIOUS
    <3>2. \A z \in S : (\A y \in S : z >= y) => z = k + 1
      BY <2>1
    <3>3. QED BY <2>1, <3>1, <3>2 DEF Max
  <2>3. S \ {k + 1} = 1..k
    OBVIOUS
  <2> HIDE DEF S
  <2>4. g[S] = Step(loop, x, g[S \ {Max(S)}], Max(S))
    BY <1>1, <2>1
  <2>5. g[S] = Step(loop, x, g[1..k], k + 1)
    BY <2>2, <2>3, <2>4
  <2>6. QED BY <2>5 DEF S
<1>4. QED BY <1>1, <1>2, <1>3

\* The two folds of the literal are such loops.
LexStart == [text |-> <<>>, after |-> "none", ended |-> FALSE, broken |-> FALSE]

LexStates(g, q, plain, str, n) ==
  g = [S \in SUBSET (1..n) |->
         IF S = {} THEN LexStart ELSE LexChar(q, plain, g[S \ {Max(S)}], str[Max(S)])]

LEMMA LexedFold ==
  ASSUME NEW q, NEW plain, NEW str, NEW n \in Nat, DOMAIN str = 1..n
  PROVE  \E g : /\ Folding(g, "lex", [q |-> q, plain |-> plain, str |-> str],
                           [text |-> <<>>, after |-> "none", ended |-> FALSE, broken |-> FALSE], n)
                /\ Lexed(q, plain, str) = [text |-> g[1..n].text, whole |-> ~g[1..n].broken /\ g[1..n].after = "none"]
<1> DEFINE x == [q |-> q, plain |-> plain, str |-> str]
           g == CHOOSE f : LexStates(f, q, plain, str, n)
<1>1. ASSUME NEW s, NEW i
      PROVE  Step("lex", x, s, i) = LexChar(q, plain, s, str[i])
  BY DEF Step
<1>2. ASSUME NEW f PROVE Folding(f, "lex", x, LexStart, n) <=> LexStates(f, q, plain, str, n)
  <2> DEFINE D == SUBSET (1..n)
             A(S) == IF S = {} THEN LexStart ELSE Step("lex", x, f[S \ {Max(S)}], Max(S))
             B(S) == IF S = {} THEN LexStart ELSE LexChar(q, plain, f[S \ {Max(S)}], str[Max(S)])
  <2> HIDE DEF x
  <2>1. \A S \in D : A(S) = B(S)
    BY <1>1
  <2>2. (Folding(f, "lex", x, LexStart, n) <=> f = [S \in D |-> A(S)]) /\ (LexStates(f, q, plain, str, n) <=> f = [S \in D |-> B(S)])
    BY Zenon DEF Folding, LexStates
  <2> HIDE DEF A, B, D
  <2>3. ASSUME f = [S \in D |-> A(S)] PROVE f = [S \in D |-> B(S)]
    BY <2>1, <2>3
  <2>4. ASSUME f = [S \in D |-> B(S)] PROVE f = [S \in D |-> A(S)]
    BY <2>1, <2>4
  <2>5. QED BY <2>2, <2>3, <2>4
<1>3. \E f : LexStates(f, q, plain, str, n)
  <2> HIDE DEF x
  <2>1. \E f : Folding(f, "lex", x, LexStart, n)
    BY FoldExists
  <2>2. QED BY <1>2, <2>1
<1>4. LexStates(g, q, plain, str, n)
  BY <1>3
<1>5. Lexed(q, plain, str) = [text |-> g[1..n].text, whole |-> ~g[1..n].broken /\ g[1..n].after = "none"]
  BY DEF Lexed, FoldLeft, MapThenFoldSet, LexStates, LexStart
<1> HIDE DEF g, x
<1>6. Folding(g, "lex", x, LexStart, n)
  BY <1>2, <1>4
<1>7. QED BY <1>5, <1>6 DEF x, LexStart

LEMMA EscapedFold ==
  ASSUME NEW str \in Seq(Chars), NEW plain
  PROVE  \E g : /\ Folding(g, "escape", [plain |-> plain, str |-> str], [cursor |-> 1, b |-> <<>>], Len(str))
                /\ Escaped(str, plain) = g[1..Len(str)].b
<1> DEFINE n == Len(str)
           start == [cursor |-> 1, b |-> <<>>]
           x == [plain |-> plain, str |-> str]
           G(g) == Folding(g, "escape", x, start, n)
           g == CHOOSE f : G(f)
           seq == [i \in 1..Len(str) |-> i]
<1>1. n \in Nat
  OBVIOUS
<1>2. G(g)
  BY <1>1, FoldExists
<1>3. DOMAIN seq = 1..n
  OBVIOUS
<1>4. Escaped(str, plain) = g[1..n].b
  BY ZenonT(60), <1>3 DEF Escaped, FoldLeft, MapThenFoldSet, Folding, Step
<1> HIDE DEF g
<1>5. QED BY <1>2, <1>4

-----------------------------------------------------------------------------
(* A number, and its digits.                                                 *)

\* The function inside Digits: what is left of n behind the first i digits.
Divides(f, n, width) == f = [i \in 0..width |-> IF i = 0 THEN n ELSE f[i - 1] \div Radix]

LEMMA DigitsFacts ==
  ASSUME NEW n \in Nat, NEW width \in Nat
  PROVE  \E f \in [0..width -> Nat] :
           /\ f[0] = n /\ \A i \in 1..width : f[i] = f[i - 1] \div Radix /\ f[i] <= f[i - 1]
           /\ Digits(n, width) \in Seq(Byte) /\ Digits(n, width) \in Seq(Nat) /\ Len(Digits(n, width)) = width
           /\ \A i \in 1..width : Digits(n, width)[i] = f[i - 1] % Radix
<1> DEFINE f == CHOOSE g : Divides(g, n, width)
<1>1. \E g : Divides(g, n, width)
  <2>1. PICK g : Runs(g, "digits", <<>>, n, width)
    BY RunsExists
  <2>2. Divides(g, n, width)
    BY <2>1 DEF Runs, Round, Divides
  <2>3. QED BY <2>2
<1>2. Divides(f, n, width)
  BY <1>1
<1>3. Digits(n, width) = [i \in 1..width |-> f[i - 1] % Radix]
  BY DEF Digits, Divides
<1> HIDE DEF f
<1>4. \A i \in 0..width : f[i] = IF i = 0 THEN n ELSE f[i - 1] \div Radix
  BY <1>2 DEF Divides
<1> DEFINE P == {m \in Nat : m <= width => f[m] \in Nat}
<1>5. 0 \in P
  BY <1>4
<1>6. ASSUME NEW m \in Nat, m \in P PROVE m + 1 \in P
  <2> SUFFICES ASSUME m + 1 <= width PROVE f[m + 1] \in Nat
    OBVIOUS
  <2>1. m + 1 \in 0..width /\ (m + 1) - 1 = m /\ m + 1 # 0 /\ m <= width
    OBVIOUS
  <2>2. f[m + 1] = f[m] \div Radix /\ f[m] \in Nat
    BY <1>4, <1>6, <2>1
  <2>3. QED BY <2>2, RadixFacts, Quotient
<1>7. Nat \subseteq P
  <2> HIDE DEF P
  <2>1. QED BY <1>5, <1>6, SetInduction
<1>8. \A i \in 0..width : f[i] \in Nat
  BY <1>7
<1>9. ASSUME NEW i \in 1..width
      PROVE  f[i] = f[i - 1] \div Radix /\ f[i] <= f[i - 1] /\ f[i - 1] % Radix \in Byte /\ f[i - 1] % Radix \in Nat
  <2>1. i \in 0..width /\ i - 1 \in 0..width /\ i # 0
    OBVIOUS
  <2>2. f[i] = f[i - 1] \div Radix /\ f[i - 1] \in Nat /\ f[i] \in Nat
    BY <1>4, <1>8, <2>1
  <2> DEFINE a == f[i - 1]
             d == a \div Radix
  <2>3. a \in Nat /\ d \in Nat /\ d * Radix <= a
    BY <2>2, RadixFacts, Quotient
  <2>4. d <= a
    <3> HIDE DEF d, a
    <3>1. d * Radix = d + d * (Radix - 1) /\ d * (Radix - 1) \in Nat
      BY <2>3, RadixFacts
    <3>2. QED BY <2>3, <3>1, RadixFacts
  <2>5. a % Radix \in Nat /\ a % Radix < Radix
    BY <2>3, RadixFacts
  <2>6. a % Radix \in Byte
    BY <2>5, RadixFacts DEF Byte
  <2>7. QED BY <2>2, <2>4, <2>5, <2>6
<1>10. f \in [0..width -> Nat] /\ f[0] = n
  <2>1. DOMAIN f = 0..width /\ f = [i \in DOMAIN f |-> f[i]]
    BY <1>2 DEF Divides
  <2>2. f[0] = n
    BY <1>4
  <2>3. QED BY <1>8, <2>1, <2>2
<1>11. /\ Digits(n, width) \in Seq(Byte) /\ Digits(n, width) \in Seq(Nat) /\ Len(Digits(n, width)) = width
       /\ \A i \in 1..width : Digits(n, width)[i] = f[i - 1] % Radix
  <2> DEFINE e(i) == f[i - 1] % Radix
  <2>1. \A i \in 1..width : e(i) \in Byte /\ e(i) \in Nat
    BY <1>9
  <2>2. Digits(n, width) = [i \in 1..width |-> e(i)]
    BY <1>3
  <2> HIDE DEF e
  <2>3. /\ Digits(n, width) \in Seq(Byte) /\ Digits(n, width) \in Seq(Nat) /\ Len(Digits(n, width)) = width
        /\ \A i \in 1..width : Digits(n, width)[i] = e(i)
    BY <2>1, <2>2
  <2>4. QED BY <2>3 DEF e
<1>12. QED BY <1>9, <1>10, <1>11

\* n has no more digits than width.
Fits(n, width) == \E f \in [0..width -> Nat] : f[0] = n /\ (\A i \in 1..width : f[i] = f[i - 1] \div Radix) /\ f[width] = 0

\* n is not cut to Huge.
Small(n) == n \in Nat /\ n \div Radix < Huge \div Radix

\* A number that fits is read back from its digits.
LEMMA NumberDigits ==
  ASSUME NEW n \in Nat, NEW width \in Nat \ {0}, Fits(n, width), Small(n)
  PROVE  Number(Digits(n, width)) = n
<1> DEFINE bytes == Digits(n, width)
<1>1. PICK f \in [0..width -> Nat] :
        /\ f[0] = n /\ \A i \in 1..width : f[i] = f[i - 1] \div Radix /\ f[i] <= f[i - 1]
        /\ bytes \in Seq(Byte) /\ bytes \in Seq(Nat) /\ Len(bytes) = width
        /\ \A i \in 1..width : bytes[i] = f[i - 1] % Radix
  BY DigitsFacts
<1> DEFINE g == CHOOSE h : Counts(h, bytes)
<1>2. \E h : Counts(h, bytes)
  <2>1. PICK h : Runs(h, "number", bytes, 0, Len(bytes))
    BY <1>1, RunsExists
  <2>2. Counts(h, bytes)
    BY <2>1 DEF Runs, Round, Counts
  <2>3. QED BY <2>2
<1>3. Counts(g, bytes)
  BY <1>2
<1>4. Number(bytes) = g[Len(bytes)]
  BY DEF Number, Counts
<1> HIDE DEF g, bytes
<1>5. \A k \in 0..width : g[k] = IF k = 0 THEN 0
                             ELSE IF g[k - 1] >= Huge \div Radix THEN Huge ELSE bytes[width + 1 - k] + Radix * g[k - 1]
  BY <1>1, <1>3 DEF Counts
<1>6. f[width] = 0
  <2>1. PICK h \in [0..width -> Nat] : h[0] = n /\ (\A i \in 1..width : h[i] = h[i - 1] \div Radix) /\ h[width] = 0
    BY DEF Fits
  <2> DEFINE P == {m \in Nat : m <= width => h[m] = f[m]}
  <2>2. 0 \in P
    BY <1>1, <2>1
  <2>3. ASSUME NEW m \in Nat, m \in P PROVE m + 1 \in P
    <3> SUFFICES ASSUME m + 1 <= width PROVE h[m + 1] = f[m + 1]
      OBVIOUS
    <3>1. m + 1 \in 1..width /\ (m + 1) - 1 = m /\ m <= width
      OBVIOUS
    <3>2. h[m] = f[m]
      BY <2>3, <3>1
    <3>3. h[m + 1] = h[m] \div Radix /\ f[m + 1] = f[m] \div Radix
      BY <1>1, <2>1, <3>1
    <3>4. QED BY <3>2, <3>3
  <2>4. Nat \subseteq P
    <3> HIDE DEF P
    <3>1. QED BY <2>2, <2>3, SetInduction
  <2>5. QED BY <2>1, <2>4
<1> DEFINE S == {m \in Nat : m + 1 <= width => f[m + 1] <= f[1]}
<1>7. \A i \in 1..width : f[i] <= f[1]
  <2>1. 0 \in S
    BY <1>1
  <2>2. ASSUME NEW m \in Nat, m \in S PROVE m + 1 \in S
    <3> SUFFICES ASSUME (m + 1) + 1 <= width PROVE f[(m + 1) + 1] <= f[1]
      OBVIOUS
    <3>1. (m + 1) + 1 \in 1..width /\ ((m + 1) + 1) - 1 = m + 1 /\ m + 1 <= width /\ m + 1 \in 0..width /\ 1 \in 0..width
          /\ (m + 1) + 1 \in 0..width
      OBVIOUS
    <3>2. f[m + 1] <= f[1] /\ f[(m + 1) + 1] <= f[m + 1]
      BY <1>1, <2>2, <3>1
    <3>3. f[m + 1] \in Nat /\ f[1] \in Nat /\ f[(m + 1) + 1] \in Nat
      BY <3>1
    <3>4. QED BY <3>2, <3>3
  <2>3. Nat \subseteq S
    <3> HIDE DEF S
    <3>1. QED BY <2>1, <2>2, SetInduction
  <2>4. \A i \in 1..width : i - 1 \in Nat /\ (i - 1) + 1 = i
    OBVIOUS
  <2>5. QED BY <2>3, <2>4
<1> DEFINE P == {m \in Nat : m <= width => g[m] = f[width - m]}
<1>8. 0 \in P
  BY <1>5, <1>6
<1>9. ASSUME NEW m \in Nat, m \in P PROVE m + 1 \in P
  <2> SUFFICES ASSUME m + 1 <= width PROVE g[m + 1] = f[width - (m + 1)]
    OBVIOUS
  <2>1. m + 1 \in 0..width /\ (m + 1) - 1 = m /\ m + 1 # 0 /\ m <= width /\ width + 1 - (m + 1) = width - m
        /\ width - m \in 1..width /\ (width - m) - 1 = width - (m + 1) /\ width - (m + 1) \in 0..width
        /\ width - m \in 0..width /\ 1 \in 0..width /\ 1 \in 1..width /\ 0 \in 0..width
    OBVIOUS
  <2>2. g[m + 1] = IF g[m] >= Huge \div Radix THEN Huge ELSE bytes[width - m] + Radix * g[m]
    BY <1>5, <2>1
  <2>3. g[m] = f[width - m]
    BY <1>9, <2>1
  <2>4. bytes[width - m] = f[width - (m + 1)] % Radix
    BY <1>1, <2>1
  <2>5. f[width - m] <= f[1] /\ f[width - m] = f[width - (m + 1)] \div Radix
    BY <1>1, <1>7, <2>1
  <2>6. f[1] = n \div Radix
    <3>1. f[1] = f[1 - 1] \div Radix
      BY <1>1, <2>1
    <3>2. 1 - 1 = 0
      OBVIOUS
    <3>3. QED BY <1>1, <3>1, <3>2
  <2> DEFINE a == f[width - (m + 1)]
             d == f[width - m]
  <2>7. a \in Nat /\ d \in Nat /\ f[1] \in Nat
    BY <2>1
  <2> HIDE DEF a, d
  <2>8. ~(d >= Huge \div Radix)
    BY <2>5, <2>6, <2>7, RadixFacts DEF Small, d
  <2>9. (a % Radix) + Radix * (a \div Radix) = a
    BY <2>7, RadixFacts
  <2>10. g[m + 1] = (a % Radix) + Radix * (a \div Radix)
    BY <2>2, <2>3, <2>4, <2>5, <2>8 DEF a, d
  <2>11. QED BY <2>9, <2>10 DEF a
<1>10. Nat \subseteq P
  <2> HIDE DEF P
  <2>1. QED BY <1>8, <1>9, SetInduction
<1>11. g[width] = f[width - width] /\ width - width = 0
  BY <1>10
<1>12. QED BY <1>1, <1>4, <1>11 DEF bytes

LEMMA Places ==
  /\ Radix^2 = Radix * Radix /\ Radix^3 = Radix * Radix^2 /\ Radix^2 \in Nat /\ Radix^3 \in Nat
  /\ Radix^2 < Huge \div Radix
<1>0. Bits \in {4, 5, 6, 7, 8} /\ Huge \in Nat /\ Huge >= 2^(3 * Bits + 1)
  BY ReaderAssumption
<1>1. CASE Bits = 4
  <2>1. Radix = 16 /\ Radix^2 = 256 /\ Radix^3 = 4096 /\ Huge >= 8192
    BY <1>0, <1>1, SMT DEF Radix
  <2>2. QED BY <1>0, <2>1, SMT
<1>2. CASE Bits = 5
  <2>1. Radix = 32 /\ Radix^2 = 1024 /\ Radix^3 = 32768 /\ Huge >= 65536
    BY <1>0, <1>2, SMT DEF Radix
  <2>2. QED BY <1>0, <2>1, SMT
<1>3. CASE Bits = 6
  <2>1. Radix = 64 /\ Radix^2 = 4096 /\ Radix^3 = 262144 /\ Huge >= 524288
    BY <1>0, <1>3, SMT DEF Radix
  <2>2. QED BY <1>0, <2>1, SMT
<1>4. CASE Bits = 7
  <2>1. Radix = 128 /\ Radix^2 = 16384 /\ Radix^3 = 2097152 /\ Huge >= 4194304
    BY <1>0, <1>4, SMT DEF Radix
  <2>2. QED BY <1>0, <2>1, SMT
<1>5. CASE Bits = 8
  <2>1. Radix = 256 /\ Radix^2 = 65536 /\ Radix^3 = 16777216 /\ Huge >= 33554432
    BY <1>0, <1>5, SMT DEF Radix
  <2>2. QED BY <1>0, <2>1, SMT
<1>6. QED BY <1>0, <1>1, <1>2, <1>3, <1>4, <1>5

\* Numbers that fit.
LEMMA FitsZero ==
  ASSUME NEW width \in Nat
  PROVE  Fits(0, width)
<1> DEFINE f == [i \in 0..width |-> 0]
<1>1. 0 \div Radix = 0
  BY RadixFacts
<1>2. f \in [0..width -> Nat] /\ f[0] = 0 /\ f[width] = 0 /\ \A i \in 1..width : f[i] = f[i - 1] \div Radix
  BY <1>1
<1> HIDE DEF f
<1>3. QED BY <1>2 DEF Fits

LEMMA FitsStep ==
  ASSUME NEW n \in Nat, NEW width \in Nat, Fits(n \div Radix, width)
  PROVE  Fits(n, width + 1)
<1>1. PICK f \in [0..width -> Nat] :
        f[0] = n \div Radix /\ (\A i \in 1..width : f[i] = f[i - 1] \div Radix) /\ f[width] = 0
  BY DEF Fits
<1> DEFINE g == [i \in 0..(width + 1) |-> IF i = 0 THEN n ELSE f[i - 1]]
<1>2. g \in [0..(width + 1) -> Nat] /\ g[0] = n /\ g[width + 1] = 0
  BY <1>1
<1>3. ASSUME NEW i \in 1..(width + 1) PROVE g[i] = g[i - 1] \div Radix
  <2>1. CASE i = 1
    BY <1>1, <2>1
  <2>2. CASE i # 1
    <3>1. i - 1 \in 1..width /\ i - 1 \in 0..(width + 1) /\ i - 1 # 0 /\ i \in 0..(width + 1) /\ i # 0
      BY <2>2
    <3>2. f[i - 1] = f[(i - 1) - 1] \div Radix
      BY <1>1, <3>1
    <3>3. g[i] = f[i - 1] /\ g[i - 1] = f[(i - 1) - 1]
      BY <3>1
    <3>4. QED BY <3>2, <3>3
  <2>3. QED BY <2>1, <2>2
<1> HIDE DEF g
<1>4. QED BY <1>2, <1>3 DEF Fits

LEMMA FitsMore ==
  ASSUME NEW n \in Nat, NEW width \in Nat, Fits(n, width)
  PROVE  Fits(n, width + 1)
<1>1. PICK f \in [0..width -> Nat] :
        f[0] = n /\ (\A i \in 1..width : f[i] = f[i - 1] \div Radix) /\ f[width] = 0
  BY DEF Fits
<1> DEFINE g == [i \in 0..(width + 1) |-> IF i <= width THEN f[i] ELSE 0]
<1>0. 0 \div Radix = 0
  BY RadixFacts
<1>2. g \in [0..(width + 1) -> Nat] /\ g[0] = n /\ g[width + 1] = 0
  BY <1>1
<1>3. ASSUME NEW i \in 1..(width + 1) PROVE g[i] = g[i - 1] \div Radix
  <2>1. CASE i <= width
    <3>1. i \in 1..width /\ i - 1 <= width /\ i - 1 \in 0..(width + 1) /\ i \in 0..(width + 1)
      BY <2>1
    <3>2. QED BY <1>1, <3>1
  <2>2. CASE i = width + 1
    <3>1. i - 1 = width /\ width \in 0..(width + 1) /\ i \in 0..(width + 1)
      BY <2>2
    <3>2. g[i - 1] = 0 /\ g[i] = 0
      BY <1>1, <2>2, <3>1
    <3>3. QED BY <1>0, <3>2
  <2>3. QED BY <2>1, <2>2
<1> HIDE DEF g
<1>4. QED BY <1>2, <1>3 DEF Fits

LEMMA FitsIn ==
  ASSUME NEW n \in Nat
  PROVE  /\ n < Radix => Fits(n, 1)
         /\ n < Radix^2 => Fits(n, 2)
         /\ n < Radix^3 => Fits(n, 3)
         /\ n <= Radix^3 => Fits(n, 4) /\ Fits(n, 8)
<1>0. \A k \in Nat : k \div Radix \in Nat
  BY RadixFacts, Quotient
<1>1. ASSUME NEW k \in Nat, k < Radix PROVE Fits(k, 1)
  <2>1. k \div Radix = 0
    BY <1>1, RadixFacts
  <2>2. Fits(k, 0 + 1)
    BY <2>1, FitsZero, FitsStep
  <2>3. QED BY <2>2
<1>2. ASSUME NEW k \in Nat, k < Radix^2 PROVE Fits(k, 2)
  <2>1. k \div Radix < Radix
    BY <1>2, RadixFacts, Places
  <2>2. Fits(k, 1 + 1)
    BY <1>0, <1>1, <2>1, FitsStep
  <2>3. QED BY <2>2
<1>3. ASSUME NEW k \in Nat, k < Radix^3 PROVE Fits(k, 3)
  <2>1. k \div Radix < Radix^2
    BY <1>3, RadixFacts, Places
  <2>2. Fits(k, 2 + 1)
    BY <1>0, <1>2, <2>1, FitsStep
  <2>3. QED BY <2>2
<1>4. ASSUME NEW k \in Nat, k <= Radix^3 PROVE Fits(k, 4)
  <2>1. k \div Radix <= Radix^2 /\ Radix^2 < Radix^3
    BY <1>4, RadixFacts, Places
  <2>2. Fits(k, 3 + 1)
    BY <1>0, <1>3, <2>1, FitsStep, Places
  <2>3. QED BY <2>2
<1>5. ASSUME NEW k \in Nat, k <= Radix^3 PROVE Fits(k, 8)
  <2>1. Fits(k, 4 + 1)
    BY <1>4, <1>5, FitsMore
  <2>2. Fits(k, 5 + 1)
    BY <2>1, FitsMore
  <2>3. Fits(k, 6 + 1)
    BY <2>2, FitsMore
  <2>4. Fits(k, 7 + 1)
    BY <2>3, FitsMore
  <2>5. QED BY <2>4
<1>6. QED BY <1>1, <1>2, <1>3, <1>4, <1>5

LEMMA SmallNumbers ==
  ASSUME NEW n \in Nat, n <= Radix^3
  PROVE  Small(n)
<1>1. n \div Radix <= Radix^2 /\ n \div Radix \in Nat
  BY RadixFacts, Places
<1>2. QED BY <1>1, RadixFacts, Places DEF Small

\* One byte alone is its number.
LEMMA NumberOne ==
  ASSUME NEW n \in Nat
  PROVE  Number(<<n>>) = n
<1> DEFINE bytes == <<n>>
           g == CHOOSE h : Counts(h, bytes)
<1>1. \E h : Counts(h, bytes)
  <2>1. PICK h : Runs(h, "number", bytes, 0, Len(bytes))
    BY RunsExists
  <2>2. Counts(h, bytes)
    BY <2>1 DEF Runs, Round, Counts
  <2>3. QED BY <2>2
<1>2. Counts(g, bytes)
  BY <1>1
<1>3. Number(bytes) = g[Len(bytes)]
  BY DEF Number, Counts
<1> HIDE DEF g
<1>4. Len(bytes) = 1 /\ bytes[1] = n
  OBVIOUS
<1> HIDE DEF bytes
<1>5. g[0] = 0 /\ g[1] = IF g[0] >= Huge \div Radix THEN Huge ELSE bytes[1] + Radix * g[0]
  BY <1>2, <1>4 DEF Counts
<1>6. 0 < Huge \div Radix /\ Huge \div Radix \in Nat
  BY RadixFacts, Places
<1>7. g[1] = n + Radix * 0
  BY <1>4, <1>5, <1>6
<1>8. QED BY <1>3, <1>4, <1>7, RadixFacts DEF bytes

-----------------------------------------------------------------------------
(* Bytes in a row.                                                           *)

LEMMA Lengths ==
  ASSUME NEW a \in Seq(Nat), NEW d \in Seq(Nat)
  PROVE  a \o d \in Seq(Nat) /\ Len(a \o d) = Len(a) + Len(d) /\ Len(a) \in Nat /\ Len(d) \in Nat
<1>1. a \o d \in Seq(Nat) /\ Len(a \o d) = Len(a) + Len(d)
  BY Zenon, ConcatProperties
<1>2. \A x \in Seq(Nat) : Len(x) \in Nat
  OBVIOUS
<1>3. QED BY Zenon, <1>1, <1>2

LEMMA Regroup ==
  ASSUME NEW a \in Seq(Nat), NEW d \in Seq(Nat), NEW rest \in Seq(Nat)
  PROVE  (a \o d) \o rest = a \o (d \o rest) /\ d \o rest \in Seq(Nat) /\ a \o d \in Seq(Nat)
<1>1. (a \o d) \o rest = a \o (d \o rest)
  BY SMTT(60), ConcatAssociative
<1>2. QED BY Zenon, <1>1, Lengths

\* Three pieces in front of what follows them.
Bytes(x) == x \in Seq(Nat)

LEMMA ThreeBefore ==
  ASSUME NEW a, NEW b, NEW m, NEW rest, Bytes(a), Bytes(b), Bytes(m), Bytes(rest)
  PROVE  ((a \o b) \o m) \o rest = a \o (b \o (m \o rest)) /\ Bytes(m \o rest) /\ Bytes(b \o (m \o rest))
<1>1. a \in Seq(Nat) /\ b \in Seq(Nat) /\ m \in Seq(Nat) /\ rest \in Seq(Nat)
  BY Zenon DEF Bytes
<1>2. a \o b \in Seq(Nat) /\ m \o rest \in Seq(Nat)
  BY Zenon, <1>1, Lengths
<1>3. b \o (m \o rest) \in Seq(Nat)
  BY Zenon, <1>1, <1>2, Lengths
<1>4. PICK u, v \in Seq(Nat) : u = a \o b /\ v = m \o rest
  BY Zenon, <1>2
<1>5. \A x, y, z \in Seq(Nat) : (x \o y) \o z = x \o (y \o z)
  <2> TAKE x, y, z \in Seq(Nat)
  <2>1. QED BY SMTT(60), Regroup
<1>6. (u \o m) \o rest = u \o (m \o rest)
  BY ZenonT(60), <1>1, <1>5
<1>7. (a \o b) \o v = a \o (b \o v)
  BY ZenonT(60), <1>1, <1>5
<1>8. QED BY ZenonT(60), <1>2, <1>3, <1>4, <1>6, <1>7 DEF Bytes

-----------------------------------------------------------------------------
(* A reader that has rest in front of it, and nothing else.                  *)

Ahead(r, rest) ==
  /\ rest \in Seq(Nat) /\ Len(r.buff) = r.pos + Len(rest)
  /\ \A j \in 1..Len(rest) : r.buff[r.pos + j] = rest[j]

Ready(r, rest) == Good(r, <<>>) /\ r.rc = "OK" /\ Ahead(r, rest)

LEMMA OpenReady ==
  ASSUME NEW buff \in Seq(Nat), NEW out
  PROVE  Ready(Open(buff, out), buff) /\ Open(buff, out).out = out
<1>1. Good(Open(buff, out), <<>>) /\ Open(buff, out).rc = "OK" /\ Open(buff, out).out = out
  BY OpenGood
<1>2. Open(buff, out).buff = buff /\ Open(buff, out).pos = 0
  BY DEF Open
<1>3. Len(buff) \in Nat /\ \A j \in 1..Len(buff) : 0 + j = j
  OBVIOUS
<1>4. QED BY <1>1, <1>2, <1>3 DEF Ready, Ahead

\* The next bytes of it, and the reader behind them.
LEMMA MovedReady ==
  ASSUME NEW r, NEW seg \in Seq(Nat), NEW rest \in Seq(Nat), NEW n, n = Len(seg), NEW value, Ready(r, seg \o rest)
  PROVE  /\ Check(r, n) /\ Peek(r, n) = seg /\ n \in Nat
         /\ Ready(Moved(r, n, value), rest)
         /\ Moved(r, n, value).val = value /\ Moved(r, n, value).out = r.out
<1> DEFINE x == seg \o rest
           s == Moved(r, n, value)
<1>1. n \in Nat /\ Len(rest) \in Nat /\ Spliced(x, seg, rest, n) /\ Len(x) = n + Len(rest)
  <2>1. n \in Nat /\ Len(rest) \in Nat /\ Spliced(x, seg, rest, n)
    BY Concat
  <2>2. QED BY <2>1 DEF Spliced
<1>2. Good(r, <<>>) /\ r.rc = "OK" /\ Len(r.buff) = r.pos + Len(x) /\ \A j \in 1..Len(x) : r.buff[r.pos + j] = x[j]
  BY DEF Ready, Ahead
<1>3. r.pos \in Nat /\ Len(r.buff) \in Nat /\ r.buff \in Seq(Nat)
  BY <1>2, SafeFacts
<1> HIDE DEF x
<1>4. Check(r, n)
  BY <1>1, <1>2, <1>3 DEF Check, Left
<1>5. Peek(r, n) = seg
  <2>1. ASSUME NEW i \in 1..n
        PROVE  (IF r.pos + i <= Len(r.buff) THEN r.buff[r.pos + i] ELSE 0) = seg[i]
    <3>1. i \in 1..Len(x) /\ r.pos + i <= Len(r.buff)
      BY <1>1, <1>2, <1>3
    <3>2. r.buff[r.pos + i] = x[i] /\ x[i] = seg[i]
      BY <1>1, <1>2, <3>1 DEF Spliced
    <3>3. QED BY <3>1, <3>2
  <2>2. seg = [i \in 1..n |-> seg[i]]
    OBVIOUS
  <2>3. Peek(r, n) = [i \in 1..n |-> IF r.pos + i <= Len(r.buff) THEN r.buff[r.pos + i] ELSE 0]
    BY DEF Peek
  <2>4. QED BY <2>1, <2>2, <2>3
<1>6. Good(s, <<>>) /\ s.rc = r.rc /\ s.val = value /\ s.out = r.out
  BY <1>1, <1>2, <1>4, MovedGood
<1>7. s.buff = r.buff /\ s.pos = r.pos + n
  BY <1>2 DEF Good, Safe, Parts, Moved
<1>8. Ahead(s, rest)
  <2> HIDE DEF s
  <2> DEFINE p == r.pos
             a == Len(rest)
  <2>0. p \in Nat /\ a \in Nat /\ n \in Nat /\ Len(r.buff) = p + (n + a) /\ Len(x) = n + a
    BY <1>1, <1>2, <1>3
  <2>1. Len(s.buff) = s.pos + Len(rest)
    <3>1. Len(s.buff) = p + (n + a) /\ s.pos = p + n
      BY <1>7, <2>0
    <3> HIDE DEF p, a
    <3>2. Len(s.buff) = s.pos + a
      BY <2>0, <3>1
    <3>3. QED BY <3>2 DEF a
  <2>2. ASSUME NEW j \in 1..Len(rest) PROVE s.buff[s.pos + j] = rest[j]
    <3>1. n + j \in 1..Len(x) /\ (r.pos + n) + j = r.pos + (n + j)
      <4>1. j \in Nat /\ j \in 1..a
        BY <2>0
      <4> HIDE DEF p, a
      <4>2. n + j \in 1..(n + a) /\ (p + n) + j = p + (n + j)
        BY <2>0, <4>1
      <4>3. QED BY <2>0, <4>2 DEF p
    <3>2. r.buff[r.pos + (n + j)] = x[n + j] /\ x[n + j] = rest[j]
      BY <1>1, <1>2, <3>1 DEF Spliced
    <3>3. QED BY <1>7, <3>1, <3>2
  <2>3. QED BY <2>1, <2>2 DEF Ahead
<1>9. QED BY <1>1, <1>2, <1>4, <1>5, <1>6, <1>8 DEF Ready

LEMMA IntReady ==
  ASSUME NEW r, NEW seg \in Seq(Nat), NEW rest \in Seq(Nat), NEW n, n = Len(seg), Ready(r, seg \o rest)
  PROVE  Ready(GetInt(r, n), rest) /\ GetInt(r, n).val = Number(seg) /\ GetInt(r, n).out = r.out
<1>1. Check(r, n) /\ Peek(r, n) = seg
  BY MovedReady
<1>2. GetInt(r, n) = Moved(r, n, Number(seg))
  BY <1>1 DEF GetInt
<1>3. QED BY <1>2, MovedReady

LEMMA ByteReady ==
  ASSUME NEW r, NEW b \in Nat, NEW rest \in Seq(Nat), Ready(r, <<b>> \o rest)
  PROVE  Ready(GetInt(r, 1), rest) /\ GetInt(r, 1).val = b /\ GetInt(r, 1).out = r.out
<1>0. <<b>> \in Seq(Nat) /\ Len(<<b>>) = 1
  OBVIOUS
<1>1. PICK seg \in Seq(Nat) : seg = <<b>>
  BY <1>0
<1>2. 1 = Len(seg) /\ Ready(r, seg \o rest)
  BY <1>0, <1>1
<1> DEFINE m == 1
<1>3. Ready(GetInt(r, m), rest) /\ GetInt(r, m).val = Number(seg) /\ GetInt(r, m).out = r.out
  <2>1. m = Len(seg)
    BY <1>2
  <2> HIDE DEF m
  <2>2. QED BY <1>2, <2>1, IntReady
<1>4. QED BY <1>1, <1>3, NumberOne

LEMMA DigitsReady ==
  ASSUME NEW r, NEW n \in Nat, NEW width \in Nat \ {0}, NEW rest \in Seq(Nat), Fits(n, width), Small(n),
         Ready(r, Digits(n, width) \o rest)
  PROVE  Ready(GetInt(r, width), rest) /\ GetInt(r, width).val = n /\ GetInt(r, width).out = r.out
<1>1. PICK seg \in Seq(Nat) : seg = Digits(n, width) /\ width = Len(seg)
  BY DigitsFacts
<1>2. Ready(GetInt(r, width), rest) /\ GetInt(r, width).val = Number(seg) /\ GetInt(r, width).out = r.out
  BY <1>1, IntReady
<1>3. QED BY <1>1, <1>2, NumberDigits

LEMMA BufferReady ==
  ASSUME NEW r, NEW seg \in Seq(Nat), NEW rest \in Seq(Nat), NEW n, n = Len(seg), Ready(r, seg \o rest)
  PROVE  Ready(GetBuffer(r, n), rest) /\ GetBuffer(r, n).val = seg /\ GetBuffer(r, n).out = r.out
<1>1. Check(r, n) /\ Peek(r, n) = seg
  BY MovedReady
<1>2. GetBuffer(r, n) = Moved(r, n, seg)
  BY <1>1 DEF GetBuffer
<1>3. QED BY <1>2, MovedReady

\* Numbers a length can be.
Sizes == {n \in Nat : Small(n) /\ Fits(n, 8)}

LEMMA LenencFacts ==
  ASSUME NEW n \in Nat
  PROVE  /\ n < NullLeader => ServerLenenc(n) = <<n>>
         /\ n >= NullLeader /\ n < Radix^2 => ServerLenenc(n) = <<Leader16>> \o Digits(n, 2)
         /\ n >= Radix^2 /\ n < Radix^3 => ServerLenenc(n) = <<Leader24>> \o Digits(n, 3)
         /\ n >= Radix^3 => ServerLenenc(n) = <<Leader64>> \o Digits(n, 8)
         /\ ServerLenenc(n) \in Seq(Nat) /\ Len(ServerLenenc(n)) \in 1..9
         /\ NullLeader \in Nat /\ Leader16 \in Nat /\ Leader24 \in Nat /\ Leader64 \in Nat
<1>1. /\ Radix \in Nat /\ Radix >= 16 /\ NullLeader < Radix /\ Radix < Radix^2 /\ Radix^2 < Radix^3
      /\ Radix^2 \in Nat /\ Radix^3 \in Nat
      /\ NullLeader \in Nat /\ Leader16 \in Nat /\ Leader24 \in Nat /\ Leader64 \in Nat
  <2>1. Radix \in Nat /\ Radix >= 16
    BY RadixFacts
  <2>2. Radix * Radix > Radix /\ Radix * Radix \in Nat
    BY <2>1
  <2>3. Radix^2 > Radix
    BY <2>2, Places
  <2>4. Radix * Radix^2 > Radix^2
    BY <2>1, <2>3, Places
  <2>5. QED BY <2>1, <2>3, <2>4, Places DEF NullLeader, Leader16, Leader24, Leader64
<1>2. ASSUME n < NullLeader PROVE ServerLenenc(n) = <<n>>
  BY <1>2 DEF ServerLenenc
<1> DEFINE lead == [w \in {2, 3, 8} |-> CASE w = 2 -> Leader16 [] w = 3 -> Leader24 [] w = 8 -> Leader64]
           width == IF n < Radix^2 THEN 2 ELSE IF n < Radix^3 THEN 3 ELSE 8
<1>3. lead[2] = Leader16 /\ lead[3] = Leader24 /\ lead[8] = Leader64
  OBVIOUS
<1>4. ~(n < NullLeader) => ServerLenenc(n) = <<lead[width]>> \o Digits(n, width)
  BY DEF ServerLenenc
<1> HIDE DEF lead
<1>5. /\ n >= NullLeader /\ n < Radix^2 => ServerLenenc(n) = <<Leader16>> \o Digits(n, 2)
      /\ n >= Radix^2 /\ n < Radix^3 => ServerLenenc(n) = <<Leader24>> \o Digits(n, 3)
      /\ n >= Radix^3 => ServerLenenc(n) = <<Leader64>> \o Digits(n, 8)
  <2> HIDE DEF width
  <2>1. /\ n < Radix^2 => width = 2
        /\ n >= Radix^2 /\ n < Radix^3 => width = 3
        /\ n >= Radix^3 => width = 8
    BY <1>1 DEF width
  <2>2. /\ n >= NullLeader => ~(n < NullLeader)
        /\ n >= Radix^2 => ~(n < NullLeader)
        /\ n >= Radix^3 => ~(n < NullLeader)
    BY <1>1
  <2>3. QED BY <1>3, <1>4, <2>1, <2>2
<1>6. \A w \in {2, 3, 8} : \A lead1 \in Nat :
        <<lead1>> \o Digits(n, w) \in Seq(Nat) /\ Len(<<lead1>> \o Digits(n, w)) = 1 + w
  <2> TAKE w \in {2, 3, 8}
  <2> TAKE lead1 \in Nat
  <2>1. Digits(n, w) \in Seq(Nat) /\ Len(Digits(n, w)) = w
    <3>1. w \in Nat
      OBVIOUS
    <3>2. QED BY <3>1, DigitsFacts
  <2>2. QED BY <2>1
<1>7. ServerLenenc(n) \in Seq(Nat) /\ Len(ServerLenenc(n)) \in 1..9
  <2>1. CASE n < NullLeader
    <3>1. <<n>> \in Seq(Nat) /\ Len(<<n>>) = 1
      OBVIOUS
    <3>2. ServerLenenc(n) = <<n>>
      BY <1>2, <2>1
    <3>3. 1 \in 1..9
      OBVIOUS
    <3> DEFINE x == <<n>>
    <3>4. x \in Seq(Nat) /\ Len(x) = 1 /\ ServerLenenc(n) = x
      BY <3>1, <3>2
    <3> HIDE DEF x
    <3>5. QED BY <3>3, <3>4
  <2>2. CASE ~(n < NullLeader)
    <3>1. \E w \in {2, 3, 8} : \E l \in Nat : ServerLenenc(n) = <<l>> \o Digits(n, w)
      BY <1>1, <1>5, <2>2
    <3>2. PICK w \in {2, 3, 8} : \E l \in Nat : ServerLenenc(n) = <<l>> \o Digits(n, w)
      BY <3>1
    <3>3. PICK l \in Nat : ServerLenenc(n) = <<l>> \o Digits(n, w)
      BY <3>2
    <3> DEFINE x == <<l>> \o Digits(n, w)
    <3>4. x \in Seq(Nat) /\ Len(x) = 1 + w
      BY <1>6
    <3>5. 1 + w \in 1..9
      OBVIOUS
    <3> HIDE DEF x
    <3>6. QED BY <3>3, <3>4, <3>5 DEF x
  <2>3. QED BY <2>1, <2>2
<1>8. QED BY <1>1, <1>2, <1>5, <1>7

\* A length-encoded number in front is read as it was written.
LEMMA AfterLeaderByte ==
  ASSUME NEW r, NEW lead \in Nat, NEW n \in Nat, NEW w \in Nat \ {0}, NEW rest \in Seq(Nat),
         Ready(r, (<<lead>> \o Digits(n, w)) \o rest), Fits(n, w), Small(n)
  PROVE  LET s == GetInt(r, 1) IN
         /\ s.rc = "OK" /\ s.val = lead
         /\ Ready(GetInt(s, w), rest) /\ GetInt(s, w).val = n /\ GetInt(s, w).out = r.out
<1> DEFINE s == GetInt(r, 1)
<1>1. PICK d \in Seq(Nat) : d = Digits(n, w)
  BY DigitsFacts
<1>2. PICK a \in Seq(Nat) : a = <<lead>>
  <2>1. <<lead>> \in Seq(Nat)
    OBVIOUS
  <2>2. QED BY <2>1
<1>3. (a \o d) \o rest = a \o (d \o rest) /\ d \o rest \in Seq(Nat)
  BY Zenon, Regroup
<1>4. Ready(r, <<lead>> \o (d \o rest))
  BY <1>1, <1>2, <1>3
<1>5. Ready(s, d \o rest) /\ s.val = lead /\ s.out = r.out
  BY <1>3, <1>4, ByteReady
<1> HIDE DEF s
<1>6. Ready(s, Digits(n, w) \o rest)
  BY <1>1, <1>5
<1>7. Ready(GetInt(s, w), rest) /\ GetInt(s, w).val = n /\ GetInt(s, w).out = s.out
  BY <1>6, DigitsReady
<1>8. s.rc = "OK"
  BY <1>5 DEF Ready
<1>9. QED BY <1>5, <1>7, <1>8 DEF s

LEMMA LenencReady ==
  ASSUME NEW r, NEW n \in Sizes, NEW rest \in Seq(Nat), Ready(r, ServerLenenc(n) \o rest)
  PROVE  Ready(GetLenenc(r), rest) /\ GetLenenc(r).val = n /\ GetLenenc(r).out = r.out
<1> DEFINE s == GetInt(r, 1)
<1>1. GetLenenc(r) = AfterLeader(s)
  BY DEF GetLenenc
<1>2. n \in Nat /\ Small(n) /\ Fits(n, 8)
  BY DEF Sizes
<1>3. Radix \in Nat /\ Radix >= 16 /\ Radix^2 \in Nat /\ Radix^3 \in Nat
  BY RadixFacts, Places
<1>4. NullLeader \in Nat /\ Leader16 \in Nat /\ Leader24 \in Nat /\ Leader64 \in Nat
      /\ NullLeader < Leader16 /\ Leader16 < Leader24 /\ Leader24 < Leader64
  BY <1>3 DEF NullLeader, Leader16, Leader24, Leader64
<1>5. CASE n < NullLeader
  <2>1. ServerLenenc(n) = <<n>>
    BY <1>2, <1>5, LenencFacts
  <2>2. Ready(r, <<n>> \o rest)
    BY <2>1
  <2>3. Ready(s, rest) /\ s.val = n /\ s.out = r.out
    BY <1>2, <2>2, ByteReady
  <2> HIDE DEF s
  <2>4. AfterLeader(s) = s
    BY <1>5, <2>3 DEF AfterLeader
  <2>5. QED BY <1>1, <2>3, <2>4
<1>6. CASE n >= NullLeader /\ n < Radix^2
  <2>1. ServerLenenc(n) = <<Leader16>> \o Digits(n, 2) /\ Fits(n, 2)
    BY <1>2, <1>6, LenencFacts, FitsIn
  <2>2. Ready(r, (<<Leader16>> \o Digits(n, 2)) \o rest)
    BY <2>1
  <2>3. s.rc = "OK" /\ s.val = Leader16 /\ Ready(GetInt(s, 2), rest) /\ GetInt(s, 2).val = n /\ GetInt(s, 2).out = r.out
    BY <1>2, <1>4, <2>1, <2>2, AfterLeaderByte
  <2> HIDE DEF s
  <2>4. AfterLeader(s) = GetInt(s, 2)
    BY <1>4, <2>3 DEF AfterLeader
  <2>5. QED BY <1>1, <2>3, <2>4
<1>7. CASE n >= Radix^2 /\ n < Radix^3
  <2>1. ServerLenenc(n) = <<Leader24>> \o Digits(n, 3) /\ Fits(n, 3)
    BY <1>2, <1>7, LenencFacts, FitsIn
  <2>2. Ready(r, (<<Leader24>> \o Digits(n, 3)) \o rest)
    BY <2>1
  <2>3. s.rc = "OK" /\ s.val = Leader24 /\ Ready(GetInt(s, 3), rest) /\ GetInt(s, 3).val = n /\ GetInt(s, 3).out = r.out
    BY <1>2, <1>4, <2>1, <2>2, AfterLeaderByte
  <2> HIDE DEF s
  <2>4. AfterLeader(s) = GetInt(s, 3)
    BY <1>4, <2>3 DEF AfterLeader
  <2>5. QED BY <1>1, <2>3, <2>4
<1>8. CASE n >= Radix^3
  <2>1. ServerLenenc(n) = <<Leader64>> \o Digits(n, 8)
    BY <1>2, <1>8, LenencFacts
  <2>2. Ready(r, (<<Leader64>> \o Digits(n, 8)) \o rest)
    BY <2>1
  <2>3. s.rc = "OK" /\ s.val = Leader64 /\ Ready(GetInt(s, 8), rest) /\ GetInt(s, 8).val = n /\ GetInt(s, 8).out = r.out
    BY <1>2, <1>4, <2>1, <2>2, AfterLeaderByte
  <2> HIDE DEF s
  <2>4. AfterLeader(s) = GetInt(s, 8)
    BY <1>4, <2>3 DEF AfterLeader
  <2>5. QED BY <1>1, <2>3, <2>4
<1>9. QED BY <1>2, <1>3, <1>4, <1>5, <1>6, <1>7, <1>8

LEMMA TextFacts ==
  ASSUME NEW text \in Seq(Nat)
  PROVE  ServerText(text) = ServerLenenc(Len(text)) \o text /\ ServerText(text) \in Seq(Nat)
<1>1. Len(text) \in Nat
  OBVIOUS
<1>2. QED BY <1>1, LenencFacts DEF ServerText

LEMMA LenencBufferReady ==
  ASSUME NEW r, NEW text \in Seq(Nat), Len(text) \in Sizes, NEW rest \in Seq(Nat), Ready(r, ServerText(text) \o rest)
  PROVE  Ready(GetLenencBuffer(r), rest) /\ GetLenencBuffer(r).val = text /\ GetLenencBuffer(r).out = r.out
<1> DEFINE s == GetLenenc(r)
           n == Len(text)
<1>0. n \in Nat
  OBVIOUS
<1>1. PICK a \in Seq(Nat) : a = ServerLenenc(n)
  BY <1>0, LenencFacts
<1>2. (a \o text) \o rest = a \o (text \o rest) /\ text \o rest \in Seq(Nat)
  BY Zenon, Regroup
<1>3. Ready(r, ServerLenenc(n) \o (text \o rest))
  BY <1>1, <1>2, TextFacts
<1>4. Ready(s, text \o rest) /\ s.val = n /\ s.out = r.out
  BY <1>2, <1>3, LenencReady
<1>5. GetLenencBuffer(r) = AfterLength(s)
  BY DEF GetLenencBuffer
<1> HIDE DEF s
<1>6. s.rc = "OK" /\ Check(s, n)
  BY <1>4, MovedReady DEF Ready
<1>7. Left(s) \in Nat
  BY <1>4, SafeFacts DEF Ready
<1>8. AfterLength(s) = GetBuffer(s, n)
  BY <1>0, <1>4, <1>6, <1>7 DEF AfterLength, Check
<1>9. Ready(GetBuffer(s, n), rest) /\ GetBuffer(s, n).val = text /\ GetBuffer(s, n).out = s.out
  BY <1>4, BufferReady
<1>10. QED BY <1>4, <1>5, <1>8, <1>9

\* A string ends at its first NUL.
LEMMA StringReady ==
  ASSUME NEW r, NEW text \in Seq(Nat \ {0}), NEW rest \in Seq(Nat), Ready(r, (text \o << 0 >>) \o rest)
  PROVE  Ready(GetString(r), rest) /\ GetString(r).val = text /\ GetString(r).out = r.out
<1> DEFINE nuls == {i \in 1..Left(r) : r.buff[r.pos + i] = 0}
           n == Len(text)
<1>0. n \in Nat /\ text \in Seq(Nat) /\ \A i \in 1..n : text[i] # 0
  OBVIOUS
<1>1. PICK z \in Seq(Nat) : z = <<0>> /\ Len(z) = 1 /\ z[1] = 0
  <2>1. <<0>> \in Seq(Nat) /\ Len(<<0>>) = 1 /\ <<0>>[1] = 0
    OBVIOUS
  <2>2. QED BY <2>1
<1>2. PICK x \in Seq(Nat) : /\ x = text \o z /\ Len(x) = n + 1 /\ x \o rest \in Seq(Nat)
                            /\ (\A i \in 1..n : x[i] = text[i]) /\ x[n + 1] = 0
  <2>1. text \o z \in Seq(Nat) /\ Spliced(text \o z, text, z, n)
    BY <1>0, Concat
  <2>2. 1 \in 1..Len(z)
    BY <1>1
  <2>3. Len(text \o z) = n + 1 /\ (text \o z)[n + 1] = 0
    BY <1>1, <2>1, <2>2 DEF Spliced
  <2>4. \A i \in 1..n : (text \o z)[i] = text[i]
    BY <2>1 DEF Spliced
  <2>5. (text \o z) \o rest \in Seq(Nat)
    BY <2>1
  <2>6. QED BY <2>1, <2>3, <2>4, <2>5
<1>3. Ready(r, x \o rest)
  BY <1>1, <1>2
<1>4. Check(r, n + 1) /\ Peek(r, n + 1) = x
  BY <1>2, <1>3, MovedReady
<1>5. text \o (z \o rest) = x \o rest /\ z \o rest \in Seq(Nat)
  <2>1. PICK y \in Seq(Nat) : y = text
    BY <1>0
  <2>2. (y \o z) \o rest = y \o (z \o rest) /\ z \o rest \in Seq(Nat)
    BY Zenon, Regroup
  <2>3. QED BY Zenon, <1>2, <2>1, <2>2
<1>6. Peek(r, n) = text
  <2>1. PICK y \in Seq(Nat) : y = z \o rest
    BY <1>5
  <2>2. Ready(r, text \o y)
    BY <1>3, <1>5, <2>1
  <2>3. text \in Seq(Nat) /\ n = Len(text)
    BY <1>0
  <2> HIDE DEF n
  <2>4. QED BY <2>2, <2>3, MovedReady
<1>7. r.pos \in Nat /\ Len(r.buff) \in Nat /\ Left(r) \in Nat
  BY <1>3, SafeFacts DEF Ready
<1>8. \A i \in 1..(n + 1) : r.buff[r.pos + i] = x[i] /\ i \in 1..Left(r)
  <2> TAKE i \in 1..(n + 1)
  <2>1. i <= Left(r)
    BY <1>0, <1>4, <1>7 DEF Check
  <2>2. r.pos + i <= Len(r.buff)
    BY <2>1, <1>7 DEF Left
  <2>3. Peek(r, n + 1)[i] = r.buff[r.pos + i]
    BY <2>2 DEF Peek
  <2>4. QED BY <1>4, <1>7, <2>1, <2>3
<1>9. n + 1 \in nuls /\ \A i \in nuls : n + 1 <= i
  <2>1. n + 1 \in 1..(n + 1)
    BY <1>0
  <2>2. n + 1 \in nuls
    BY <1>2, <1>8, <2>1
  <2>3. ASSUME NEW i \in nuls, i < n + 1 PROVE FALSE
    <3>1. i \in 1..Left(r) /\ r.buff[r.pos + i] = 0
      OBVIOUS
    <3>2. i \in 1..n /\ i \in 1..(n + 1)
      BY <1>0, <1>7, <2>3, <3>1
    <3>3. QED BY <1>0, <1>2, <1>8, <3>1, <3>2
  <2>4. \A i \in nuls : i \in Nat
    BY <1>7
  <2> HIDE DEF nuls
  <2>5. QED BY <1>0, <2>2, <2>3, <2>4
<1>10. nuls \subseteq Nat
  BY <1>7
<1>11. GetString(r) = IF nuls = {} THEN Fail(r, "TRUNCATED_PACKET") ELSE Moved(r, (Min(nuls) - 1) + 1, Peek(r, Min(nuls) - 1))
  BY DEF GetString
<1> HIDE DEF nuls
<1>12. Min(nuls) = n + 1
  <2>1. Min(nuls) \in nuls
    BY <1>9, <1>10, MinFacts
  <2>2. Min(nuls) = CHOOSE m \in nuls : \A y \in nuls : m <= y
    BY DEF Min
  <2>3. \A y \in nuls : Min(nuls) <= y
    BY <1>9, <2>2
  <2>4. Min(nuls) <= n + 1 /\ n + 1 <= Min(nuls) /\ Min(nuls) \in Nat
    BY <1>9, <1>10, <2>1, <2>3
  <2>5. QED BY <1>0, <2>4
<1>13. (Min(nuls) - 1) + 1 = n + 1 /\ Min(nuls) - 1 = n
  BY <1>0, <1>12
<1>14. GetString(r) = Moved(r, n + 1, text)
  BY <1>6, <1>9, <1>11, <1>13
<1> DEFINE m == n + 1
<1>15. m = Len(x) /\ GetString(r) = Moved(r, m, text)
  BY <1>2, <1>14
<1> HIDE DEF m
<1>16. QED BY <1>3, <1>15, MovedReady

\* The rest of a packet.
LEMMA EofReady ==
  ASSUME NEW r, NEW rest \in Seq(Nat), NEW none \in Seq(Nat), Len(none) = 0, Ready(r, rest)
  PROVE  Ready(GetEofBuffer(r), none) /\ GetEofBuffer(r).val = rest /\ GetEofBuffer(r).out = r.out
<1>1. rest \o none = rest
  <2>1. none = <<>>
    BY EmptySeq
  <2>2. QED BY <2>1
<1>2. Ready(r, rest \o none)
  BY <1>1
<1>3. Left(r) = Len(rest)
  <2>0. Good(r, <<>>) /\ Len(r.buff) = r.pos + Len(rest)
    BY DEF Ready, Ahead
  <2>1. r.pos \in Nat /\ Len(r.buff) = r.pos + Len(rest)
    BY <2>0, SafeFacts
  <2>3. Len(rest) \in Nat
    OBVIOUS
  <2>2. QED BY <2>1, <2>3 DEF Left
<1> DEFINE n == Left(r)
<1>4. n = Len(rest) /\ GetEofBuffer(r) = Moved(r, n, Peek(r, n))
  BY <1>3 DEF GetEofBuffer
<1> HIDE DEF n
<1>5. Peek(r, n) = rest
  BY <1>2, <1>4, MovedReady
<1>6. GetEofBuffer(r) = Moved(r, n, rest)
  BY <1>4, <1>5
<1>7. Ready(Moved(r, n, rest), none)
  BY <1>2, <1>4, MovedReady
<1>9. Moved(r, n, rest).val = rest /\ Moved(r, n, rest).out = r.out
  <2>1. Check(r, n) /\ n \in Nat /\ Good(r, <<>>)
    BY <1>2, <1>4, MovedReady DEF Ready
  <2>2. QED BY <2>1, MovedGood
<1>10. QED BY <1>6, <1>7, <1>9

\* Nothing is left over.
LEMMA FinishReady ==
  ASSUME NEW r, NEW none, Len(none) = 0, Ready(r, none)
  PROVE  Finish(r) = r
<1>1. r.pos \in Nat /\ Len(r.buff) = r.pos + Len(none)
  BY SafeFacts DEF Ready, Ahead
<1>2. ~(r.pos < Len(r.buff))
  BY <1>1
<1>3. QED BY <1>2 DEF Finish

-----------------------------------------------------------------------------
(* What is stored.                                                           *)

Put(out, field, value) == [f \in {field} \cup DOMAIN out |-> IF f = field THEN value ELSE out[f]]

LEMMA PutFacts ==
  ASSUME NEW out, NEW field, NEW value
  PROVE  /\ field \in DOMAIN Put(out, field, value) /\ Put(out, field, value)[field] = value
         /\ \A f \in DOMAIN out : f \in DOMAIN Put(out, field, value) /\ (f # field => Put(out, field, value)[f] = out[f])
  BY DEF Put

LEMMA StoreReady ==
  ASSUME NEW r, NEW rest, NEW field, NEW value, Ready(r, rest)
  PROVE  /\ Ready(Store(r, field, value), rest)
         /\ Store(r, field, value).out = Put(r.out, field, value) /\ Store(r, field, value).val = r.val
<1> DEFINE s == Store(r, field, value)
<1>1. Good(r, <<>>) /\ r.rc = "OK" /\ Ahead(r, rest)
  BY DEF Ready
<1>2. Good(s, <<>>) /\ s.rc = r.rc
  <2>1. PICK b : b = <<>>
    OBVIOUS
  <2>2. Good(r, b) /\ (b = <<>> \/ field # "bitmap")
    BY <1>1, <2>1
  <2> HIDE DEF s
  <2>3. Good(Store(r, field, value), b) /\ Store(r, field, value).rc = r.rc
    BY <2>2, StoreGood
  <2>4. QED BY <2>1, <2>3 DEF s
<1>3. s.buff = r.buff /\ s.pos = r.pos /\ s.val = r.val /\ s.out = Put(r.out, field, value)
  BY <1>1 DEF Good, Safe, Parts, Store, Put
<1> HIDE DEF s
<1>4. Ahead(s, rest)
  BY <1>1, <1>3 DEF Ahead
<1>5. QED BY <1>1, <1>2, <1>3, <1>4 DEF s, Ready

\* In front of rest, the call c takes the bytes seg and makes v of them.
Carries(c, seg, v, rest) ==
  \/ c.get = "int" /\ c.width = Len(seg) /\ v = Number(seg)
  \/ c.get = "buffer" /\ c.width = Len(seg) /\ v = seg
  \/ c.get = "lenenc" /\ v \in Sizes /\ seg = ServerLenenc(v)
  \/ c.get = "lenenc_buffer" /\ v \in Seq(Nat) /\ Len(v) \in Sizes /\ seg = ServerText(v)
  \/ c.get = "string" /\ v \in Seq(Nat \ {0}) /\ seg = v \o <<0>>
  \/ c.get = "eof_buffer" /\ v = seg /\ Len(rest) = 0

LEMMA CallReady ==
  ASSUME NEW r, NEW c, NEW seg \in Seq(Nat), NEW rest \in Seq(Nat), NEW v, Carries(c, seg, v, rest), Ready(r, seg \o rest)
  PROVE  Ready(Call(r, c), rest) /\ Call(r, c).val = v /\ Call(r, c).out = r.out
<1>1. CASE c.get = "int"
  <2>1. c.width = Len(seg) /\ v = Number(seg)
    BY <1>1 DEF Carries
  <2>2. Call(r, c) = GetInt(r, c.width)
    BY <1>1 DEF Call
  <2>3. Ready(GetInt(r, c.width), rest) /\ GetInt(r, c.width).val = Number(seg) /\ GetInt(r, c.width).out = r.out
    BY <2>1, IntReady
  <2>4. QED BY <2>1, <2>2, <2>3
<1>2. CASE c.get = "buffer"
  <2>1. c.width = Len(seg) /\ v = seg
    BY <1>2 DEF Carries
  <2>2. Call(r, c) = GetBuffer(r, c.width)
    BY <1>2 DEF Call
  <2>3. Ready(GetBuffer(r, c.width), rest) /\ GetBuffer(r, c.width).val = seg /\ GetBuffer(r, c.width).out = r.out
    BY <2>1, BufferReady
  <2>4. QED BY <2>1, <2>2, <2>3
<1>3. CASE c.get = "lenenc"
  <2>1. v \in Sizes /\ seg = ServerLenenc(v)
    BY <1>3 DEF Carries
  <2>2. Call(r, c) = GetLenenc(r)
    BY <1>3 DEF Call
  <2>3. Ready(r, ServerLenenc(v) \o rest)
    BY <2>1
  <2>4. QED BY <2>1, <2>2, <2>3, LenencReady
<1>4. CASE c.get = "lenenc_buffer"
  <2>1. v \in Seq(Nat) /\ Len(v) \in Sizes /\ seg = ServerText(v)
    BY <1>4 DEF Carries
  <2>2. Call(r, c) = GetLenencBuffer(r)
    BY <1>4 DEF Call
  <2>3. Ready(r, ServerText(v) \o rest)
    BY <2>1
  <2>4. QED BY <2>1, <2>2, <2>3, LenencBufferReady
<1>5. CASE c.get = "string"
  <2>1. v \in Seq(Nat \ {0}) /\ seg = v \o <<0>>
    BY <1>5 DEF Carries
  <2>2. Call(r, c) = GetString(r)
    BY <1>5 DEF Call
  <2>3. Ready(r, (v \o <<0>>) \o rest)
    BY <2>1
  <2>4. QED BY <2>1, <2>2, <2>3, StringReady
<1>6. CASE c.get = "eof_buffer"
  <2>1. v = seg /\ Len(rest) = 0
    BY <1>6 DEF Carries
  <2>2. Call(r, c) = GetEofBuffer(r)
    BY <1>6 DEF Call
  <2>3. seg \o rest = seg
    <3>1. rest = <<>>
      BY <2>1, EmptySeq
    <3>2. QED BY <3>1
  <2>4. Ready(r, seg)
    BY <2>3
  <2>5. QED BY <2>1, <2>2, <2>4, EofReady
<1>7. QED BY <1>1, <1>2, <1>3, <1>4, <1>5, <1>6 DEF Carries

LEMMA ReadReady ==
  ASSUME NEW r, NEW c, NEW seg \in Seq(Nat), NEW rest \in Seq(Nat), NEW v, Carries(c, seg, v, rest), Ready(r, seg \o rest)
  PROVE  /\ Ready(Read(r, c), rest) /\ Read(r, c).val = v
         /\ Read(r, c).out = IF c.field = "skip" THEN r.out ELSE Put(r.out, c.field, v)
<1> DEFINE s == Call(r, c)
<1>1. Ready(s, rest) /\ s.val = v /\ s.out = r.out
  BY CallReady
<1>2. r.rc = "OK"
  BY DEF Ready
<1>3. Read(r, c) = Stored(s, c.field)
  BY <1>2 DEF Read
<1> HIDE DEF s
<1>4. s.rc = "OK"
  BY <1>1 DEF Ready
<1>5. Read(r, c) = IF c.field = "skip" THEN s ELSE Store(s, c.field, v)
  BY <1>1, <1>3, <1>4 DEF Stored
<1>6. QED BY <1>1, <1>5, StoreReady

\* Calls one after the other, each a Read of what the last has left.
LEMMA FieldsRuns ==
  ASSUME NEW r, NEW calls, Len(calls) \in Nat
  PROVE  \E f : f[0] = r /\ f[Len(calls)] = Fields(r, calls)
                /\ \A i \in 1..Len(calls) : f[i] = Read(f[i - 1], calls[i])
<1> DEFINE n == Len(calls)
<1> DEFINE f == CHOOSE g : FieldRuns(g, calls, r, n)
<1>1. \E g : FieldRuns(g, calls, r, n)
  <2>1. PICK g : Runs(g, "fields", calls, r, n)
    BY RunsExists
  <2>2. FieldRuns(g, calls, r, n)
    BY <2>1 DEF Runs, Round, Body, FieldRuns
  <2>3. QED BY <2>2
<1>2. FieldRuns(f, calls, r, n)
  BY <1>1
<1>3. Fields(r, calls) = f[n]
  BY DEF Fields, Rounds, FieldRuns
<1> HIDE DEF f
<1>4. f[0] = r
  BY <1>2 DEF FieldRuns
<1>5. ASSUME NEW i \in 1..n PROVE f[i] = Read(f[i - 1], calls[i])
  <2>1. i \in 0..n /\ i # 0
    OBVIOUS
  <2>2. f[i] = IF f[i - 1].rc = "OK" THEN Read(f[i - 1], calls[i]) ELSE f[i - 1]
    BY <1>2, <2>1 DEF FieldRuns
  <2>3. QED BY <2>2 DEF Read
<1>6. QED BY <1>3, <1>4, <1>5

\* Two lists of calls are the first, then the second.
LEMMA FieldsSplit ==
  ASSUME NEW r, NEW C, NEW a \in Seq(C), NEW d \in Seq(C)
  PROVE  Fields(r, a \o d) = Fields(Fields(r, a), d)
<1> DEFINE m == Len(a)
           k == Len(d)
           x == a \o d
<1>1. m \in Nat /\ k \in Nat /\ x \in Seq(C) /\ Spliced(x, a, d, m) /\ Len(x) = m + k
  <2>1. m \in Nat /\ k \in Nat /\ x \in Seq(C) /\ Spliced(x, a, d, m)
    BY Concat
  <2>2. QED BY <2>1 DEF Spliced
<1>2. \A i \in 1..m : x[i] = a[i]
  BY <1>1 DEF Spliced
<1>3. \A i \in 1..k : x[m + i] = d[i]
  BY <1>1 DEF Spliced
<1> HIDE DEF m, k, x
<1>4. PICK f : f[0] = r /\ f[m] = Fields(r, a) /\ \A i \in 1..m : f[i] = Read(f[i - 1], a[i])
  <2>1. \E f : f[0] = r /\ f[Len(a)] = Fields(r, a) /\ \A i \in 1..Len(a) : f[i] = Read(f[i - 1], a[i])
    BY <1>1, FieldsRuns DEF m
  <2>2. QED BY <2>1 DEF m
<1> DEFINE t == Fields(r, a)
<1>5. PICK g : g[0] = t /\ g[k] = Fields(t, d) /\ \A i \in 1..k : g[i] = Read(g[i - 1], d[i])
  <2> HIDE DEF t
  <2>1. \E g : g[0] = t /\ g[Len(d)] = Fields(t, d) /\ \A i \in 1..Len(d) : g[i] = Read(g[i - 1], d[i])
    BY <1>1, FieldsRuns DEF k
  <2>2. QED BY <2>1 DEF k
<1>6. PICK h : h[0] = r /\ h[m + k] = Fields(r, x) /\ \A i \in 1..(m + k) : h[i] = Read(h[i - 1], x[i])
  <2>1. \E h : h[0] = r /\ h[Len(x)] = Fields(r, x) /\ \A i \in 1..Len(x) : h[i] = Read(h[i - 1], x[i])
    <3>1. Len(x) \in Nat
      BY <1>1
    <3>2. QED BY <3>1, FieldsRuns
  <2>2. QED BY <1>1, <2>1
<1> DEFINE P == {i \in Nat : i <= m => h[i] = f[i]}
           Q == {i \in Nat : i <= k => h[m + i] = g[i]}
<1>7. 0 \in P
  BY <1>4, <1>6
<1>8. ASSUME NEW i \in Nat, i \in P PROVE i + 1 \in P
  <2> SUFFICES ASSUME i + 1 <= m PROVE h[i + 1] = f[i + 1]
    OBVIOUS
  <2>1. i + 1 \in 1..m /\ i + 1 \in 1..(m + k) /\ (i + 1) - 1 = i /\ i <= m
    BY <1>1
  <2>2. h[i] = f[i]
    BY <1>8, <2>1
  <2>3. h[i + 1] = Read(h[i], x[i + 1]) /\ f[i + 1] = Read(f[i], a[i + 1]) /\ x[i + 1] = a[i + 1]
    BY <1>2, <1>4, <1>6, <2>1
  <2>4. QED BY <2>2, <2>3
<1>9. Nat \subseteq P
  <2> HIDE DEF P
  <2>1. QED BY <1>7, <1>8, SetInduction
<1>10. h[m] = g[0] /\ m + 0 = m
  BY <1>1, <1>4, <1>5, <1>9
<1>11. 0 \in Q
  BY <1>10
<1>12. ASSUME NEW i \in Nat, i \in Q PROVE i + 1 \in Q
  <2> SUFFICES ASSUME i + 1 <= k PROVE h[m + (i + 1)] = g[i + 1]
    OBVIOUS
  <2>1. i + 1 \in 1..k /\ m + (i + 1) \in 1..(m + k) /\ (m + (i + 1)) - 1 = m + i /\ (i + 1) - 1 = i /\ i <= k
    BY <1>1
  <2>2. h[m + i] = g[i]
    BY <1>12, <2>1
  <2>3. h[m + (i + 1)] = Read(h[m + i], x[m + (i + 1)]) /\ g[i + 1] = Read(g[i], d[i + 1]) /\ x[m + (i + 1)] = d[i + 1]
    BY <1>3, <1>5, <1>6, <2>1
  <2>4. QED BY <2>2, <2>3
<1>13. Nat \subseteq Q
  <2> HIDE DEF Q
  <2>1. QED BY <1>11, <1>12, SetInduction
<1>14. h[m + k] = g[k]
  BY <1>1, <1>13
<1>15. QED BY <1>5, <1>6, <1>14 DEF x

LEMMA FieldsNone ==
  ASSUME NEW r, NEW calls, Len(calls) = 0
  PROVE  Fields(r, calls) = r
<1>1. PICK f : f[0] = r /\ f[Len(calls)] = Fields(r, calls)
  BY FieldsRuns
<1>2. QED BY <1>1

-----------------------------------------------------------------------------
(* The session state of an OK packet.                                        *)

\* A change of the session whose lengths can be written.
Tellable(c) ==
  /\ c.type \in Nat /\ c.data \in Seq(Nat) /\ Len(c.data) \in Sizes
  /\ ChangeInfo(c) \in Seq(Nat) /\ Len(ChangeInfo(c)) \in Sizes

LEMMA ChangeBytes ==
  ASSUME NEW c, Tellable(c)
  PROVE  ServerChange(c) = <<c.type>> \o ServerText(ChangeInfo(c)) /\ ServerChange(c) \in Seq(Nat)
         /\ ServerText(ChangeInfo(c)) \in Seq(Nat) /\ Len(ServerChange(c)) > 0 /\ Len(ServerChange(c)) \in Nat
<1>1. c.type \in Nat /\ ServerText(ChangeInfo(c)) \in Seq(Nat)
  BY TextFacts DEF Tellable
<1>2. PICK t \in Nat, x \in Seq(Nat) : t = c.type /\ x = ServerText(ChangeInfo(c))
  BY <1>1
<1>3. <<t>> \o x \in Seq(Nat) /\ Len(<<t>> \o x) = 1 + Len(x) /\ Len(x) \in Nat
  OBVIOUS
<1>4. ServerChange(c) = <<t>> \o x
  BY <1>2 DEF ServerChange
<1>5. QED BY <1>1, <1>2, <1>3, <1>4

\* Two calls, one after the other.
LEMMA FieldsTwo ==
  ASSUME NEW r, NEW c, NEW d
  PROVE  Fields(r, <<c, d>>) = Read(Read(r, c), d)
<1> DEFINE x == <<c, d>>
<1>1. Len(x) = 2 /\ x[1] = c /\ x[2] = d
  OBVIOUS
<1> HIDE DEF x
<1>2. PICK f : f[0] = r /\ f[Len(x)] = Fields(r, x) /\ \A i \in 1..Len(x) : f[i] = Read(f[i - 1], x[i])
  <2>1. Len(x) \in Nat
    BY <1>1
  <2>2. QED BY <2>1, FieldsRuns
<1>3. f[1] = Read(r, c) /\ f[2] = Read(f[1], d)
  <2>1. 1 \in 1..2 /\ 2 \in 1..2 /\ 1 - 1 = 0 /\ 2 - 1 = 1
    OBVIOUS
  <2>2. f[1] = Read(f[1 - 1], x[1]) /\ f[2] = Read(f[2 - 1], x[2])
    BY <1>1, <1>2, <2>1
  <2>3. QED BY <1>1, <1>2, <2>1, <2>2
<1>4. QED BY <1>1, <1>2, <1>3 DEF x

\* A byte, then a text: the two values, stored or skipped.
LEMMA ByteThenText ==
  ASSUME NEW r, NEW b \in Nat, NEW text \in Seq(Nat), Len(text) \in Sizes, NEW rest \in Seq(Nat),
         NEW field1, NEW field2, field2 # "skip",
         Ready(r, (<<b>> \o ServerText(text)) \o rest)
  PROVE  LET s == Fields(r, <<UInt(1, field1), LenencBuffer(field2)>>)
         IN /\ Ready(s, rest)
            /\ s.out = Put(IF field1 = "skip" THEN r.out ELSE Put(r.out, field1, b), field2, text)
<1> DEFINE s == Fields(r, <<UInt(1, field1), LenencBuffer(field2)>>)
           c == UInt(1, field1)
           d == LenencBuffer(field2)
           t == Read(r, c)
<1>1. PICK x \in Seq(Nat) : x = ServerText(text)
  BY TextFacts
<1>2. PICK a \in Seq(Nat) : a = <<b>> /\ Len(a) = 1 /\ Number(a) = b
  <2>1. <<b>> \in Seq(Nat) /\ Len(<<b>>) = 1
    OBVIOUS
  <2>2. QED BY <2>1, NumberOne
<1>3. (a \o x) \o rest = a \o (x \o rest) /\ x \o rest \in Seq(Nat)
  BY Zenon, Regroup
<1>4. PICK y \in Seq(Nat) : y = x \o rest
  BY <1>3
<1>5. Ready(r, a \o y)
  BY <1>1, <1>2, <1>3, <1>4
<1>6. c.get = "int" /\ c.width = 1 /\ c.field = field1 /\ d.get = "lenenc_buffer" /\ d.field = field2
  BY DEF UInt, LenencBuffer
<1>7. Carries(c, a, b, y) /\ Carries(d, x, text, rest)
  BY <1>1, <1>2, <1>6 DEF Carries
<1>8. s = Read(t, d)
  BY FieldsTwo
<1> HIDE DEF s, c, d
<1>9. Ready(t, y) /\ t.out = IF c.field = "skip" THEN r.out ELSE Put(r.out, c.field, b)
  BY <1>5, <1>7, ReadReady
<1> HIDE DEF t
<1>10. Ready(t, x \o rest)
  BY <1>4, <1>9
<1>11. Ready(s, rest) /\ s.out = IF d.field = "skip" THEN t.out ELSE Put(t.out, d.field, text)
  BY <1>7, <1>8, <1>10, ReadReady
<1>12. Ready(s, rest) /\ s.out = Put(IF field1 = "skip" THEN r.out ELSE Put(r.out, field1, b), field2, text)
  BY <1>6, <1>9, <1>11
<1>13. QED BY <1>12 DEF s, c, d

\* A GTID that is not too long is kept.
LEMMA GtidKept ==
  ASSUME NEW s, NEW rest, NEW g, NEW data \in Seq(Nat), Ready(s, rest), g.rc = "OK", g.over = FALSE, g.out["last_gtid"] = data,
         ~(Len(data) > GtidMax)
  PROVE  Ready(KeepGtid(s, g), rest) /\ KeepGtid(s, g).out = Put(s.out, "last_gtid", data)
<1>1. ASSUME NEW field, NEW value
      PROVE  Ready(Store(s, field, value), rest) /\ Store(s, field, value).out = Put(s.out, field, value)
  BY StoreReady
<1> DEFINE t == Store(s, "last_gtid", data)
<1>2. KeepGtid(s, g) = [t EXCEPT !.over = @ \/ g.over]
  BY DEF KeepGtid
<1>3. Ready(t, rest) /\ t.out = Put(s.out, "last_gtid", data)
  BY <1>1
<1> HIDE DEF t
<1>4. t = [part \in Parts |-> t[part]] /\ t.over = FALSE
  BY <1>3 DEF Ready, Good, Safe
<1>5. DOMAIN t = Parts /\ "over" \in Parts /\ (t.over \/ g.over) = t.over
  BY <1>4 DEF Parts
<1>6. [t EXCEPT !.over = @ \/ g.over] = t
  BY <1>4, <1>5
<1>7. QED BY <1>2, <1>3, <1>6

\* One change is read, and a GTID that is too long is refused.
LEMMA ChangeReady ==
  ASSUME NEW r, NEW c, Tellable(c), NEW rest \in Seq(Nat), Ready(r, ServerChange(c) \o rest), "last_gtid" \in DOMAIN r.out
  PROVE  /\ c.type = Gtids /\ Len(c.data) > GtidMax => StateChange(r).rc = "PROTOCOL_VIOLATION" /\ Good(StateChange(r), <<>>)
         /\ ~(c.type = Gtids /\ Len(c.data) > GtidMax) =>
              /\ Ready(StateChange(r), rest) /\ "last_gtid" \in DOMAIN StateChange(r).out
              /\ StateChange(r).out["last_gtid"] = IF c.type = Gtids THEN c.data ELSE r.out["last_gtid"]
<1> DEFINE s == Fields(r, <<UInt(1, "type"), LenencBuffer("state_info")>>)
           none == Open(s.out.state_info, <<>>)
           g == Fields(none, <<UInt(1, "skip"), LenencBuffer("last_gtid")>>)
<1>0. PICK info \in Seq(Nat) : info = ChangeInfo(c)
  BY DEF Tellable
<1>1. PICK type \in Nat, data \in Seq(Nat) :
        type = c.type /\ data = c.data /\ Len(info) \in Sizes /\ Len(data) \in Sizes /\ Len(data) \in Nat
  BY <1>0 DEF Tellable
<1>2. Ready(r, (<<type>> \o ServerText(info)) \o rest)
  BY <1>0, <1>1, ChangeBytes
<1>3. Ready(s, rest) /\ s.out = Put(Put(r.out, "type", type), "state_info", info)
  BY <1>1, <1>2, ByteThenText
<1>4. s.rc = "OK" /\ Good(s, <<>>)
  BY <1>3 DEF Ready
<1> HIDE DEF s
<1>5. /\ s.out["type"] = type /\ s.out["state_info"] = info
      /\ "last_gtid" \in DOMAIN s.out /\ s.out["last_gtid"] = r.out["last_gtid"]
  BY <1>3, PutFacts
<1>6. StateChange(r) = IF s.out.type # Gtids THEN s ELSE KeepGtid(s, g)
  BY <1>4 DEF StateChange, Then, s
<1>7. CASE type # Gtids
  BY <1>1, <1>3, <1>5, <1>6, <1>7
<1>8. CASE type = Gtids
  <2>1. info = <<0>> \o ServerText(data)
    BY <1>0, <1>1, <1>8 DEF ChangeInfo
  <2>2. PICK z \in Seq(Nat) : z = <<>> /\ Len(z) = 0
    BY EmptySeq
  <2>3. none = Open(info, <<>>)
    BY <1>5
  <2>4. Ready(none, info) /\ none.out = <<>>
    BY <2>3, OpenReady
  <2>5. info \o z = info
    BY <2>2
  <2>6. Ready(none, (<<0>> \o ServerText(data)) \o z)
    BY <2>1, <2>4, <2>5
  <2> HIDE DEF none
  <2>7. Ready(g, z) /\ g.out = Put(none.out, "last_gtid", data)
    <3>1. PICK o \in Nat : o = 0
      OBVIOUS
    <3>2. Ready(none, (<<o>> \o ServerText(data)) \o z)
      BY <2>6, <3>1
    <3>3. PICK field1, field2 : field1 = "skip" /\ field2 = "last_gtid"
      OBVIOUS
    <3>4. g = Fields(none, <<UInt(1, field1), LenencBuffer(field2)>>) /\ field2 # "skip"
      BY <3>3
    <3> HIDE DEF g
    <3>5. Ready(g, z) /\ g.out = Put(IF field1 = "skip" THEN none.out ELSE Put(none.out, field1, o), field2, data)
      BY <1>1, <3>2, <3>4, ByteThenText
    <3>6. QED BY <3>3, <3>5
  <2> HIDE DEF g
  <2>8. g.rc = "OK" /\ g.over = FALSE /\ g.out["last_gtid"] = data
    BY <2>7, PutFacts DEF Ready, Good, Safe
  <2>9. StateChange(r) = KeepGtid(s, g)
    BY <1>5, <1>6, <1>8
  <2>10. CASE Len(data) > GtidMax
    <3>1. KeepGtid(s, g) = Fail(s, "PROTOCOL_VIOLATION")
      BY <2>8, <2>10 DEF KeepGtid
    <3>2. QED BY <1>1, <1>4, <1>8, <2>9, <2>10, <3>1, FailGood
  <2>11. CASE ~(Len(data) > GtidMax)
    <3>1. Ready(KeepGtid(s, g), rest) /\ KeepGtid(s, g).out = Put(s.out, "last_gtid", data)
      BY <1>3, <2>8, <2>11, GtidKept
    <3>2. "last_gtid" \in DOMAIN KeepGtid(s, g).out /\ KeepGtid(s, g).out["last_gtid"] = data
      BY <3>1, PutFacts
    <3>3. QED BY <1>1, <1>8, <2>9, <2>11, <3>1, <3>2
  <2>12. QED BY <2>10, <2>11
<1>9. QED BY <1>7, <1>8

\* The last of the first k changes that is a GTID.
LastOf(changes, k) ==
  LET gtids == {i \in 1..k : changes[i].type = Gtids}
  IN IF gtids = {} THEN <<>> ELSE changes[Max(gtids)].data

LEMMA MaxFacts ==
  ASSUME NEW k \in Nat, NEW S, S \subseteq 1..k, k \in S
  PROVE  Max(S) = k
<1>1. \A y \in S : k >= y
  OBVIOUS
<1>2. \A z \in S : (\A y \in S : z >= y) => z = k
  OBVIOUS
<1>3. QED BY <1>1, <1>2 DEF Max

LEMMA LastOfStep ==
  ASSUME NEW changes, NEW k \in Nat
  PROVE  /\ LastOf(changes, 0) = <<>>
         /\ LastOf(changes, k + 1) = IF changes[k + 1].type = Gtids THEN changes[k + 1].data ELSE LastOf(changes, k)
<1> DEFINE S(n) == {i \in 1..n : changes[i].type = Gtids}
<1>1. S(0) = {} /\ k + 1 \in Nat
  OBVIOUS
<1>2. CASE changes[k + 1].type = Gtids
  <2>1. S(k + 1) \subseteq 1..(k + 1) /\ k + 1 \in S(k + 1)
    BY <1>2
  <2>2. LastOf(changes, k + 1) = IF S(k + 1) = {} THEN <<>> ELSE changes[Max(S(k + 1))].data
    BY DEF LastOf
  <2> HIDE DEF S
  <2>3. Max(S(k + 1)) = k + 1
    BY <1>1, <2>1, MaxFacts
  <2>4. QED BY <1>2, <2>1, <2>2, <2>3, <1>1 DEF LastOf, S
<1>3. CASE changes[k + 1].type # Gtids
  <2>1. S(k + 1) = S(k)
    BY <1>3
  <2>2. /\ LastOf(changes, k + 1) = IF S(k + 1) = {} THEN <<>> ELSE changes[Max(S(k + 1))].data
        /\ LastOf(changes, k) = IF S(k) = {} THEN <<>> ELSE changes[Max(S(k))].data
    BY DEF LastOf
  <2> HIDE DEF S
  <2>3. LastOf(changes, 0) = <<>>
    BY <1>1 DEF LastOf, S
  <2>4. QED BY <1>3, <2>1, <2>2, <2>3
<1>4. QED BY <1>2, <1>3

LEMMA Rests ==
  ASSUME NEW S, NEW q \in Seq(Seq(S)), Len(q) > 0
  PROVE  \E g \in [1..(Len(q) + 1) -> Seq(S)] :
           g[1] = FlattenSeq(q) /\ Len(g[Len(q) + 1]) = 0 /\ \A i \in 1..Len(q) : g[i] = q[i] \o g[i + 1]
BY FlattenRest

LEMMA RestsOf ==
  ASSUME NEW q \in Seq(Seq(Nat)), NEW n \in Nat \ {0}, Len(q) = n
  PROVE  \E g \in [1..(n + 1) -> Seq(Nat)] :
           g[1] = FlattenSeq(q) /\ Len(g[n + 1]) = 0 /\ \A i \in 1..n : g[i] = q[i] \o g[i + 1]
<1>1. Len(q) > 0
  OBVIOUS
<1>2. \E g \in [1..(Len(q) + 1) -> Seq(Nat)] :
        g[1] = FlattenSeq(q) /\ Len(g[Len(q) + 1]) = 0 /\ \A i \in 1..Len(q) : g[i] = q[i] \o g[i + 1]
  BY <1>1, Rests
<1>3. QED BY <1>2

\* A loop over the changes that has gone well leaves the GTID behind.
LEMMA JoinedReady ==
  ASSUME NEW r, NEW rest, Ready(r, rest), NEW s, s.rc = "OK", s.over = FALSE
  PROVE  Ready(Joined(r, s), rest) /\ Joined(r, s).out = Put(r.out, "last_gtid", s.out.last_gtid)
<1> DEFINE j == Store(r, "last_gtid", s.out.last_gtid)
<1>1. Joined(r, s) = [j EXCEPT !.rc = s.rc, !.over = @ \/ s.over]
  BY DEF Joined
<1>2. Ready(j, rest) /\ j.out = Put(r.out, "last_gtid", s.out.last_gtid)
  <2>1. PICK field, value : field = "last_gtid" /\ value = s.out.last_gtid
    OBVIOUS
  <2>2. Ready(r, rest)
    OBVIOUS
  <2>3. Ready(Store(r, field, value), rest) /\ Store(r, field, value).out = Put(r.out, field, value)
    BY <2>2, StoreReady
  <2>4. QED BY <2>1, <2>3
<1> HIDE DEF j
<1>3. [j EXCEPT !.rc = s.rc, !.over = @ \/ s.over] = j
  <2>1. j = [part \in Parts |-> j[part]] /\ j.over = FALSE /\ j.rc = "OK"
    BY <1>2 DEF Ready, Good, Safe
  <2>2. DOMAIN j = Parts /\ "over" \in Parts /\ "rc" \in Parts /\ (j.over \/ s.over) = j.over /\ s.rc = j.rc
    BY <2>1 DEF Parts
  <2>3. QED BY <2>1, <2>2
<1>4. QED BY <1>1, <1>2, <1>3

TooLong(c) == c.type = Gtids /\ Len(c.data) > GtidMax

\* The bytes of the changes, and what is left of them behind each.
LEMMA ChangesBytes ==
  ASSUME NEW changes, NEW n \in Nat \ {0}, DOMAIN changes = 1..n, \A i \in 1..n : Tellable(changes[i])
  PROVE  /\ ServerChanges(changes) \in Seq(Nat) /\ n <= Len(ServerChanges(changes))
         /\ \E g \in [1..(n + 1) -> Seq(Nat)] :
              g[1] = ServerChanges(changes) /\ Len(g[n + 1]) = 0 /\ \A i \in 1..n : g[i] = ServerChange(changes[i]) \o g[i + 1]
<1> DEFINE q == [i \in DOMAIN changes |-> ServerChange(changes[i])]
<1>1. \A i \in 1..n : ServerChange(changes[i]) \in Seq(Nat) /\ Len(ServerChange(changes[i])) > 0
  BY ChangeBytes
<1>2. q \in Seq(Seq(Nat)) /\ Len(q) = n /\ \A i \in 1..n : q[i] = ServerChange(changes[i])
  BY <1>1
<1>3. ServerChanges(changes) = FlattenSeq(q)
  BY DEF ServerChanges
<1> HIDE DEF q
<1>4. PICK g \in [1..(n + 1) -> Seq(Nat)] :
        g[1] = ServerChanges(changes) /\ Len(g[n + 1]) = 0 /\ \A i \in 1..n : g[i] = ServerChange(changes[i]) \o g[i + 1]
  <2>1. PICK p \in Seq(Seq(Nat)) : p = q /\ Len(p) = n
    BY <1>2
  <2>2. n \in Nat \ {0}
    BY <1>2
  <2>3. PICK g \in [1..(n + 1) -> Seq(Nat)] :
          g[1] = FlattenSeq(p) /\ Len(g[n + 1]) = 0 /\ \A i \in 1..n : g[i] = p[i] \o g[i + 1]
    BY <2>1, <2>2, RestsOf
  <2>4. QED BY <1>2, <1>3, <2>1, <2>3
<1>5. \A i \in 1..(n + 1) : g[i] \in Seq(Nat) /\ Len(g[i]) \in Nat
  OBVIOUS
<1> DEFINE P == {m \in Nat : m <= n => m <= Len(g[(n + 1) - m])}
<1>6. 0 \in P
  BY <1>5
<1>7. ASSUME NEW m \in Nat, m \in P PROVE m + 1 \in P
  <2> SUFFICES ASSUME m + 1 <= n PROVE m + 1 <= Len(g[(n + 1) - (m + 1)])
    OBVIOUS
  <2>1. PICK i \in 1..n : i = (n + 1) - (m + 1) /\ i + 1 = (n + 1) - m
    <3>1. (n + 1) - (m + 1) \in 1..n /\ ((n + 1) - (m + 1)) + 1 = (n + 1) - m
      OBVIOUS
    <3>2. QED BY <3>1
  <2>2. m <= Len(g[i + 1])
    BY <1>7, <2>1
  <2>3. PICK a, d \in Seq(Nat) : a = ServerChange(changes[i]) /\ d = g[i + 1]
    BY <1>1, <1>5
  <2>4. Len(a \o d) = Len(a) + Len(d) /\ Len(a) \in Nat /\ Len(d) \in Nat /\ Len(a) > 0
    <3>1. Len(a) > 0
      BY <1>1, <2>3
    <3>2. QED BY Zenon, <3>1, Lengths
  <2>5. g[i] = a \o d
    BY <1>4, <2>3
  <2>6. PICK u, v, w \in Nat : u = Len(a) /\ v = Len(d) /\ w = Len(g[i]) /\ w = u + v /\ u > 0 /\ m <= v
    <3>1. Len(g[i]) = Len(a) + Len(d) /\ Len(g[i]) \in Nat /\ m <= Len(d)
      BY <1>5, <2>2, <2>3, <2>4, <2>5
    <3>2. QED BY <2>4, <3>1
  <2>7. m + 1 <= w
    BY <2>6
  <2>8. QED BY <2>1, <2>6, <2>7
<1>8. Nat \subseteq P
  <2> HIDE DEF P
  <2>1. QED BY <1>6, <1>7, SetInduction
<1>9. n <= Len(g[(n + 1) - n]) /\ (n + 1) - n = 1
  BY <1>8
<1>10. n <= Len(g[1])
  BY <1>9
<1>11. ServerChanges(changes) \in Seq(Nat) /\ n <= Len(ServerChanges(changes))
  <2>1. 1 \in 1..(n + 1)
    OBVIOUS
  <2>2. g[1] \in Seq(Nat)
    BY <1>5, <2>1
  <2>3. QED BY <1>4, <1>10, <2>2
<1>12. QED BY <1>4, <1>11

\* The loop over the changes of a session.
LEMMA ChangesReady ==
  ASSUME NEW r, NEW rest, Ready(r, rest), NEW changes, NEW n \in Nat \ {0}, DOMAIN changes = 1..n,
         \A i \in 1..n : Tellable(changes[i]), r.out.session_state_changes = ServerChanges(changes),
         r.out.last_gtid = <<>>, Len(ServerChanges(changes)) <= Len(r.buff)
  PROVE  /\ (\E i \in 1..n : TooLong(changes[i])) => StateChanges(r).rc = "PROTOCOL_VIOLATION" /\ Good(StateChanges(r), <<>>)
         /\ ~(\E i \in 1..n : TooLong(changes[i])) =>
              Ready(StateChanges(r), rest) /\ StateChanges(r).out = Put(r.out, "last_gtid", LastOf(changes, n))
<1> DEFINE N == Len(r.buff)
           start == Open(r.out.session_state_changes, [last_gtid |-> r.out.last_gtid])
           f == CHOOSE g : ChangeRuns(g, start, N)
<1>0. Good(r, <<>>) /\ r.rc = "OK" /\ N \in Nat
  BY SafeFacts DEF Ready
<1>1. StateChanges(r) = Joined(r, f[N])
  BY DEF StateChanges, Rounds, ChangeRuns
<1>2. PICK g \in [1..(n + 1) -> Seq(Nat)] :
        g[1] = ServerChanges(changes) /\ Len(g[n + 1]) = 0 /\ \A i \in 1..n : g[i] = ServerChange(changes[i]) \o g[i + 1]
  BY ChangesBytes
<1>3. n <= N
  <2>1. n <= Len(ServerChanges(changes)) /\ Len(ServerChanges(changes)) \in Nat
    <3>1. PICK x \in Seq(Nat) : x = ServerChanges(changes) /\ n <= Len(x)
      BY ChangesBytes
    <3>2. QED BY <3>1
  <2>2. QED BY <1>0, <2>1
<1>4. Ready(start, g[1]) /\ start.out["last_gtid"] = <<>> /\ "last_gtid" \in DOMAIN start.out
  <2>1. PICK x \in Seq(Nat) : x = ServerChanges(changes)
    BY ChangesBytes
  <2>2. start = Open(x, [last_gtid |-> <<>>])
    BY <2>1
  <2>3. Ready(start, x) /\ start.out = [last_gtid |-> <<>>]
    BY <2>2, OpenReady
  <2>4. QED BY <1>2, <2>1, <2>3
<1> HIDE DEF start, N
<1>5. \E h : ChangeRuns(h, start, N)
  <2>1. PICK h : Runs(h, "changes", <<>>, start, N)
    BY <1>0, RunsExists
  <2>2. ChangeRuns(h, start, N)
    BY <2>1 DEF Runs, Round, Body, ChangeRuns
  <2>3. QED BY <2>2
<1>6. ChangeRuns(f, start, N)
  BY <1>5
<1> HIDE DEF f
<1>7. /\ f[0] = start
      /\ \A i \in 1..N : f[i] = IF f[i - 1].rc = "OK" THEN IF Eof(f[i - 1]) THEN f[i - 1] ELSE StateChange(f[i - 1])
                               ELSE f[i - 1]
  <2>1. \A i \in 0..N : f[i] = IF i = 0 THEN start
          ELSE LET s == f[i - 1] IN IF s.rc = "OK" THEN IF Eof(s) THEN s ELSE StateChange(s) ELSE s
    BY <1>6 DEF ChangeRuns
  <2>2. 0 \in 0..N /\ \A i \in 1..N : i \in 0..N /\ i # 0
    BY <1>0
  <2>3. QED BY <2>1, <2>2
<1> DEFINE Fine(k, s) == /\ Ready(s, g[k + 1]) /\ "last_gtid" \in DOMAIN s.out /\ s.out["last_gtid"] = LastOf(changes, k)
                         /\ \A i \in 1..k : ~TooLong(changes[i])
           Bad(s) == s.rc = "PROTOCOL_VIOLATION" /\ Good(s, <<>>) /\ \E i \in 1..n : TooLong(changes[i])
           P == {m \in Nat : m <= n => Fine(m, f[m]) \/ Bad(f[m])}
           Q == {m \in Nat : n + m <= N => Fine(n, f[n + m]) \/ Bad(f[n + m])}
<1>8. 0 \in P
  <2>1. 0 + 1 = 1 /\ 1..0 = {}
    OBVIOUS
  <2>2. LastOf(changes, 0) = <<>>
    BY LastOfStep
  <2>3. Fine(0, f[0])
    BY <1>4, <1>7, <2>1, <2>2
  <2> HIDE DEF Fine, Bad
  <2>4. QED BY <2>3
<1>9. ASSUME NEW m \in Nat, m \in P PROVE m + 1 \in P
  <2> SUFFICES ASSUME m + 1 <= n PROVE Fine(m + 1, f[m + 1]) \/ Bad(f[m + 1])
    OBVIOUS
  <2> HIDE DEF Fine, Bad
  <2>1. m + 1 \in 1..N /\ m + 1 \in 1..n /\ (m + 1) - 1 = m /\ m <= n
    BY <1>0, <1>3
  <2>2. f[m + 1] = IF f[m].rc = "OK" THEN IF Eof(f[m]) THEN f[m] ELSE StateChange(f[m]) ELSE f[m]
    BY <1>7, <2>1
  <2>3. CASE Bad(f[m])
    <3>1. f[m].rc # "OK"
      BY <2>3 DEF Bad
    <3>2. QED BY <2>2, <2>3, <3>1
  <2>4. CASE Fine(m, f[m])
    <3> DEFINE s == f[m]
               c == changes[m + 1]
    <3>1. PICK x, y \in Seq(Nat) : x = g[m + 1] /\ y = g[(m + 1) + 1] /\ x = ServerChange(c) \o y
      <4>1. m + 1 \in 1..(n + 1) /\ (m + 1) + 1 \in 1..(n + 1)
        BY <2>1
      <4>2. g[m + 1] = ServerChange(c) \o g[(m + 1) + 1]
        BY <1>2, <2>1
      <4>3. QED BY <4>1, <4>2
    <3>2. Tellable(c)
      BY <2>1
    <3>3. Ready(s, ServerChange(c) \o y) /\ "last_gtid" \in DOMAIN s.out /\ s.out["last_gtid"] = LastOf(changes, m)
          /\ \A i \in 1..m : ~TooLong(changes[i])
      BY <2>4, <3>1 DEF Fine
    <3>4. s.rc = "OK" /\ ~Eof(s)
      <4>1. Len(ServerChange(c)) > 0 /\ ServerChange(c) \in Seq(Nat)
        BY <3>2, ChangeBytes
      <4>2. PICK a \in Seq(Nat) : a = ServerChange(c) /\ Len(a) > 0
        BY <4>1
      <4>3. Len(a \o y) = Len(a) + Len(y) /\ Len(a) \in Nat /\ Len(y) \in Nat
        BY Zenon, Lengths
      <4>4. Ready(s, a \o y)
        BY <3>3, <4>2
      <4>5. Len(s.buff) = s.pos + Len(a \o y) /\ s.rc = "OK" /\ s.pos \in Nat
        BY <4>4, SafeFacts DEF Ready, Ahead
      <4>6. PICK u, v, w, p \in Nat : u = Len(a) /\ v = Len(y) /\ w = Len(a \o y) /\ p = s.pos /\ u > 0 /\ w = u + v
        <5>1. Len(a \o y) \in Nat
          BY <4>3
        <5>2. QED BY <4>2, <4>3, <4>5, <5>1
      <4>7. Len(s.buff) = p + w
        BY Zenon, <4>5, <4>6
      <4>8. p + w # p
        BY <4>6
      <4>9. Len(s.buff) # s.pos
        BY Zenon, <4>6, <4>7, <4>8
      <4>10. QED BY <4>5, <4>9 DEF Eof
    <3>5. f[m + 1] = StateChange(s)
      BY <2>2, <3>4
    <3> HIDE DEF s, c
    <3>6. CASE TooLong(c)
      <4>1. StateChange(s).rc = "PROTOCOL_VIOLATION" /\ Good(StateChange(s), <<>>)
        BY <3>2, <3>3, <3>6, ChangeReady DEF TooLong
      <4>2. TooLong(changes[m + 1])
        BY <3>6 DEF c
      <4>3. Bad(f[m + 1])
        BY <2>1, <3>5, <4>1, <4>2 DEF Bad
      <4>4. QED BY <4>3
    <3>7. CASE ~TooLong(c)
      <4>1. Ready(StateChange(s), y) /\ "last_gtid" \in DOMAIN StateChange(s).out
            /\ StateChange(s).out["last_gtid"] = IF c.type = Gtids THEN c.data ELSE s.out["last_gtid"]
        BY <3>2, <3>3, <3>7, ChangeReady DEF TooLong
      <4>2. LastOf(changes, m + 1) = IF c.type = Gtids THEN c.data ELSE LastOf(changes, m)
        BY LastOfStep DEF c
      <4>3. \A i \in 1..(m + 1) : ~TooLong(changes[i])
        <5>1. \A i \in 1..(m + 1) : i \in 1..m \/ i = m + 1
          OBVIOUS
        <5>2. QED BY <3>3, <3>7, <5>1 DEF c
      <4>4. Fine(m + 1, f[m + 1])
        BY <3>1, <3>3, <3>5, <4>1, <4>2, <4>3 DEF Fine
      <4>5. QED BY <4>4
    <3>8. QED BY <3>6, <3>7
  <2>5. Fine(m, f[m]) \/ Bad(f[m])
    BY <1>9, <2>1
  <2>6. QED BY <2>3, <2>4, <2>5
<1>10. Nat \subseteq P
  <2> HIDE DEF P
  <2>1. QED BY <1>8, <1>9, SetInduction
<1>11. 0 \in Q
  <2> HIDE DEF Fine, Bad
  <2>1. n + 0 = n /\ n \in Nat
    OBVIOUS
  <2>2. QED BY <1>10, <2>1
<1>12. ASSUME NEW m \in Nat, m \in Q PROVE m + 1 \in Q
  <2> SUFFICES ASSUME n + (m + 1) <= N PROVE Fine(n, f[n + (m + 1)]) \/ Bad(f[n + (m + 1)])
    OBVIOUS
  <2> HIDE DEF Fine, Bad
  <2>1. n + (m + 1) \in 1..N /\ (n + (m + 1)) - 1 = n + m /\ n + m <= N
    BY <1>0
  <2> DEFINE s == f[n + m]
  <2>2. f[n + (m + 1)] = IF s.rc = "OK" THEN IF Eof(s) THEN s ELSE StateChange(s) ELSE s
    BY <1>7, <2>1
  <2>3. Fine(n, s) \/ Bad(s)
    BY <1>12, <2>1
  <2> HIDE DEF s
  <2>4. CASE Bad(s)
    <3>1. s.rc # "OK"
      BY <2>4 DEF Bad
    <3>2. QED BY <2>2, <2>4, <3>1
  <2>5. CASE Fine(n, s)
    <3>1. Ready(s, g[n + 1])
      BY <2>5 DEF Fine
    <3>2. s.rc = "OK" /\ Len(s.buff) = s.pos + 0 /\ s.pos \in Nat
      BY <1>2, <3>1, SafeFacts DEF Ready, Ahead
    <3>3. Eof(s)
      BY <3>2 DEF Eof
    <3>4. QED BY <2>2, <2>5, <3>2, <3>3
  <2>6. QED BY <2>3, <2>4, <2>5
<1>13. Nat \subseteq Q
  <2> HIDE DEF Q
  <2>1. QED BY <1>11, <1>12, SetInduction
<1>14. Fine(n, f[N]) \/ Bad(f[N])
  <2> HIDE DEF Fine, Bad
  <2>1. PICK m \in Nat : n + m = N
    <3>1. N - n \in Nat /\ n + (N - n) = N
      BY <1>0, <1>3
    <3>2. QED BY <3>1
  <2>2. QED BY <1>0, <1>13, <2>1
<1> DEFINE s == f[N]
<1> HIDE DEF s
<1>15. CASE Bad(s)
  <2>1. s.rc = "PROTOCOL_VIOLATION" /\ Good(s, <<>>) /\ \E i \in 1..n : TooLong(changes[i])
    BY <1>15
  <2> DEFINE j == Store(r, "last_gtid", s.out.last_gtid)
  <2>2. StateChanges(r) = [j EXCEPT !.rc = s.rc, !.over = @ \/ s.over]
    BY <1>1 DEF Joined, s
  <2>3. Good(j, <<>>)
    BY <1>0, StoreGood
  <2> HIDE DEF j
  <2>4. PICK code, over : code = s.rc /\ over = s.over /\ over = FALSE /\ code # "EOF"
    BY <2>1 DEF Good, Safe
  <2> DEFINE t == [j EXCEPT !.rc = code, !.over = @ \/ over]
  <2>5. Good(t, <<>>)
    BY <2>3, <2>4, OverFailGood
  <2>6. t.rc = code
    BY <2>3 DEF Good, Safe, Parts
  <2>7. StateChanges(r) = t
    BY <2>2, <2>4
  <2> HIDE DEF t
  <2>8. QED BY <2>1, <2>4, <2>5, <2>6, <2>7
<1>16. CASE Fine(n, s)
  <2>1. s.rc = "OK" /\ s.over = FALSE /\ s.out["last_gtid"] = LastOf(changes, n) /\ \A i \in 1..n : ~TooLong(changes[i])
    BY <1>16 DEF Ready, Good, Safe
  <2>2. StateChanges(r) = Joined(r, s)
    BY <1>1 DEF s
  <2>3. Ready(Joined(r, s), rest) /\ Joined(r, s).out = Put(r.out, "last_gtid", s.out.last_gtid)
    BY <2>1, JoinedReady
  <2>4. QED BY <2>1, <2>2, <2>3
<1>17. QED BY <1>14, <1>15, <1>16 DEF s

-----------------------------------------------------------------------------
(* A packet in parts, one for each call.                                     *)

LEMMA FieldsOne ==
  ASSUME NEW r, NEW c
  PROVE  Fields(r, <<c>>) = Read(r, c)
<1> DEFINE x == <<c>>
<1>1. Len(x) = 1 /\ x[1] = c
  OBVIOUS
<1> HIDE DEF x
<1>2. PICK f : f[0] = r /\ f[Len(x)] = Fields(r, x) /\ \A i \in 1..Len(x) : f[i] = Read(f[i - 1], x[i])
  <2>1. Len(x) \in Nat
    BY <1>1
  <2>2. QED BY <2>1, FieldsRuns
<1>3. f[1] = Read(r, c)
  <2>1. 1 \in 1..1 /\ 1 - 1 = 0
    OBVIOUS
  <2>2. f[1] = Read(f[1 - 1], x[1])
    BY <1>1, <1>2, <2>1
  <2>3. QED BY <1>1, <1>2, <2>1, <2>2
<1>4. QED BY <1>1, <1>2, <1>3 DEF x

\* A number that a word of two bytes holds.
Word == {n \in Nat : n < Radix^2}

LEMMA WordFacts ==
  ASSUME NEW n \in Word
  PROVE  /\ n \in Nat /\ Digits(n, 2) \in Seq(Nat) /\ Number(Digits(n, 2)) = n
         /\ \A field, z : Carries(UInt(2, field), Digits(n, 2), n, z)
<1>1. n \in Nat /\ Fits(n, 2) /\ Small(n)
  <2>1. Radix^2 \in Nat /\ Radix^3 \in Nat /\ Radix^2 <= Radix^3
    <3>1. Radix \in Nat /\ Radix >= 16
      BY RadixFacts
    <3>2. PICK m \in Nat : m = Radix^2 /\ Radix^3 = Radix * m /\ m = Radix * Radix
      BY <3>1, Places
    <3>3. Radix * m >= m /\ Radix * m \in Nat
      BY <3>1
    <3>4. QED BY <3>2, <3>3
  <2>2. n \in Nat /\ n < Radix^2 /\ n <= Radix^3
    BY <2>1 DEF Word
  <2>3. QED BY <2>2, FitsIn, SmallNumbers
<1>2. 2 \in Nat /\ 2 \in Nat \ {0}
  OBVIOUS
<1>3. Digits(n, 2) \in Seq(Nat) /\ Len(Digits(n, 2)) = 2
  BY <1>1, <1>2, DigitsFacts
<1>4. Number(Digits(n, 2)) = n
  BY <1>1, <1>2, NumberDigits
<1>5. QED BY <1>1, <1>3, <1>4 DEF Carries, UInt

LEMMA FieldsThree ==
  ASSUME NEW r, NEW c, NEW d, NEW e
  PROVE  Fields(r, <<c, d, e>>) = Read(Read(Read(r, c), d), e)
<1> DEFINE x == <<c, d, e>>
<1>1. Len(x) = 3 /\ x[1] = c /\ x[2] = d /\ x[3] = e
  OBVIOUS
<1> HIDE DEF x
<1>2. PICK f : f[0] = r /\ f[Len(x)] = Fields(r, x) /\ \A i \in 1..Len(x) : f[i] = Read(f[i - 1], x[i])
  <2>1. Len(x) \in Nat
    BY <1>1
  <2>2. QED BY <2>1, FieldsRuns
<1>3. f[1] = Read(r, c) /\ f[2] = Read(f[1], d) /\ f[3] = Read(f[2], e)
  <2>1. 1 \in 1..3 /\ 2 \in 1..3 /\ 3 \in 1..3 /\ 1 - 1 = 0 /\ 2 - 1 = 1 /\ 3 - 1 = 2
    OBVIOUS
  <2>2. f[1] = Read(f[1 - 1], x[1]) /\ f[2] = Read(f[2 - 1], x[2]) /\ f[3] = Read(f[3 - 1], x[3])
    BY <1>1, <1>2, <2>1
  <2>3. QED BY <1>1, <1>2, <2>1, <2>2
<1>4. QED BY <1>1, <1>2, <1>3 DEF x

\* The counters in front of an OK packet.
OkCounters == <<UInt(1, "skip"), Lenenc("affected_rows"), Lenenc("last_insert_id")>>

\* The counters in a packet, and what follows each of them.
CounterBytes(type, rows, id) == (<<type>> \o ServerLenenc(rows)) \o ServerLenenc(id)

CounterSplit(type, rows, id, rest, a, b, m, y, z) ==
  /\ a \in Seq(Nat) /\ b \in Seq(Nat) /\ m \in Seq(Nat) /\ y \in Seq(Nat) /\ z \in Seq(Nat)
  /\ b = ServerLenenc(rows) /\ m = ServerLenenc(id) /\ Len(a) = 1 /\ Number(a) = type
  /\ y = m \o rest /\ z = b \o y /\ CounterBytes(type, rows, id) \o rest = a \o z

LEMMA CounterPieces ==
  ASSUME NEW type \in Nat, NEW rows \in Sizes, NEW id \in Sizes, NEW rest \in Seq(Nat)
  PROVE  \E a, b, m, y, z : CounterSplit(type, rows, id, rest, a, b, m, y, z)
<1>1. rows \in Nat /\ id \in Nat
  BY DEF Sizes
<1>2. ServerLenenc(rows) \in Seq(Nat) /\ ServerLenenc(id) \in Seq(Nat)
  BY <1>1, LenencFacts
<1>3. <<type>> \in Seq(Nat) /\ Len(<<type>>) = 1 /\ Number(<<type>>) = type
  BY NumberOne
<1>4. PICK a, b, m : /\ a = <<type>> /\ b = ServerLenenc(rows) /\ m = ServerLenenc(id)
                     /\ Bytes(a) /\ Bytes(b) /\ Bytes(m)
  BY <1>2, <1>3 DEF Bytes
<1>5. ((a \o b) \o m) \o rest = a \o (b \o (m \o rest)) /\ Bytes(m \o rest) /\ Bytes(b \o (m \o rest))
  <2>1. Bytes(rest)
    BY DEF Bytes
  <2>2. QED BY <1>4, <2>1, ThreeBefore
<1>6. PICK y, z : y = m \o rest /\ z = b \o y /\ Bytes(y) /\ Bytes(z) /\ ((a \o b) \o m) \o rest = a \o z
  BY <1>5
<1>7. CounterBytes(type, rows, id) \o rest = a \o z
  BY <1>4, <1>6 DEF CounterBytes
<1>8. a \in Seq(Nat) /\ b \in Seq(Nat) /\ m \in Seq(Nat) /\ y \in Seq(Nat) /\ z \in Seq(Nat)
  BY <1>4, <1>6 DEF Bytes
<1>9. Len(a) = 1 /\ Number(a) = type
  BY <1>3, <1>4
<1>10. CounterSplit(type, rows, id, rest, a, b, m, y, z)
  BY <1>4, <1>6, <1>7, <1>8, <1>9 DEF CounterSplit
<1>11. QED BY <1>10

LEMMA OkCounted ==
  ASSUME NEW r, NEW type \in Nat, NEW rows \in Sizes, NEW id \in Sizes, NEW rest \in Seq(Nat),
         Ready(r, CounterBytes(type, rows, id) \o rest)
  PROVE  LET s == Fields(r, OkCounters)
         IN Ready(s, rest) /\ s.out = Put(Put(r.out, "affected_rows", rows), "last_insert_id", id)
<1> DEFINE c == UInt(1, "skip")
           d == Lenenc("affected_rows")
           e == Lenenc("last_insert_id")
           s == Read(r, c)
           t == Read(s, d)
           u == Read(t, e)
<1>1. PICK a, b, m, y, z : CounterSplit(type, rows, id, rest, a, b, m, y, z)
  BY CounterPieces
<1>2. /\ a \in Seq(Nat) /\ b \in Seq(Nat) /\ m \in Seq(Nat) /\ y \in Seq(Nat) /\ z \in Seq(Nat)
      /\ b = ServerLenenc(rows) /\ m = ServerLenenc(id) /\ Len(a) = 1 /\ Number(a) = type
      /\ y = m \o rest /\ z = b \o y /\ CounterBytes(type, rows, id) \o rest = a \o z
  BY <1>1 DEF CounterSplit
<1>3. Ready(r, a \o z)
  BY <1>2
<1>4. /\ c.get = "int" /\ c.width = 1 /\ c.field = "skip" /\ d.get = "lenenc" /\ d.field = "affected_rows"
      /\ e.get = "lenenc" /\ e.field = "last_insert_id"
  BY DEF UInt, Lenenc
<1>5. Carries(c, a, type, z) /\ Carries(d, b, rows, y) /\ Carries(e, m, id, rest)
  BY <1>2, <1>4 DEF Carries
<1>6. Fields(r, OkCounters) = u
  BY FieldsThree DEF OkCounters
<1> HIDE DEF c, d, e
<1>7. Ready(s, z) /\ s.out = r.out
  <2>1. a \in Seq(Nat) /\ z \in Seq(Nat)
    BY <1>2
  <2>2. Ready(s, z) /\ s.out = IF c.field = "skip" THEN r.out ELSE Put(r.out, c.field, type)
    BY <1>3, <1>5, <2>1, ReadReady
  <2>3. QED BY <1>4, <2>2
<1> HIDE DEF s
<1>8. Ready(t, y) /\ t.out = Put(s.out, "affected_rows", rows)
  <2>1. Ready(s, b \o y)
    BY <1>2, <1>7
  <2>2. Ready(t, y) /\ t.out = IF d.field = "skip" THEN s.out ELSE Put(s.out, d.field, rows)
    <3>1. b \in Seq(Nat) /\ y \in Seq(Nat)
      BY <1>2
    <3>2. QED BY <1>5, <2>1, <3>1, ReadReady
  <2>3. QED BY <1>4, <2>2
<1> HIDE DEF t
<1>9. Ready(u, rest) /\ u.out = Put(t.out, "last_insert_id", id)
  <2>1. Ready(t, m \o rest)
    BY <1>2, <1>8
  <2>2. Ready(u, rest) /\ u.out = IF e.field = "skip" THEN t.out ELSE Put(t.out, e.field, id)
    BY <1>2, <1>5, <2>1, ReadReady
  <2>3. QED BY <1>4, <2>2
<1> HIDE DEF u
<1>10. QED BY <1>6, <1>7, <1>8, <1>9

\* Their status words, as the capabilities have it.
OkWords(caps) ==
  CASE "PROTOCOL_41" \in caps -> <<UInt(2, "status_flags"), UInt(2, "warning_count")>>
    [] caps \cap {"PROTOCOL_41", "TRANSACTIONS"} = {"TRANSACTIONS"} -> <<UInt(2, "txn_status_flags")>>
    [] OTHER -> <<>>

OkMiddle(caps, o) ==
  CASE "PROTOCOL_41" \in caps -> Digits(ServerStatus(o), 2) \o Digits(o.warnings, 2)
    [] caps \cap {"PROTOCOL_41", "TRANSACTIONS"} = {"TRANSACTIONS"} -> Digits(ServerStatus(o), 2)
    [] OTHER -> <<>>

OnlyTransactions(caps) == caps \cap {"PROTOCOL_41", "TRANSACTIONS"} = {"TRANSACTIONS"}

LEMMA OkWorded ==
  ASSUME NEW r, NEW caps, NEW o, ServerStatus(o) \in Word, o.warnings \in Word, NEW rest \in Seq(Nat),
         Ready(r, OkMiddle(caps, o) \o rest)
  PROVE  LET s == Fields(r, OkWords(caps))
         IN /\ OkMiddle(caps, o) \in Seq(Nat)
            /\ Ready(s, rest)
            /\ s.out = IF "PROTOCOL_41" \in caps
                       THEN Put(Put(r.out, "status_flags", ServerStatus(o)), "warning_count", o.warnings)
                       ELSE IF OnlyTransactions(caps) THEN Put(r.out, "txn_status_flags", ServerStatus(o)) ELSE r.out
<1>1. PICK m, w \in Word : m = ServerStatus(o) /\ w = o.warnings
  OBVIOUS
<1>2. PICK a, b \in Seq(Nat) : a = Digits(m, 2) /\ b = Digits(w, 2)
  BY WordFacts
<1>3. \A field, z : Carries(UInt(2, field), a, m, z) /\ Carries(UInt(2, field), b, w, z)
  BY <1>2, WordFacts
<1>4. OnlyTransactions(caps) => "PROTOCOL_41" \notin caps
  BY DEF OnlyTransactions
<1>5. CASE "PROTOCOL_41" \in caps
  <2> DEFINE c == UInt(2, "status_flags")
             d == UInt(2, "warning_count")
  <2>1. OkMiddle(caps, o) = a \o b /\ OkWords(caps) = <<c, d>>
    BY <1>1, <1>2, <1>4, <1>5 DEF OkMiddle, OkWords, OnlyTransactions
  <2>2. c.field = "status_flags" /\ d.field = "warning_count"
    BY DEF UInt
  <2>3. (\A z \in Seq(Nat) : Carries(c, a, m, z)) /\ Carries(d, b, w, rest)
    BY <1>3
  <2> HIDE DEF c, d
  <2>4. Ready(r, (a \o b) \o rest)
    BY <2>1
  <2>5. Ready(Fields(r, <<c, d>>), rest)
        /\ Fields(r, <<c, d>>).out = Put(Put(r.out, "status_flags", m), "warning_count", w)
    <3> DEFINE t == Read(r, c)
               u == Read(t, d)
    <3>1. PICK y \in Seq(Nat) : y = b \o rest /\ (a \o b) \o rest = a \o y
      <4>1. (a \o b) \o rest = a \o (b \o rest) /\ b \o rest \in Seq(Nat)
        OBVIOUS
      <4>2. QED BY <4>1
    <3>2. Ready(t, y) /\ t.out = Put(r.out, "status_flags", m)
      <4>1. Ready(r, a \o y) /\ Carries(c, a, m, y)
        BY <2>3, <2>4, <3>1
      <4>2. Ready(t, y) /\ t.out = IF c.field = "skip" THEN r.out ELSE Put(r.out, c.field, m)
        BY <4>1, ReadReady
      <4>3. QED BY <2>2, <4>2
    <3> HIDE DEF t
    <3>3. Ready(u, rest) /\ u.out = Put(t.out, "warning_count", w)
      <4>1. Ready(t, b \o rest) /\ Carries(d, b, w, rest)
        BY <2>3, <3>1, <3>2
      <4>2. Ready(u, rest) /\ u.out = IF d.field = "skip" THEN t.out ELSE Put(t.out, d.field, w)
        BY <4>1, ReadReady
      <4>3. QED BY <2>2, <4>2
    <3> HIDE DEF u
    <3>4. Fields(r, <<c, d>>) = u
      BY FieldsTwo DEF t, u
    <3>5. QED BY <3>2, <3>3, <3>4
  <2>6. a \o b \in Seq(Nat)
    BY Regroup
  <2>7. QED BY <1>1, <1>5, <2>1, <2>5, <2>6
<1>6. CASE OnlyTransactions(caps)
  <2> DEFINE c == UInt(2, "txn_status_flags")
  <2>1. OkMiddle(caps, o) = a /\ OkWords(caps) = <<c>>
    BY <1>1, <1>2, <1>4, <1>6 DEF OkMiddle, OkWords, OnlyTransactions
  <2>2. c.field = "txn_status_flags"
    BY DEF UInt
  <2>3. Carries(c, a, m, rest)
    BY <1>3
  <2> HIDE DEF c
  <2>4. Ready(r, a \o rest)
    BY <2>1
  <2>5. Ready(Read(r, c), rest) /\ Read(r, c).out = IF c.field = "skip" THEN r.out ELSE Put(r.out, c.field, m)
    BY <2>3, <2>4, ReadReady
  <2>6. Fields(r, <<c>>) = Read(r, c)
    BY FieldsOne
  <2>7. QED BY <1>1, <1>4, <1>6, <2>1, <2>2, <2>5, <2>6
<1>7. CASE "PROTOCOL_41" \notin caps /\ ~OnlyTransactions(caps)
  <2>1. OkMiddle(caps, o) = <<>> /\ OkWords(caps) = <<>>
    BY <1>7 DEF OkMiddle, OkWords, OnlyTransactions
  <2>2. <<>> \in Seq(Nat) /\ Len(<<>>) = 0 /\ <<>> \o rest = rest
    OBVIOUS
  <2>3. Fields(r, OkWords(caps)) = r
    <3>1. Len(OkWords(caps)) = 0
      BY <2>1, <2>2
    <3>2. QED BY <3>1, FieldsNone
  <2>4. Ready(r, rest)
    BY <2>1, <2>2
  <2>5. QED BY <1>7, <2>1, <2>2, <2>3, <2>4
<1>8. QED BY <1>5, <1>6, <1>7

Has(out, field, value) == field \in DOMAIN out /\ out[field] = value

LEMMA PutHas ==
  ASSUME NEW out, NEW field, NEW value
  PROVE  /\ Has(Put(out, field, value), field, value)
         /\ \A f, v : Has(out, f, v) /\ f # field => Has(Put(out, field, value), f, v)
BY PutFacts DEF Has

\* What stands in the fields of an OK packet in front of its last part.
OkFront(out, caps, o) ==
  /\ Has(out, "affected_rows", o.rows) /\ Has(out, "last_insert_id", o.id)
  /\ Has(out, "status_flags", IF "PROTOCOL_41" \in caps THEN ServerStatus(o) ELSE 0)
  /\ Has(out, "warning_count", IF "PROTOCOL_41" \in caps THEN o.warnings ELSE 0)
  /\ Has(out, "txn_status_flags", IF OnlyTransactions(caps) THEN ServerStatus(o) ELSE 0)

Behind(out) ==
  /\ Has(out, "session_status", <<>>) /\ Has(out, "session_state_changes", <<>>)
  /\ Has(out, "info", <<>>) /\ Has(out, "last_gtid", <<>>)

\* An OK packet a server can write.
OkMeant(caps, o) ==
  /\ o.rows \in Sizes /\ o.id \in Sizes /\ ServerStatus(o) \in Word /\ o.warnings \in Word
  /\ o.info \in Seq(Nat) /\ Len(o.info) \in Sizes
  /\ "SESSION_TRACK" \in caps => "PROTOCOL_41" \in caps
  /\ Flag(ServerStatus(o), SessionStateChanged) <=> o.changes # <<>>
  /\ o.changes # <<>> =>
       /\ \E n \in Nat \ {0} : DOMAIN o.changes = 1..n /\ \A i \in 1..n : Tellable(o.changes[i])
       /\ Len(ServerChanges(o.changes)) \in Sizes

OkTail(caps, o) ==
  CASE "SESSION_TRACK" \notin caps -> o.info
    [] "SESSION_TRACK" \in caps /\ o.changes # <<>> -> ServerText(o.info) \o ServerText(ServerChanges(o.changes))
    [] OTHER -> IF o.info = <<>> THEN <<>> ELSE ServerText(o.info)

LEMMA OkFronted ==
  ASSUME NEW caps, NEW o, OkMeant(caps, o), NEW type \in Nat, NEW tail \in Seq(Nat), NEW packet1 \in Seq(Nat),
         packet1 = (((<<type>> \o ServerLenenc(o.rows)) \o ServerLenenc(o.id)) \o OkMiddle(caps, o)) \o tail
  PROVE  LET s == Fields(Open(packet1, OkDefaults), OkCounters \o OkWords(caps))
         IN Ready(s, tail) /\ OkFront(s.out, caps, o) /\ Behind(s.out)
<1> DEFINE r == Open(packet1, OkDefaults)
           s == Fields(r, OkCounters)
           t == Fields(s, OkWords(caps))
<1>1. PICK rows, id \in Sizes, m, w \in Word : rows = o.rows /\ id = o.id /\ m = ServerStatus(o) /\ w = o.warnings
  BY DEF OkMeant
<1>2. OkMiddle(caps, o) \in Seq(Nat)
  <2>1. PICK a, b \in Seq(Nat) : a = Digits(m, 2) /\ b = Digits(w, 2)
    BY WordFacts
  <2>2. a \o b \in Seq(Nat) /\ <<>> \in Seq(Nat)
    OBVIOUS
  <2>3. OkMiddle(caps, o) \in {a \o b, a, <<>>}
    BY <1>1, <2>1 DEF OkMiddle
  <2>4. QED BY <2>1, <2>2, <2>3
<1>3. PICK mid, front, rest \in Seq(Nat) :
        /\ mid = OkMiddle(caps, o) /\ front = (<<type>> \o ServerLenenc(rows)) \o ServerLenenc(id)
        /\ rest = mid \o tail /\ packet1 = front \o rest
  <2>1. PICK a, b, c \in Seq(Nat) : a = <<type>> /\ b = ServerLenenc(rows) /\ c = ServerLenenc(id)
    <3>1. rows \in Nat /\ id \in Nat
      BY DEF Sizes
    <3>2. ServerLenenc(rows) \in Seq(Nat) /\ ServerLenenc(id) \in Seq(Nat) /\ <<type>> \in Seq(Nat)
      BY <3>1, LenencFacts
    <3>3. QED BY <3>2
  <2>2. PICK front \in Seq(Nat) : front = (a \o b) \o c
    <3>1. (a \o b) \o c \in Seq(Nat)
      OBVIOUS
    <3>2. QED BY <3>1
  <2>3. PICK mid \in Seq(Nat) : mid = OkMiddle(caps, o)
    BY <1>2
  <2>4. (front \o mid) \o tail = front \o (mid \o tail) /\ mid \o tail \in Seq(Nat)
    BY SMTT(60)
  <2>5. packet1 = (front \o mid) \o tail
    BY <1>1, <2>1, <2>2, <2>3
  <2>6. QED BY <2>1, <2>2, <2>3, <2>4, <2>5
<1>4. Ready(r, front \o rest) /\ r.out = OkDefaults
  BY <1>3, OpenReady
<1> HIDE DEF r
<1>5. Ready(s, rest) /\ s.out = Put(Put(r.out, "affected_rows", rows), "last_insert_id", id)
  <2>1. Ready(r, CounterBytes(type, rows, id) \o rest)
    BY <1>3, <1>4 DEF CounterBytes
  <2>2. QED BY <2>1, OkCounted
<1> HIDE DEF s
<1>6. Ready(t, tail) /\ t.out = IF "PROTOCOL_41" \in caps
                                THEN Put(Put(s.out, "status_flags", m), "warning_count", w)
                                ELSE IF OnlyTransactions(caps) THEN Put(s.out, "txn_status_flags", m) ELSE s.out
  <2>1. Ready(s, OkMiddle(caps, o) \o tail)
    BY <1>3, <1>5
  <2>2. ServerStatus(o) \in Word /\ o.warnings \in Word
    BY DEF OkMeant
  <2>3. QED BY <1>1, <2>1, <2>2, OkWorded
<1> HIDE DEF t
<1>7. Fields(r, OkCounters \o OkWords(caps)) = t
  <2>1. PICK c1, c2, c3, c4, c5, c6 :
          /\ c1 = UInt(1, "skip") /\ c2 = Lenenc("affected_rows") /\ c3 = Lenenc("last_insert_id")
          /\ c4 = UInt(2, "status_flags") /\ c5 = UInt(2, "warning_count") /\ c6 = UInt(2, "txn_status_flags")
    OBVIOUS
  <2> DEFINE C == {c1, c2, c3, c4, c5, c6}
  <2>2. /\ <<c1, c2, c3>> \in Seq(C)
        /\ <<c4, c5>> \in Seq(C) /\ <<c6>> \in Seq(C) /\ <<>> \in Seq(C)
    OBVIOUS
  <2>3. OkCounters = <<c1, c2, c3>> /\ OkWords(caps) \in {<<c4, c5>>, <<c6>>, <<>>}
    BY <2>1 DEF OkCounters, OkWords
  <2> HIDE DEF C
  <2>4. PICK a, d \in Seq(C) : a = OkCounters /\ d = OkWords(caps)
    BY <2>2, <2>3
  <2>5. Fields(r, a \o d) = Fields(Fields(r, a), d)
    BY FieldsSplit
  <2>6. QED BY <2>4, <2>5 DEF s, t
<1>8. Behind(r.out) /\ Has(r.out, "status_flags", 0) /\ Has(r.out, "warning_count", 0) /\ Has(r.out, "txn_status_flags", 0)
  BY <1>4 DEF Behind, Has, OkDefaults
<1> DEFINE p == Put(r.out, "affected_rows", rows)
<1>9. /\ Behind(p) /\ Has(p, "status_flags", 0) /\ Has(p, "warning_count", 0) /\ Has(p, "txn_status_flags", 0)
      /\ Has(p, "affected_rows", rows)
  BY <1>8, PutHas DEF Behind
<1>10. s.out = Put(p, "last_insert_id", id)
  BY <1>5
<1> HIDE DEF p
<1>11. /\ Behind(s.out) /\ Has(s.out, "status_flags", 0) /\ Has(s.out, "warning_count", 0) /\ Has(s.out, "txn_status_flags", 0)
       /\ Has(s.out, "affected_rows", rows) /\ Has(s.out, "last_insert_id", id)
  BY <1>9, <1>10, PutHas DEF Behind
<1>12. OnlyTransactions(caps) => "PROTOCOL_41" \notin caps
  BY DEF OnlyTransactions
<1>13. OkFront(t.out, caps, o) /\ Behind(t.out)
  <2>1. CASE "PROTOCOL_41" \in caps
    <3> DEFINE x == Put(s.out, "status_flags", m)
    <3>1. t.out = Put(x, "warning_count", w)
      BY <1>6, <2>1
    <3>2. /\ Behind(x) /\ Has(x, "status_flags", m) /\ Has(x, "txn_status_flags", 0)
          /\ Has(x, "affected_rows", rows) /\ Has(x, "last_insert_id", id)
      BY <1>11, PutHas DEF Behind
    <3> HIDE DEF x
    <3>3. /\ Behind(t.out) /\ Has(t.out, "status_flags", m) /\ Has(t.out, "warning_count", w) /\ Has(t.out, "txn_status_flags", 0)
          /\ Has(t.out, "affected_rows", rows) /\ Has(t.out, "last_insert_id", id)
      BY <3>1, <3>2, PutHas DEF Behind
    <3>4. QED BY <1>1, <1>12, <2>1, <3>3 DEF OkFront
  <2>2. CASE OnlyTransactions(caps)
    <3>1. t.out = Put(s.out, "txn_status_flags", m)
      BY <1>6, <1>12, <2>2
    <3>2. /\ Behind(t.out) /\ Has(t.out, "status_flags", 0) /\ Has(t.out, "warning_count", 0) /\ Has(t.out, "txn_status_flags", m)
          /\ Has(t.out, "affected_rows", rows) /\ Has(t.out, "last_insert_id", id)
      BY <1>11, <3>1, PutHas DEF Behind
    <3>3. QED BY <1>1, <1>12, <2>2, <3>2 DEF OkFront
  <2>3. CASE "PROTOCOL_41" \notin caps /\ ~OnlyTransactions(caps)
    BY <1>1, <1>6, <1>11, <2>3 DEF OkFront
  <2>4. QED BY <2>1, <2>2, <2>3
<1>14. QED BY <1>6, <1>7, <1>13 DEF r

\* A call keeps the packet.
LEMMA TextBuff ==
  ASSUME NEW r, Good(r, <<>>)
  PROVE  GetLenencBuffer(r).buff = r.buff
<1>1. ASSUME NEW s, Good(s, <<>>), NEW n \in Nat, NEW value, NEW code
      PROVE  Moved(s, n, value).buff = s.buff /\ Fail(s, code).buff = s.buff
  BY <1>1 DEF Good, Safe, Parts, Moved, Fail
<1>2. ASSUME NEW s, Good(s, <<>>), NEW n \in Nat
      PROVE  /\ Good(GetInt(s, n), <<>>) /\ GetInt(s, n).buff = s.buff
             /\ GetInt(s, n).rc = "OK" => GetInt(s, n).val \in Nat
             /\ GetBuffer(s, n).buff = s.buff
  <2>1. Good(GetInt(s, n), <<>>) /\ (GetInt(s, n).rc = "OK" => GetInt(s, n).val \in Nat)
    BY <1>2, IntGood
  <2>2. GetInt(s, n).buff = s.buff /\ GetBuffer(s, n).buff = s.buff
    BY <1>1, <1>2 DEF GetInt, GetBuffer
  <2>3. QED BY <2>1, <2>2
<1>3. PICK s : s = GetInt(r, 1) /\ Good(s, <<>>) /\ s.buff = r.buff
  <2>1. 1 \in Nat
    OBVIOUS
  <2>2. QED BY <1>2, <2>1
<1>4. PICK t : t = GetLenenc(r) /\ Good(t, <<>>) /\ t.buff = r.buff /\ (t.rc = "OK" => t.val \in Nat)
  <2>1. GetLenenc(r) = AfterLeader(s)
    BY <1>3 DEF GetLenenc
  <2>2. AfterLeader(s).buff = s.buff
    <3>1. 2 \in Nat /\ 3 \in Nat /\ 8 \in Nat
      OBVIOUS
    <3>2. /\ GetInt(s, 2).buff = s.buff /\ GetInt(s, 3).buff = s.buff /\ GetInt(s, 8).buff = s.buff
          /\ \A code : Fail(s, code).buff = s.buff
      BY <1>1, <1>2, <1>3, <3>1
    <3>3. QED BY <3>2 DEF AfterLeader
  <2>3. Good(GetLenenc(r), <<>>) /\ (GetLenenc(r).rc = "OK" => GetLenenc(r).val \in Nat)
    BY LenencGood
  <2>4. QED BY <1>3, <2>1, <2>2, <2>3
<1>5. GetLenencBuffer(r) = AfterLength(t)
  BY <1>4 DEF GetLenencBuffer
<1>6. CASE t.rc = "OK"
  <2>1. GetBuffer(t, t.val).buff = t.buff /\ \A code : Fail(t, code).buff = t.buff
    BY <1>1, <1>2, <1>4, <1>6
  <2>2. QED BY <1>4, <1>5, <1>6, <2>1 DEF AfterLength
<1>7. CASE t.rc # "OK"
  BY <1>4, <1>5, <1>7 DEF AfterLength
<1>8. QED BY <1>6, <1>7

\* The part of an OK packet behind its words. The packet says nothing of the
\* session, or the session is not tracked.
LEMMA OkPlainTail ==
  ASSUME NEW s, NEW info \in Seq(Nat), Ready(s, info), Behind(s.out)
  PROVE  LET r == Finish(Read(s, EofBuffer("info")))
         IN r.rc = "OK" /\ Good(r, <<>>) /\ r.out = Put(s.out, "info", info)
<1>1. PICK none \in Seq(Nat) : none = <<>> /\ Len(none) = 0
  BY EmptySeq
<1>2. PICK c : c = EofBuffer("info") /\ c.get = "eof_buffer" /\ c.field = "info"
  <2>1. EofBuffer("info").get = "eof_buffer" /\ EofBuffer("info").field = "info"
    BY DEF EofBuffer
  <2>2. QED BY <2>1
<1>3. Ready(s, info \o none)
  <2>1. info \o none = info
    BY <1>1
  <2>2. QED BY <2>1
<1>4. Carries(c, info, info, none)
  BY <1>1, <1>2 DEF Carries
<1>5. Ready(Read(s, c), none) /\ Read(s, c).out = IF c.field = "skip" THEN s.out ELSE Put(s.out, c.field, info)
  BY <1>3, <1>4, ReadReady
<1>6. Finish(Read(s, c)) = Read(s, c)
  BY <1>1, <1>5, FinishReady
<1>7. QED BY <1>2, <1>5, <1>6 DEF Ready

\* One text, stored.
LEMMA TextReady ==
  ASSUME NEW s, NEW text \in Seq(Nat), Len(text) \in Sizes, NEW rest \in Seq(Nat), NEW field, field # "skip",
         Ready(s, ServerText(text) \o rest)
  PROVE  LET r == Read(s, LenencBuffer(field))
         IN Ready(r, rest) /\ r.out = Put(s.out, field, text) /\ r.buff = s.buff
<1>1. PICK c : c = LenencBuffer(field) /\ c.get = "lenenc_buffer" /\ c.field = field
  <2>1. LenencBuffer(field).get = "lenenc_buffer" /\ LenencBuffer(field).field = field
    BY DEF LenencBuffer
  <2>2. QED BY <2>1
<1>2. PICK a \in Seq(Nat) : a = ServerText(text)
  BY TextFacts
<1>3. Ready(s, a \o rest) /\ Carries(c, a, text, rest)
  BY <1>1, <1>2 DEF Carries
<1>4. Ready(Read(s, c), rest) /\ Read(s, c).out = IF c.field = "skip" THEN s.out ELSE Put(s.out, c.field, text)
  BY <1>3, ReadReady
<1>5. Read(s, c).buff = s.buff
  <2>1. Good(s, <<>>) /\ s.rc = "OK"
    BY <1>3 DEF Ready
  <2> DEFINE t == GetLenencBuffer(s)
  <2>2. t.buff = s.buff /\ Good(t, <<>>)
    BY <2>1, TextBuff, LenencBufferGood
  <2>3. Read(s, c) = Stored(t, field)
    BY <1>1, <2>1 DEF Read, Call
  <2> HIDE DEF t
  <2>4. Stored(t, field).buff = t.buff
    BY <2>2 DEF Good, Safe, Parts, Stored, Store
  <2>5. QED BY <2>2, <2>3, <2>4
<1>6. QED BY <1>1, <1>4, <1>5

\* The session's status alone.
LEMMA OkStatusTail ==
  ASSUME NEW s, NEW info \in Seq(Nat), Len(info) \in Sizes, Ready(s, ServerText(info)), NEW status,
         Has(s.out, "status_flags", status), ~Flag(status, SessionStateChanged)
  PROVE  LET r == Finish(SessionState(s))
         IN r.rc = "OK" /\ Good(r, <<>>) /\ r.out = Put(s.out, "session_status", info)
<1> DEFINE t == Read(s, LenencBuffer("session_status"))
<1>1. PICK none \in Seq(Nat) : none = <<>> /\ Len(none) = 0
  BY EmptySeq
<1>2. Ready(s, ServerText(info) \o none)
  <2>1. PICK a \in Seq(Nat) : a = ServerText(info)
    BY TextFacts
  <2>2. a \o none = a
    BY <1>1
  <2>3. QED BY <2>1, <2>2
<1>3. Ready(t, none) /\ t.out = Put(s.out, "session_status", info)
  <2>1. PICK field : field = "session_status" /\ field # "skip"
    OBVIOUS
  <2>2. t = Read(s, LenencBuffer(field))
    BY <2>1
  <2> HIDE DEF t
  <2>3. Ready(t, none) /\ t.out = Put(s.out, field, info)
    BY <1>2, <2>1, <2>2, TextReady
  <2>4. QED BY <2>1, <2>3
<1>4. SessionState(s) = IF t.rc = "OK"
                        THEN IF Flag(t.out.status_flags, SessionStateChanged)
                             THEN LET u == Read(t, LenencBuffer("session_state_changes"))
                                  IN IF u.rc = "OK" THEN StateChanges(u) ELSE u
                             ELSE t
                        ELSE t
  BY DEF SessionState, Then
<1> HIDE DEF t
<1>5. t.out["status_flags"] = status /\ t.rc = "OK"
  <2>1. Has(t.out, "status_flags", status)
    BY <1>3, PutHas
  <2>2. QED BY <1>3, <2>1 DEF Has, Ready
<1>6. SessionState(s) = t
  BY <1>4, <1>5
<1>7. Finish(t) = t
  BY <1>1, <1>3, FinishReady
<1>8. QED BY <1>3, <1>5, <1>6, <1>7 DEF Ready

\* The status and the changes.
LEMMA OkChangesTail ==
  ASSUME NEW s, NEW info \in Seq(Nat), Len(info) \in Sizes, NEW status,
         Has(s.out, "status_flags", status), Flag(status, SessionStateChanged),
         NEW changes, NEW n \in Nat \ {0}, DOMAIN changes = 1..n, \A i \in 1..n : Tellable(changes[i]),
         Len(ServerChanges(changes)) \in Sizes, Ready(s, ServerText(info) \o ServerText(ServerChanges(changes))),
         Has(s.out, "last_gtid", <<>>)
  PROVE  LET r == Finish(SessionState(s))
         IN /\ (\E i \in 1..n : TooLong(changes[i])) => r.rc = "PROTOCOL_VIOLATION"
            /\ ~(\E i \in 1..n : TooLong(changes[i])) =>
                 /\ r.rc = "OK"
                 /\ r.out = Put(Put(Put(s.out, "session_status", info), "session_state_changes", ServerChanges(changes)),
                                "last_gtid", LastOf(changes, n))
<1> DEFINE t == Read(s, LenencBuffer("session_status"))
           u == Read(t, LenencBuffer("session_state_changes"))
<1>1. PICK none \in Seq(Nat) : none = <<>> /\ Len(none) = 0
  BY EmptySeq
<1>2. PICK list \in Seq(Nat) : list = ServerChanges(changes) /\ n <= Len(list) /\ Len(list) \in Sizes
  BY ChangesBytes
<1>3. PICK b \in Seq(Nat) : b = ServerText(list) /\ b \o none = b
  <2>1. PICK b \in Seq(Nat) : b = ServerText(list)
    BY TextFacts
  <2>2. b \o none = b
    BY <1>1
  <2>3. QED BY <2>1, <2>2
<1>4. Ready(t, b) /\ t.out = Put(s.out, "session_status", info)
  <2>1. PICK field : field = "session_status" /\ field # "skip"
    OBVIOUS
  <2>2. t = Read(s, LenencBuffer(field))
    BY <2>1
  <2>3. Ready(s, ServerText(info) \o b)
    BY <1>2, <1>3
  <2> HIDE DEF t
  <2>4. Ready(t, b) /\ t.out = Put(s.out, field, info)
    BY <2>1, <2>2, <2>3, TextReady
  <2>5. QED BY <2>1, <2>4
<1>5. SessionState(s) = IF t.rc = "OK"
                        THEN IF Flag(t.out.status_flags, SessionStateChanged)
                             THEN IF u.rc = "OK" THEN StateChanges(u) ELSE u
                             ELSE t
                        ELSE t
  BY DEF SessionState, Then
<1> HIDE DEF t
<1>6. Ready(u, none) /\ u.out = Put(t.out, "session_state_changes", list) /\ u.buff = t.buff
  <2>1. PICK field : field = "session_state_changes" /\ field # "skip"
    OBVIOUS
  <2>2. u = Read(t, LenencBuffer(field))
    BY <2>1
  <2>3. Ready(t, ServerText(list) \o none)
    BY <1>3, <1>4
  <2> HIDE DEF u
  <2>4. Ready(u, none) /\ u.out = Put(t.out, field, list) /\ u.buff = t.buff
    <3>1. Len(list) \in Sizes /\ field # "skip"
      BY <1>2, <2>1
    <3>2. /\ Ready(Read(t, LenencBuffer(field)), none) /\ Read(t, LenencBuffer(field)).out = Put(t.out, field, list)
          /\ Read(t, LenencBuffer(field)).buff = t.buff
      BY <2>3, <3>1, TextReady
    <3>3. QED BY <2>2, <3>2
  <2>5. QED BY <2>1, <2>4
<1> HIDE DEF u
<1>7. Has(t.out, "status_flags", status) /\ Has(t.out, "last_gtid", <<>>)
  BY <1>4, PutHas
<1>8. Has(u.out, "session_state_changes", list) /\ Has(u.out, "last_gtid", <<>>)
  BY <1>6, <1>7, PutHas
<1>9. SessionState(s) = StateChanges(u)
  BY <1>4, <1>5, <1>6, <1>7 DEF Ready, Has
<1>10. Len(list) <= Len(u.buff)
  <2>1. PICK a \in Seq(Nat) : a = ServerLenenc(Len(list)) /\ b = a \o list
    <3>1. ServerText(list) = ServerLenenc(Len(list)) \o list
      BY TextFacts
    <3>2. PICK k \in Nat : k = Len(list)
      OBVIOUS
    <3>3. ServerLenenc(k) \in Seq(Nat)
      BY LenencFacts
    <3>4. QED BY <1>3, <3>1, <3>2, <3>3
  <2>2. Len(b) = Len(a) + Len(list) /\ Len(a) \in Nat /\ Len(list) \in Nat
    BY Zenon, <2>1, Lengths
  <2>3. Len(t.buff) = t.pos + Len(b) /\ t.pos \in Nat
    BY <1>4, SafeFacts DEF Ready, Ahead
  <2>4. PICK k, l, p \in Nat : k = Len(a) /\ l = Len(list) /\ p = t.pos
    BY <2>2, <2>3
  <2>5. Len(u.buff) = p + (k + l)
    BY Zenon, <1>6, <2>2, <2>3, <2>4
  <2>6. QED BY <2>4, <2>5
<1>11. /\ (\E i \in 1..n : TooLong(changes[i])) => StateChanges(u).rc = "PROTOCOL_VIOLATION" /\ Good(StateChanges(u), <<>>)
       /\ ~(\E i \in 1..n : TooLong(changes[i])) =>
            Ready(StateChanges(u), none) /\ StateChanges(u).out = Put(u.out, "last_gtid", LastOf(changes, n))
  <2>1. /\ Ready(u, none) /\ u.out.session_state_changes = ServerChanges(changes) /\ u.out.last_gtid = <<>>
        /\ Len(ServerChanges(changes)) <= Len(u.buff)
    BY <1>2, <1>6, <1>8, <1>10 DEF Has
  <2>2. QED BY <2>1, ChangesReady
<1> DEFINE v == StateChanges(u)
<1> HIDE DEF v
<1>12. CASE \E i \in 1..n : TooLong(changes[i])
  <2>1. v.rc = "PROTOCOL_VIOLATION"
    BY <1>11, <1>12 DEF v
  <2>2. Finish(v) = v
    BY <2>1 DEF Finish
  <2>3. QED BY <1>9, <1>12, <2>1, <2>2 DEF v
<1>13. CASE ~(\E i \in 1..n : TooLong(changes[i]))
  <2>1. Ready(v, none) /\ v.out = Put(u.out, "last_gtid", LastOf(changes, n))
    BY <1>11, <1>13 DEF v
  <2>2. Finish(v) = v
    BY <1>1, <2>1, FinishReady
  <2>3. v.rc = "OK"
    BY <2>1 DEF Ready
  <2>4. QED BY <1>2, <1>4, <1>6, <1>9, <1>13, <2>1, <2>2, <2>3 DEF v
<1>14. QED BY <1>12, <1>13

\* The fields an OK packet is to fill in, one by one.
Session(out, caps, o) ==
  LET track == "SESSION_TRACK" \in caps
  IN /\ Has(out, "session_status", IF track THEN o.info ELSE <<>>)
     /\ Has(out, "info", IF track THEN <<>> ELSE o.info)
     /\ Has(out, "last_gtid", IF track THEN LastGtid(o.changes) ELSE <<>>)

\* One more byte in front of the bytes of a number that is m at least.
LEMMA MoreBytes ==
  ASSUME NEW g \in Nat, NEW byte \in Nat, NEW m \in Nat, g >= m, Radix * m <= Huge, NEW low \in Nat, byte >= low, low <= Huge,
         NEW h, h = IF g >= Huge \div Radix THEN Huge ELSE byte + Radix * g
  PROVE  h \in Nat /\ h >= Radix * m /\ h >= low
<1>1. Radix \in Nat /\ Huge \in Nat
  BY RadixFacts
<1>2. PICK d \in Nat : g = m + d
  <2>1. g - m \in Nat /\ g = m + (g - m)
    OBVIOUS
  <2>2. QED BY <2>1
<1>3. Radix * g = Radix * m + Radix * d /\ Radix * d \in Nat /\ Radix * m \in Nat
  BY <1>1, <1>2
<1>4. CASE g >= Huge \div Radix
  BY <1>1, <1>4
<1>5. CASE ~(g >= Huge \div Radix)
  <2>1. PICK x, y \in Nat : x = Radix * m /\ y = Radix * d /\ Radix * g = x + y
    BY <1>3
  <2>2. h = byte + (x + y)
    BY <1>5, <2>1
  <2>3. QED BY <2>1, <2>2
<1>6. QED BY <1>4, <1>5

\* Eight bytes of which the fifth is not 0 are more than any length to be met.
LEMMA FarNumber ==
  ASSUME NEW bytes \in Seq(Nat), Len(bytes) = 8, bytes[5] >= 1
  PROVE  Number(bytes) \in Nat /\ Number(bytes) >= Radix^2
<1> DEFINE g == CHOOSE h : Counts(h, bytes)
           H == Huge \div Radix
<1>1. \E h : Counts(h, bytes)
  <2>1. Len(bytes) \in Nat
    OBVIOUS
  <2>2. PICK h : Runs(h, "number", bytes, 0, Len(bytes))
    BY <2>1, RunsExists
  <2>3. Counts(h, bytes)
    BY <2>2 DEF Runs, Round, Counts
  <2>4. QED BY <2>3
<1>2. Counts(g, bytes)
  BY <1>1
<1>3. Number(bytes) = g[8]
  BY DEF Number, Counts
<1> HIDE DEF g
<1>4. \A k \in 0..8 : g[k] = IF k = 0 THEN 0 ELSE IF g[k - 1] >= H THEN Huge ELSE bytes[9 - k] + Radix * g[k - 1]
  BY <1>2 DEF Counts
<1>5. /\ g[0] = 0
      /\ g[1] = (IF g[0] >= H THEN Huge ELSE bytes[8] + Radix * g[0])
      /\ g[2] = (IF g[1] >= H THEN Huge ELSE bytes[7] + Radix * g[1])
      /\ g[3] = (IF g[2] >= H THEN Huge ELSE bytes[6] + Radix * g[2])
      /\ g[4] = (IF g[3] >= H THEN Huge ELSE bytes[5] + Radix * g[3])
      /\ g[5] = (IF g[4] >= H THEN Huge ELSE bytes[4] + Radix * g[4])
      /\ g[6] = (IF g[5] >= H THEN Huge ELSE bytes[3] + Radix * g[5])
      /\ g[7] = (IF g[6] >= H THEN Huge ELSE bytes[2] + Radix * g[6])
      /\ g[8] = (IF g[7] >= H THEN Huge ELSE bytes[1] + Radix * g[7])
  <2> HIDE DEF H
  <2>1. /\ 0 \in 0..8 /\ 1 \in 0..8 /\ 2 \in 0..8 /\ 3 \in 0..8 /\ 4 \in 0..8 /\ 5 \in 0..8 /\ 6 \in 0..8 /\ 7 \in 0..8 /\ 8 \in 0..8
        /\ 1 - 1 = 0 /\ 2 - 1 = 1 /\ 3 - 1 = 2 /\ 4 - 1 = 3 /\ 5 - 1 = 4 /\ 6 - 1 = 5 /\ 7 - 1 = 6 /\ 8 - 1 = 7
        /\ 9 - 1 = 8 /\ 9 - 2 = 7 /\ 9 - 3 = 6 /\ 9 - 4 = 5 /\ 9 - 5 = 4 /\ 9 - 6 = 3 /\ 9 - 7 = 2 /\ 9 - 8 = 1
    OBVIOUS
  <2>2. ASSUME NEW k \in 1..8, NEW j, j = k - 1, NEW b, b = bytes[9 - k]
        PROVE  g[k] = (IF g[j] >= H THEN Huge ELSE b + Radix * g[j])
    <3>1. k \in 0..8 /\ k # 0
      OBVIOUS
    <3>2. QED BY <1>4, <2>2, <3>1
  <2>3. g[0] = 0 BY <1>4, <2>1
  <2>4. g[1] = (IF g[0] >= H THEN Huge ELSE bytes[8] + Radix * g[0]) BY <2>1, <2>2
  <2>5. g[2] = (IF g[1] >= H THEN Huge ELSE bytes[7] + Radix * g[1]) BY <2>1, <2>2
  <2>6. g[3] = (IF g[2] >= H THEN Huge ELSE bytes[6] + Radix * g[2]) BY <2>1, <2>2
  <2>7. g[4] = (IF g[3] >= H THEN Huge ELSE bytes[5] + Radix * g[3]) BY <2>1, <2>2
  <2>8. g[5] = (IF g[4] >= H THEN Huge ELSE bytes[4] + Radix * g[4]) BY <2>1, <2>2
  <2>9. g[6] = (IF g[5] >= H THEN Huge ELSE bytes[3] + Radix * g[5]) BY <2>1, <2>2
  <2>10. g[7] = (IF g[6] >= H THEN Huge ELSE bytes[2] + Radix * g[6]) BY <2>1, <2>2
  <2>11. g[8] = (IF g[7] >= H THEN Huge ELSE bytes[1] + Radix * g[7]) BY <2>1, <2>2
  <2>12. QED BY <2>3, <2>4, <2>5, <2>6, <2>7, <2>8, <2>9, <2>10, <2>11
<1>6. PICK b1, b2, b3, b4, b5, b6, b7, b8 \in Nat :
        b1 = bytes[1] /\ b2 = bytes[2] /\ b3 = bytes[3] /\ b4 = bytes[4]
        /\ b5 = bytes[5] /\ b6 = bytes[6] /\ b7 = bytes[7] /\ b8 = bytes[8]
  <2>1. \A i \in 1..Len(bytes) : bytes[i] \in Nat
    <3>1. \A q \in Seq(Nat) : \A i \in 1..Len(q) : q[i] \in Nat
      OBVIOUS
    <3>2. QED BY <3>1
  <2>2. /\ 1 \in 1..Len(bytes) /\ 2 \in 1..Len(bytes) /\ 3 \in 1..Len(bytes) /\ 4 \in 1..Len(bytes)
        /\ 5 \in 1..Len(bytes) /\ 6 \in 1..Len(bytes) /\ 7 \in 1..Len(bytes) /\ 8 \in 1..Len(bytes)
    OBVIOUS
  <2>3. QED BY <2>1, <2>2
<1>7. /\ Radix \in Nat /\ Radix >= 16 /\ Huge \in Nat /\ H \in Nat /\ Radix^2 = Radix * Radix /\ Radix^2 \in Nat
      /\ Radix^2 < H
  BY RadixFacts, Places
<1>8. H <= Huge
  <2>1. \A h \in Nat : \A r \in Nat \ {0} : h \div r <= h
    OBVIOUS
  <2>2. QED BY <1>7, <2>1
<1> HIDE DEF H
<1>9. Radix * 0 = 0 /\ Radix * 1 = Radix /\ 0 \in Nat /\ 1 \in Nat /\ Radix <= Huge /\ 1 <= Radix /\ Radix <= Radix * Radix
  <2>1. Radix <= Radix * Radix
    BY <1>7
  <2>2. QED BY <1>7, <1>8, <2>1
<1>10. ASSUME NEW x \in Nat, NEW byte \in Nat, NEW h, h = IF x >= H THEN Huge ELSE byte + Radix * x
       PROVE  h \in Nat /\ (byte >= 1 => h >= 1)
  <2>1. CASE x >= H
    BY <1>7, <1>9, <1>10, <2>1
  <2>2. CASE ~(x >= H)
    <3>1. PICK y \in Nat : y = Radix * x
      BY <1>7
    <3>2. QED BY <1>10, <2>2, <3>1
  <2>3. QED BY <2>1, <2>2
<1>11. g[1] \in Nat
  <2>1. PICK x \in Nat : x = 0
    OBVIOUS
  <2>2. PICK h : h = g[1] /\ h = IF x >= H THEN Huge ELSE b8 + Radix * x
    BY Zenon, <1>5, <1>6, <2>1
  <2>3. h \in Nat /\ (b8 >= 1 => h >= 1)
    BY <1>10, <2>2
  <2>4. QED BY Zenon, <2>2, <2>3
<1>12. g[2] \in Nat
  <2>1. PICK x \in Nat : x = g[1]
    BY <1>11
  <2>2. PICK h : h = g[2] /\ h = IF x >= H THEN Huge ELSE b7 + Radix * x
    BY <1>5, <1>6, <2>1
  <2>3. h \in Nat /\ (b7 >= 1 => h >= 1)
    BY <1>10, <2>2
  <2>4. QED BY <1>6, <2>2, <2>3
<1>13. g[3] \in Nat
  <2>1. PICK x \in Nat : x = g[2]
    BY <1>12
  <2>2. PICK h : h = g[3] /\ h = IF x >= H THEN Huge ELSE b6 + Radix * x
    BY <1>5, <1>6, <2>1
  <2>3. h \in Nat /\ (b6 >= 1 => h >= 1)
    BY <1>10, <2>2
  <2>4. QED BY <1>6, <2>2, <2>3
<1>14. g[4] \in Nat /\ g[4] >= 1
  <2>1. PICK x \in Nat : x = g[3]
    BY <1>13
  <2>2. PICK h : h = g[4] /\ h = IF x >= H THEN Huge ELSE b5 + Radix * x
    BY <1>5, <1>6, <2>1
  <2>3. h \in Nat /\ (b5 >= 1 => h >= 1)
    BY <1>10, <2>2
  <2>4. QED BY <1>6, <2>2, <2>3
<1>15. g[5] \in Nat /\ g[5] >= Radix
  <2>1. PICK m, low \in Nat : m = 1 /\ low = 0
    OBVIOUS
  <2>2. PICK x, h : x = g[4] /\ h = g[5] /\ x \in Nat /\ x >= m
    BY <1>14, <2>1
  <2>3. h = IF x >= Huge \div Radix THEN Huge ELSE b4 + Radix * x
    BY <1>5, <1>6, <2>2 DEF H
  <2>4. Radix * m <= Huge /\ Radix * m = Radix /\ b4 >= low /\ low <= Huge
    BY <1>7, <1>9, <2>1
  <2>5. h \in Nat /\ h >= Radix * m
    BY <2>2, <2>3, <2>4, MoreBytes
  <2>6. QED BY <2>2, <2>4, <2>5
<1>16. Radix * Radix <= Huge /\ Radix * 1 <= Huge
  BY <1>7, <1>8, <1>9
<1>17. g[6] \in Nat /\ g[6] >= Radix * Radix
  <2>1. PICK m, low \in Nat : m = Radix /\ low = 0
    BY <1>7
  <2>2. PICK x, h : x = g[5] /\ h = g[6] /\ x \in Nat /\ x >= m
    BY <1>15, <2>1
  <2>3. h = IF x >= Huge \div Radix THEN Huge ELSE b3 + Radix * x
    BY <1>5, <1>6, <2>2 DEF H
  <2>4. Radix * m <= Huge /\ b3 >= low /\ low <= Huge
    BY <1>7, <1>16, <2>1
  <2>5. h \in Nat /\ h >= Radix * m
    BY <2>2, <2>3, <2>4, MoreBytes
  <2>6. QED BY <2>1, <2>2, <2>5
<1>18. PICK m \in Nat : m = Radix * Radix /\ Radix * Radix >= Radix
  BY <1>7, <1>9
<1>19. ASSUME NEW x \in Nat, x >= m, NEW byte \in Nat, NEW h, h = IF x >= H THEN Huge ELSE byte + Radix * x
       PROVE  h \in Nat /\ h >= m
  <2>1. CASE x >= H
    BY <1>7, <1>16, <1>18, <1>19, <2>1
  <2>2. CASE ~(x >= H)
    <3>1. Radix * x \in Nat /\ Radix * x >= x
      BY <1>7
    <3>2. PICK y \in Nat : y = Radix * x /\ y >= x
      BY <3>1
    <3>3. h = byte + y
      BY <1>19, <2>2, <3>2
    <3>4. QED BY <1>18, <1>19, <3>2, <3>3
  <2>3. QED BY <2>1, <2>2
<1>20. g[7] \in Nat /\ g[7] >= m
  BY <1>5, <1>6, <1>17, <1>18, <1>19
<1>21. g[8] \in Nat /\ g[8] >= m
  BY <1>5, <1>6, <1>19, <1>20
<1>22. QED BY <1>3, <1>7, <1>18, <1>21

\* A packet that starts like a row whose first length takes eight bytes, and
\* whose sixth byte makes that length more than the packet has.
LEMMA FarRow ==
  ASSUME NEW buff \in Seq(Nat), Len(buff) >= 9, Len(buff) < Radix^2, buff[1] = PacketEof, buff[6] >= 1
  PROVE  ParseRow(buff, 2).rc = "TRUNCATED_PACKET"
<1> DEFINE r == Open(buff, [values |-> <<>>])
           s == GetInt(r, 1)
           t == GetInt(s, 8)
           u == Fail(t, "TRUNCATED_PACKET")
           f == CHOOSE g : RowRuns(g, r, 2)
<1>1. PICK n \in Nat : n = Len(buff) /\ n >= 9
  OBVIOUS
<1>2. Good(r, <<>>) /\ r.rc = "OK" /\ r.buff = buff /\ r.pos = 0
  BY OpenGood DEF Open
<1>3. s.rc = "OK" /\ s.val = Leader64 /\ s.buff = buff /\ s.pos = 1 /\ Good(s, <<>>)
  <2>1. Check(r, 1)
    BY <1>1, <1>2 DEF Check, Left
  <2>2. Peek(r, 1) = <<buff[1]>>
    BY <1>1, <1>2 DEF Peek
  <2>3. buff[1] \in Nat /\ PacketEof = Leader64
    BY <1>1 DEF PacketEof, Leader64
  <2>4. s = Moved(r, 1, buff[1])
    BY <2>1, <2>2, <2>3, NumberOne DEF GetInt
  <2>5. s.val = buff[1] /\ s.rc = r.rc
    BY <1>2, <2>1, <2>4, MovedGood
  <2>6. s.buff = r.buff /\ s.pos = r.pos + 1
    BY <1>2, <2>4 DEF Moved, Good, Safe, Parts
  <2>7. Good(s, <<>>)
    BY <1>2, IntGood
  <2>8. QED BY <1>2, <2>3, <2>5, <2>6, <2>7
<1> HIDE DEF r, s
<1>4. /\ t.rc = "OK" /\ t.val \in Nat /\ t.val >= Radix^2 /\ t.buff = buff /\ t.pos = 9 /\ Good(t, <<>>)
  <2>1. Check(s, 8)
    BY <1>1, <1>3 DEF Check, Left
  <2> DEFINE p == Peek(s, 8)
  <2>2. p \in Seq(Nat) /\ Len(p) = 8
    BY <1>3, PeekFacts
  <2>3. p[5] = buff[6]
    <3>1. s.pos + 5 = 6 /\ 6 <= Len(s.buff) /\ 5 \in 1..8
      BY <1>1, <1>3
    <3>2. p[5] = IF s.pos + 5 <= Len(s.buff) THEN s.buff[s.pos + 5] ELSE 0
      BY <3>1 DEF Peek
    <3>3. QED BY <1>3, <3>1, <3>2
  <2>4. t = Moved(s, 8, Number(p))
    BY <2>1 DEF GetInt
  <2> HIDE DEF p
  <2>5. Number(p) \in Nat /\ Number(p) >= Radix^2
    BY <2>2, <2>3, FarNumber
  <2>6. t.val = Number(p) /\ t.rc = s.rc
    BY <1>3, <2>1, <2>4, MovedGood
  <2>7. t.buff = s.buff /\ t.pos = s.pos + 8
    BY <1>3, <2>4 DEF Moved, Good, Safe, Parts
  <2>8. Good(t, <<>>)
    BY <1>3, IntGood
  <2>9. QED BY <1>3, <2>5, <2>6, <2>7, <2>8
<1>5. AfterLeader(s) = t
  <2>1. NullLeader \in Nat /\ Leader64 \in Nat /\ NullLeader < Leader64 /\ Leader64 \notin {NullLeader, Leader16, Leader24}
    BY RadixFacts DEF NullLeader, Leader16, Leader24, Leader64
  <2>2. QED BY <1>3, <2>1 DEF AfterLeader
<1> HIDE DEF t
<1>6. GetLenencBuffer(r) = u
  <2>1. t.val > Left(t)
    <3>1. PICK x, y \in Nat : x = t.val /\ y = Radix^2 /\ x >= y /\ n < y
      BY <1>1, <1>4, Places
    <3>2. Left(t) = n - 9
      BY <1>1, <1>4 DEF Left
    <3>3. QED BY <1>1, <3>1, <3>2
  <2>2. AfterLength(t) = u
    BY <1>4, <2>1 DEF AfterLength
  <2>3. GetLenenc(r) = t
    BY <1>5 DEF GetLenenc, s
  <2>4. QED BY <2>2, <2>3 DEF GetLenencBuffer
<1>7. u.rc = "TRUNCATED_PACKET"
  <2>1. PICK code, b : code = "TRUNCATED_PACKET" /\ code # "EOF" /\ b = <<>>
    OBVIOUS
  <2>2. Good(t, b)
    BY <1>4, <2>1
  <2>3. Fail(t, code).rc = code
    BY <2>1, <2>2, FailGood
  <2>4. QED BY <2>1, <2>3
<1> HIDE DEF u
<1>8. TextValue(r) = u
  BY <1>6, <1>7 DEF TextValue, TextField
<1>9. ParseRow(buff, 2) = Finish(f[2])
  BY DEF ParseRow, Rounds, RowRuns, r
<1>10. \E g : RowRuns(g, r, 2)
  <2>1. PICK g : Runs(g, "row", <<>>, r, 2)
    BY RunsExists
  <2>2. RowRuns(g, r, 2)
    BY <2>1 DEF Runs, Round, Body, RowRuns
  <2>3. QED BY <2>2
<1>11. RowRuns(f, r, 2)
  BY <1>10
<1> HIDE DEF f
<1>12. f[0] = r /\ f[1] = TextValue(r) /\ f[2] = f[1]
  <2>1. \A i \in 0..2 : f[i] = IF i = 0 THEN r ELSE IF f[i - 1].rc = "OK" THEN TextValue(f[i - 1]) ELSE f[i - 1]
    BY <1>11 DEF RowRuns
  <2>2. 0 \in 0..2 /\ 1 \in 0..2 /\ 2 \in 0..2 /\ 1 - 1 = 0 /\ 2 - 1 = 1
    OBVIOUS
  <2>3. f[0] = r
    BY <2>1, <2>2
  <2>4. f[1] = TextValue(r)
    BY <1>2, <2>1, <2>2, <2>3
  <2>5. f[2] = f[1]
    BY <1>7, <1>8, <2>1, <2>2, <2>4
  <2>6. QED BY <2>3, <2>4, <2>5
<1>13. QED BY <1>7, <1>8, <1>9, <1>12 DEF Finish

LEMMA InSizes ==
  ASSUME NEW n \in Nat, n <= Radix^3
  PROVE  n \in Sizes
BY SmallNumbers, FitsIn DEF Sizes

\* A change of the session's state whose bytes are few.
Brief(c) == c.type \in Nat /\ c.data \in Seq(Nat) /\ Len(c.data) <= Radix

LEMMA BriefFacts ==
  ASSUME NEW c, Brief(c)
  PROVE  Tellable(c) /\ ServerChange(c) \in Seq(Nat) /\ Len(ServerChange(c)) \in 1..(Len(c.data) + 20)
<1>1. PICK n, k \in Nat : n = Len(c.data) /\ n <= k /\ k = Radix
  BY RadixFacts DEF Brief
<1>2. PICK a \in Seq(Nat) : a = ServerLenenc(n) /\ Len(a) \in 1..9
  BY LenencFacts
<1>3. PICK data \in Seq(Nat) : data = c.data /\ Len(data) = n
  BY <1>1 DEF Brief
<1>4. ServerText(data) = a \o data /\ a \o data \in Seq(Nat) /\ Len(a \o data) = Len(a) + n
  <2>1. ServerText(data) = a \o data
    BY <1>2, <1>3, TextFacts
  <2>2. a \o data \in Seq(Nat) /\ Len(a \o data) = Len(a) + Len(data)
    OBVIOUS
  <2>3. QED BY <1>3, <2>1, <2>2
<1>5. <<0>> \in Seq(Nat) /\ Len(<<0>>) = 1
  OBVIOUS
<1>6. PICK zero \in Seq(Nat) : zero = <<0>> /\ Len(zero) = 1
  BY <1>5
<1>7. PICK text \in Seq(Nat) : text = ServerText(data) /\ Len(text) = Len(a) + n
  BY <1>4
<1>8. zero \o text \in Seq(Nat) /\ Len(zero \o text) = 1 + Len(text)
  BY <1>6
<1>9. PICK info \in Seq(Nat) : info = ChangeInfo(c) /\ Len(info) <= n + 10
  <2>1. ChangeInfo(c) \in {zero \o text, data}
    BY <1>3, <1>6, <1>7 DEF ChangeInfo
  <2>2. Len(zero \o text) <= n + 10 /\ Len(data) <= n + 10
    <3>1. PICK x, y, z \in Nat : x = Len(a) /\ y = Len(text) /\ z = Len(zero \o text) /\ x <= 9 /\ y = x + n /\ z = 1 + y
      <4>1. Len(a) \in Nat /\ Len(text) \in Nat /\ Len(zero \o text) \in Nat
        OBVIOUS
      <4>2. Len(a) <= 9 /\ Len(text) = Len(a) + n /\ Len(zero \o text) = 1 + Len(text)
        <5>1. \A y \in 1..9 : y <= 9
          OBVIOUS
        <5>2. Len(a) <= 9
          BY <1>2, <5>1
        <5>3. QED BY <1>7, <1>8, <5>2
      <4>3. QED BY <4>1, <4>2
    <3>2. QED BY <1>3, <3>1
  <2>3. QED BY <1>8, <2>1, <2>2
<1>10. Radix^3 \in Nat /\ n <= Radix^3 /\ n + 10 <= Radix^3
  <2>1. Radix * Radix >= 2 * Radix
    BY RadixFacts
  <2>2. PICK s \in Nat : s = Radix^2 /\ s >= 2 * k /\ k >= 16
    BY <1>1, <2>1, RadixFacts, Places
  <2>3. Radix^3 = k * s /\ k * s >= s
    BY <1>1, <2>2, Places
  <2>4. PICK x \in Nat : x = Radix^3 /\ x >= s
    BY <2>3, Places
  <2>5. QED BY <1>1, <2>2, <2>4
<1>11. n \in Sizes /\ Len(info) \in Sizes
  <2>1. Len(info) \in Nat
    OBVIOUS
  <2>2. PICK x, y, z \in Nat : x = Len(info) /\ y = Radix^3 /\ x <= n + 10 /\ n + 10 <= y /\ z = n /\ x <= y
    BY <1>9, <1>10, <2>1
  <2>3. x \in Sizes
    BY <2>2, InSizes
  <2>4. n \in Sizes
    BY <1>10, InSizes
  <2>5. QED BY <2>2, <2>3, <2>4
<1>12. Tellable(c)
  BY <1>1, <1>3, <1>9, <1>11 DEF Tellable, Brief
<1>13. PICK m \in Nat : m = Len(info) /\ m <= n + 10
  BY <1>9
<1>14. PICK b \in Seq(Nat) : b = ServerLenenc(m) /\ Len(b) \in 1..9
  BY LenencFacts
<1>15. PICK t \in Seq(Nat) : t = ServerText(info) /\ Len(t) = Len(b) + m
  <2>1. ServerText(info) = b \o info
    BY <1>13, <1>14, TextFacts
  <2>2. b \o info \in Seq(Nat) /\ Len(b \o info) = Len(b) + Len(info)
    OBVIOUS
  <2>3. QED BY <1>13, <2>1, <2>2
<1>16. ServerChange(c) = <<c.type>> \o t /\ c.type \in Nat
  BY <1>9, <1>15 DEF ServerChange, Brief
<1>17. PICK type \in Seq(Nat) : type = <<c.type>> /\ Len(type) = 1
  <2>1. \A y \in Nat : <<y>> \in Seq(Nat) /\ Len(<<y>>) = 1
    OBVIOUS
  <2>2. QED BY <1>16, <2>1
<1>18. type \o t \in Seq(Nat) /\ Len(type \o t) = 1 + Len(t)
  BY <1>17
<1>19. Len(type \o t) \in 1..(n + 20)
  <2>1. PICK x, y, z \in Nat : x = Len(b) /\ y = Len(t) /\ z = Len(type \o t) /\ x <= 9 /\ y = x + m /\ z = 1 + y
    <3>1. Len(b) \in Nat /\ Len(t) \in Nat /\ Len(type \o t) \in Nat
      OBVIOUS
    <3>2. Len(b) <= 9 /\ Len(t) = Len(b) + m /\ Len(type \o t) = 1 + Len(t)
      <4>1. \A y \in 1..9 : y <= 9
        OBVIOUS
      <4>2. Len(b) <= 9
        BY <1>14, <4>1
      <4>3. QED BY <1>15, <1>18, <4>2
    <3>3. QED BY <3>1, <3>2
  <2>2. QED BY <1>13, <2>1
<1>20. QED BY <1>1, <1>12, <1>16, <1>17, <1>18, <1>19

\* One or two such changes, or none.
Few(changes) ==
  \/ changes = <<>>
  \/ changes # <<>> /\ \E n \in {1, 2} : DOMAIN changes = 1..n /\ \A i \in 1..n : Brief(changes[i])

LEMMA FewFacts ==
  ASSUME NEW changes, Few(changes), changes # <<>>
  PROVE  /\ \E n \in Nat \ {0} : DOMAIN changes = 1..n /\ \A i \in 1..n : Tellable(changes[i])
         /\ ServerChanges(changes) \in Seq(Nat) /\ Len(ServerChanges(changes)) \in Sizes
         /\ DOMAIN changes = 1..1 => Len(ServerChanges(changes)) = Len(ServerChange(changes[1]))
<1>1. PICK n \in Nat \ {0} : n \in {1, 2} /\ DOMAIN changes = 1..n /\ \A i \in 1..n : Brief(changes[i])
  <2>1. PICK n \in {1, 2} : DOMAIN changes = 1..n /\ \A i \in 1..n : Brief(changes[i])
    BY DEF Few
  <2>2. QED BY <2>1
<1>2. \A i \in 1..n : Tellable(changes[i])
  BY <1>1, BriefFacts
<1>3. ServerChanges(changes) \in Seq(Nat)
  BY <1>1, <1>2, ChangesBytes
<1>4. PICK g \in [1..(n + 1) -> Seq(Nat)] :
        g[1] = ServerChanges(changes) /\ Len(g[n + 1]) = 0 /\ \A i \in 1..n : g[i] = ServerChange(changes[i]) \o g[i + 1]
  BY <1>1, <1>2, ChangesBytes
<1>5. PICK k \in Nat : k = Radix /\ k >= 16
  BY RadixFacts
<1>6. \A i \in 1..n : ServerChange(changes[i]) \in Seq(Nat) /\ Len(ServerChange(changes[i])) \in 1..(k + 20)
  <2> SUFFICES ASSUME NEW i \in 1..n
               PROVE  ServerChange(changes[i]) \in Seq(Nat) /\ Len(ServerChange(changes[i])) \in 1..(k + 20)
    OBVIOUS
  <2>1. PICK c : c = changes[i] /\ Brief(c)
    BY <1>1
  <2>2. ServerChange(c) \in Seq(Nat) /\ Len(ServerChange(c)) \in 1..(Len(c.data) + 20)
    BY <2>1, BriefFacts
  <2>3. PICK d \in Nat : d = Len(c.data) /\ d <= k
    <3>1. c.data \in Seq(Nat) /\ Len(c.data) <= Radix
      BY <2>1 DEF Brief
    <3>2. Len(c.data) \in Nat
      BY <3>1
    <3>3. QED BY <1>5, <3>1, <3>2
  <2>4. Len(ServerChange(c)) \in 1..(k + 20)
    BY <2>2, <2>3
  <2>5. QED BY <2>1, <2>2, <2>4
<1>7. 1 \in 1..n /\ g[1] = ServerChange(changes[1]) \o g[1 + 1] /\ 1 + 1 = 2
  <2>1. 1 \in 1..n /\ 1 + 1 = 2
    BY <1>1
  <2>2. QED BY <1>4, <2>1
<1>8. PICK a \in Seq(Nat) : a = ServerChange(changes[1]) /\ Len(a) \in 1..(k + 20)
  BY <1>6, <1>7
<1>9. CASE n = 1
  <2>1. PICK none \in Seq(Nat) : none = g[2] /\ Len(none) = 0
    BY <1>4, <1>7, <1>9
  <2>2. Len(a \o none) = Len(a) + 0
    BY <2>1
  <2>3. Len(g[1]) = Len(a)
    <3>1. g[1] = a \o none
      BY <1>7, <1>8, <2>1
    <3>2. PICK x, y \in Nat : x = Len(a) /\ y = Len(a \o none) /\ y = x
      BY <2>2
    <3>3. QED BY <3>1, <3>2
  <2>4. Len(a) \in Sizes
    <3>1. PICK x \in Nat : x = Len(a) /\ x <= k + 20
      BY <1>8
    <3>2. x <= Radix^3
      <4>1. PICK s \in Nat : s = Radix^2 /\ s >= 2 * k
        <5>1. Radix * Radix >= 2 * Radix
          BY RadixFacts
        <5>2. QED BY <1>5, <5>1, Places
      <4>2. Radix^3 = k * s /\ k * s >= 16 * s
        BY <1>5, <4>1, Places
      <4>3. PICK y \in Nat : y = Radix^3 /\ y >= 16 * s
        BY <4>2, Places
      <4>4. QED BY <1>5, <3>1, <4>1, <4>3
    <3>3. QED BY <3>1, <3>2, InSizes
  <2>5. QED BY <1>1, <1>2, <1>3, <1>4, <1>8, <1>9, <2>3, <2>4
<1>10. CASE n = 2
  <2>1. PICK none \in Seq(Nat) : none = g[3] /\ Len(none) = 0
    BY <1>4, <1>10
  <2>2. PICK b \in Seq(Nat) : b = ServerChange(changes[2]) /\ Len(b) \in 1..(k + 20) /\ g[2] = b \o none
    <3>1. 2 \in 1..n /\ 2 + 1 = 3
      BY <1>10
    <3>2. g[2] = ServerChange(changes[2]) \o g[2 + 1]
      BY <1>4, <3>1
    <3>3. QED BY <1>6, <2>1, <3>1, <3>2
  <2>3. Len(a \o (b \o none)) = Len(a) + Len(b)
    BY <2>1
  <2>4. Len(g[1]) = Len(a) + Len(b)
    BY <1>7, <1>8, <2>2, <2>3
  <2>5. Len(g[1]) \in Sizes
    <3>1. PICK x \in Nat : x = Len(g[1]) /\ x <= 2 * k + 40
      <4>1. PICK y, z \in Nat : y = Len(a) /\ z = Len(b) /\ y <= k + 20 /\ z <= k + 20
        BY <1>8, <2>2
      <4>2. QED BY <2>4, <4>1
    <3>2. x <= Radix^3
      <4>1. PICK s \in Nat : s = Radix^2 /\ s >= 2 * k
        <5>1. Radix * Radix >= 2 * Radix
          BY RadixFacts
        <5>2. QED BY <1>5, <5>1, Places
      <4>2. Radix^3 = k * s /\ k * s >= 16 * s
        BY <1>5, <4>1, Places
      <4>3. PICK y \in Nat : y = Radix^3 /\ y >= 16 * s
        BY <4>2, Places
      <4>4. QED BY <1>5, <3>1, <4>1, <4>3
    <3>3. QED BY <3>1, <3>2, InSizes
  <2>6. 1..2 # 1..1
    <3>1. 2 \in 1..2 /\ 2 \notin 1..1
      OBVIOUS
    <3>2. QED BY <3>1
  <2>7. QED BY <1>1, <1>2, <1>3, <1>4, <1>10, <2>5, <2>6
<1>11. QED BY <1>1, <1>9, <1>10

\* The flag that tells of changes.
Tracking(changes) == IF changes = <<>> THEN 0 ELSE 2^SessionStateChanged

LEMMA JoinAt ==
  ASSUME NEW a \in Seq(Nat), NEW b \in Seq(Nat)
  PROVE  /\ a \o b \in Seq(Nat) /\ Len(a \o b) = Len(a) + Len(b)
         /\ \A i \in 1..Len(a) : (a \o b)[i] = a[i]
         /\ \A j \in 1..Len(b) : (a \o b)[Len(a) + j] = b[j]
<1>1. a \o b \in Seq(Nat) /\ Len(a \o b) = Len(a) + Len(b)
  OBVIOUS
<1>2. ASSUME NEW i \in 1..Len(a) PROVE (a \o b)[i] = a[i]
  OBVIOUS
<1>3. ASSUME NEW j \in 1..Len(b) PROVE (a \o b)[Len(a) + j] = b[j]
  OBVIOUS
<1>4. QED BY <1>1, <1>2, <1>3

\* The bytes of the packet that ends rows and is an OK packet.
LEMMA EndBytes ==
  ASSUME NEW caps, "PROTOCOL_41" \in caps, NEW o, OkMeant(caps, o), o.rows = 0, o.id = 0, o.warnings = 1,
         NEW tail \in Seq(Nat), tail = OkTail(caps, o), NEW buff, buff = ServerOk(PacketEof, caps, o)
  PROVE  buff[1] = PacketEof /\ buff[6] = 1 /\ Len(buff) = 7 + Len(tail)
<1>1. buff = (((<<PacketEof>> \o ServerLenenc(0)) \o ServerLenenc(0)) \o OkMiddle(caps, o)) \o tail
  BY DEF ServerOk, OkMiddle, OkTail
<1>2. ServerLenenc(0) = <<0>>
  <2>1. PICK z \in Nat : z = 0
    OBVIOUS
  <2>2. z < NullLeader
    BY <2>1, RadixFacts DEF NullLeader
  <2>3. ServerLenenc(z) = <<z>>
    BY <2>2, LenencFacts
  <2>4. QED BY <2>1, <2>3
<1>3. PICK m \in Word : m = ServerStatus(o)
  BY DEF OkMeant
<1>4. PICK w \in Word : w = 1
  BY DEF OkMeant
<1>5. PICK a \in Seq(Nat) : a = Digits(m, 2) /\ Len(a) = 2
  <2>1. m \in Nat
    BY DEF Word
  <2>2. PICK width \in Nat : width = 2
    OBVIOUS
  <2>3. Digits(m, width) \in Seq(Nat) /\ Len(Digits(m, width)) = width
    BY <2>1, DigitsFacts
  <2>4. QED BY <2>2, <2>3
<1>6. PICK b \in Seq(Nat) : b = Digits(w, 2) /\ Len(b) = 2 /\ b[1] = 1
  <2>1. w \in Nat
    BY DEF Word
  <2>2. PICK width \in Nat : width = 2
    OBVIOUS
  <2>3. PICK f \in [0..width -> Nat] :
           /\ f[0] = w /\ \A i \in 1..width : f[i] = f[i - 1] \div Radix /\ f[i] <= f[i - 1]
           /\ Digits(w, width) \in Seq(Nat) /\ Len(Digits(w, width)) = width
           /\ \A i \in 1..width : Digits(w, width)[i] = f[i - 1] % Radix
    BY <2>1, DigitsFacts
  <2>4. 1 \in 1..width /\ 1 - 1 = 0
    BY <2>2
  <2>5. Digits(w, width)[1] = f[1 - 1] % Radix
    BY <2>3, <2>4
  <2>6. 1 % Radix = 1
    BY RadixFacts
  <2>7. Digits(w, width)[1] = 1
    BY <1>4, <2>3, <2>4, <2>5, <2>6
  <2>8. QED BY <2>2, <2>3, <2>7
<1>7. OkMiddle(caps, o) = a \o b
  BY <1>3, <1>4, <1>5, <1>6 DEF OkMiddle
<1>8. PICK e \in Nat : e = PacketEof
  BY RadixFacts DEF PacketEof
<1> DEFINE head == (<<e>> \o <<0>>) \o <<0>>
<1>9. head \in Seq(Nat) /\ Len(head) = 3 /\ head[1] = e
  OBVIOUS
<1>10. buff = (head \o (a \o b)) \o tail
  BY <1>1, <1>2, <1>7, <1>8
<1> HIDE DEF head
<1>11. a \o b \in Seq(Nat) /\ Len(a \o b) = 4 /\ (a \o b)[3] = 1
  <2>1. PICK n, j \in Nat : n = 2 /\ j = 1 /\ j \in 1..n /\ n + j = 3 /\ n + n = 4
    OBVIOUS
  <2>2. Len(a) = n /\ Len(b) = n
    BY <1>5, <1>6, <2>1
  <2>3. a \o b \in Seq(Nat) /\ Len(a \o b) = n + n /\ (a \o b)[n + j] = b[j]
    <3>1. /\ a \o b \in Seq(Nat) /\ Len(a \o b) = Len(a) + Len(b)
          /\ \A k \in 1..Len(b) : (a \o b)[Len(a) + k] = b[k]
      BY JoinAt
    <3>2. QED BY <2>1, <2>2, <3>1
  <2>4. QED BY <1>6, <2>1, <2>3
<1>12. PICK mid \in Seq(Nat) : mid = a \o b /\ Len(mid) = 4 /\ mid[3] = 1
  BY <1>11
<1>13. PICK front \in Seq(Nat) : front = head \o mid /\ Len(front) = 7 /\ front[1] = e /\ front[6] = 1
  <2>1. PICK n, p, i, j \in Nat : n = 3 /\ p = 4 /\ i = 1 /\ j = 3 /\ i \in 1..n /\ j \in 1..p /\ n + j = 6 /\ n + p = 7
    OBVIOUS
  <2>2. Len(head) = n /\ Len(mid) = p
    BY <1>9, <1>12, <2>1
  <2>3. head \o mid \in Seq(Nat) /\ Len(head \o mid) = n + p /\ (head \o mid)[i] = head[i] /\ (head \o mid)[n + j] = mid[j]
    <3>1. /\ head \o mid \in Seq(Nat) /\ Len(head \o mid) = Len(head) + Len(mid)
          /\ \A k \in 1..Len(head) : (head \o mid)[k] = head[k]
          /\ \A k \in 1..Len(mid) : (head \o mid)[Len(head) + k] = mid[k]
      BY <1>9, JoinAt
    <3>2. QED BY <2>1, <2>2, <3>1
  <2>4. QED BY <1>9, <1>12, <2>1, <2>3
<1>14. buff = front \o tail
  BY <1>10, <1>12, <1>13
<1>15. buff[1] = e /\ buff[6] = 1 /\ Len(buff) = 7 + Len(tail)
  <2>1. PICK n, p, i, j \in Nat : n = 7 /\ p = Len(tail) /\ i = 1 /\ j = 6 /\ i \in 1..n /\ j \in 1..n
    <3>1. Len(tail) \in Nat
      OBVIOUS
    <3>2. 1 \in 1..7 /\ 6 \in 1..7
      OBVIOUS
    <3>3. QED BY <3>1, <3>2
  <2>2. Len(front) = n /\ Len(tail) = p
    BY <1>13, <2>1
  <2>3. Len(front \o tail) = n + p /\ (front \o tail)[i] = front[i] /\ (front \o tail)[j] = front[j]
    <3>1. Len(front \o tail) = Len(front) + Len(tail) /\ \A k \in 1..Len(front) : (front \o tail)[k] = front[k]
      BY JoinAt
    <3>2. QED BY <2>1, <2>2, <3>1
  <2>4. QED BY <1>13, <1>14, <2>1, <2>3
<1>16. QED BY <1>8, <1>15

LEMMA TextLen ==
  ASSUME NEW text \in Seq(Nat)
  PROVE  ServerText(text) \in Seq(Nat) /\ Len(ServerText(text)) \in (1 + Len(text))..(9 + Len(text))
<1>1. PICK n \in Nat : n = Len(text)
  OBVIOUS
<1>2. PICK a \in Seq(Nat) : a = ServerLenenc(n) /\ Len(a) \in 1..9
  BY LenencFacts
<1>3. ServerText(text) = a \o text
  BY <1>1, <1>2, TextFacts
<1>4. a \o text \in Seq(Nat) /\ Len(a \o text) = Len(a) + Len(text)
  OBVIOUS
<1>5. PICK x \in 1..9 : x = Len(a) /\ Len(a \o text) = x + n
  BY <1>1, <1>2, <1>4
<1>6. PICK l \in Nat : l = Len(a \o text) /\ l = x + n
  BY <1>5
<1>7. l \in (1 + n)..(9 + n)
  BY <1>6
<1>8. QED BY <1>1, <1>3, <1>4, <1>6, <1>7

\* An old EOF packet reads back: status and warnings of trilogy_parse_eof_packet.
LEMMA EofReadsBack ==
  ASSUME NEW caps, "PROTOCOL_41" \in caps, NEW o, o.status \in Word, o.warnings \in Word
  PROVE  LET buff == ServerEof(caps, o)
             r == ParseEof(buff, caps)
         IN /\ buff \in Seq(Nat) /\ Len(buff) = 5 /\ buff[1] = PacketEof
            /\ r.rc = "OK" /\ r.out.status_flags = o.status /\ r.out.warning_count = o.warnings
<1> DEFINE buff == ServerEof(caps, o)
           r == ParseEof(buff, caps)
<1>1. PICK m, w \in Word : m = o.status /\ w = o.warnings
  OBVIOUS
<1>2. PICK e \in Seq(Nat), x \in Nat : x = PacketEof /\ e = <<x>> /\ Len(e) = 1 /\ e[1] = x
  <2>1. PacketEof \in Nat
    BY RadixFacts DEF PacketEof
  <2>2. \A y \in Nat : <<y>> \in Seq(Nat) /\ Len(<<y>>) = 1 /\ <<y>>[1] = y
    OBVIOUS
  <2>3. QED BY <2>1, <2>2
<1>3. PICK a, b \in Seq(Nat) : a = Digits(w, 2) /\ b = Digits(m, 2) /\ Len(a) = 2 /\ Len(b) = 2
  <2>1. PICK width \in Nat : width = 2
    OBVIOUS
  <2>2. w \in Nat /\ m \in Nat
    BY WordFacts
  <2>3. Digits(w, width) \in Seq(Nat) /\ Len(Digits(w, width)) = width
    BY <2>2, DigitsFacts
  <2>4. Digits(m, width) \in Seq(Nat) /\ Len(Digits(m, width)) = width
    BY <2>2, DigitsFacts
  <2>5. QED BY <2>1, <2>3, <2>4
<1>4. buff = e \o (a \o b)
  BY <1>1, <1>2, <1>3 DEF ServerEof
<1>5. PICK none \in Seq(Nat) : none = <<>> /\ Len(none) = 0
  BY EmptySeq
<1>6. PICK y, z \in Seq(Nat) : y = a \o b /\ z = b /\ Len(y) = 4 /\ y = a \o z /\ z = z \o none
  <2>1. a \o b \in Seq(Nat) /\ Len(a \o b) = 4 /\ b = b \o <<>>
    <3>1. a \o b \in Seq(Nat) /\ Len(a \o b) = Len(a) + Len(b)
      BY JoinAt
    <3>2. 2 + 2 = 4
      OBVIOUS
    <3>3. Len(a \o b) = 4
      BY <1>3, <3>1, <3>2
    <3>4. b = b \o <<>>
      OBVIOUS
    <3>5. QED BY <3>1, <3>3, <3>4
  <2>2. QED BY <1>5, <2>1
<1>7. buff \in Seq(Nat) /\ Len(buff) = 5 /\ buff[1] = x
  <2>1. /\ e \o y \in Seq(Nat) /\ Len(e \o y) = Len(e) + Len(y)
        /\ \A i \in 1..Len(e) : (e \o y)[i] = e[i]
    BY JoinAt
  <2>2. 1 \in 1..Len(e)
    BY <1>2
  <2>3. (e \o y)[1] = e[1]
    BY <2>1, <2>2
  <2>4. buff = e \o y
    BY <1>4, <1>6
  <2>5. QED BY <1>2, <1>6, <2>1, <2>3, <2>4
<1> DEFINE out == [status_flags |-> 0, warning_count |-> 0]
           c == UInt(1, "skip")
           d == UInt(2, "warning_count")
           k == UInt(2, "status_flags")
           s0 == Open(buff, out)
           s1 == Read(s0, c)
           s2 == Read(s1, d)
           s3 == Read(s2, k)
<1>8. c.field = "skip" /\ d.field = "warning_count" /\ k.field = "status_flags"
  BY DEF UInt
<1>9. Carries(c, e, x, y) /\ Carries(d, a, w, z) /\ Carries(k, b, m, none)
  <2>1. Carries(d, a, w, z) /\ Carries(k, b, m, none)
    BY <1>3, WordFacts
  <2>2. Carries(c, e, x, y)
    <3>1. Number(<<x>>) = x
      BY NumberOne
    <3>2. QED BY <1>2, <3>1 DEF Carries, UInt
  <2>3. QED BY <2>1, <2>2
<1>10. r = Finish(s3)
  <2>2. r = Finish(Fields(s0, <<c>> \o <<d, k>>))
    BY DEF ParseEof
  <2> HIDE DEF r, s0, c, d, k
  <2>3. PICK C : C = {c, d, k}
    OBVIOUS
  <2>4. PICK p, q \in Seq(C) : p = <<c>> /\ q = <<d, k>>
    <3>1. <<c>> \in Seq(C) /\ <<d, k>> \in Seq(C)
      BY <2>3
    <3>2. QED BY <3>1
  <2>5. Fields(s0, p \o q) = Fields(Fields(s0, p), q)
    BY FieldsSplit
  <2>6. Fields(s0, <<c>>) = s1
    BY FieldsOne
  <2>7. Fields(s1, <<d, k>>) = s3
    BY FieldsTwo
  <2>8. QED BY <2>2, <2>4, <2>5, <2>6, <2>7
<1>11. Ready(s0, e \o y) /\ s0.out = out
  <2>1. PICK q \in Seq(Nat) : q = buff /\ q = e \o y
    BY <1>4, <1>6, <1>7
  <2>2. Ready(Open(q, out), q) /\ Open(q, out).out = out
    BY OpenReady
  <2>3. QED BY <2>1, <2>2
<1> HIDE DEF s0, c, d, k, buff, r, out
<1>12. Ready(s1, y) /\ s1.out = IF c.field = "skip" THEN s0.out ELSE Put(s0.out, c.field, x)
  BY <1>9, <1>11, ReadReady
<1> HIDE DEF s1
<1>13. Ready(s2, z) /\ s2.out = IF d.field = "skip" THEN s1.out ELSE Put(s1.out, d.field, w)
  <2>1. Ready(s1, a \o z)
    BY <1>6, <1>12
  <2>2. QED BY <1>9, <2>1, ReadReady
<1> HIDE DEF s2
<1>14. Ready(s3, none) /\ s3.out = IF k.field = "skip" THEN s2.out ELSE Put(s2.out, k.field, m)
  <2>1. Ready(s2, b \o none)
    BY <1>6, <1>13
  <2>2. QED BY <1>9, <2>1, ReadReady
<1> HIDE DEF s3
<1>15. r = s3 /\ s3.rc = "OK"
  BY <1>5, <1>10, <1>14, FinishReady DEF Ready
<1>16. Has(s2.out, "warning_count", w)
  BY <1>8, <1>13, PutHas
<1>17. s3.out = Put(s2.out, "status_flags", m)
  BY <1>8, <1>14
<1>18. Has(s3.out, "warning_count", w) /\ Has(s3.out, "status_flags", m)
  BY <1>16, <1>17, PutHas
<1>19. r.out.status_flags = o.status /\ r.out.warning_count = o.warnings
  BY <1>1, <1>15, <1>18 DEF Has
<1>20. QED BY <1>2, <1>7, <1>15, <1>19 DEF r, buff

EndPacket(caps, o) == IF "DEPRECATE_EOF" \in caps THEN ServerOk(PacketEof, caps, o) ELSE ServerEof(caps, o)

LEMMA SmallSizes == \A n \in Nat : n <= Radix + 5 => n \in Sizes
<1> SUFFICES ASSUME NEW n \in Nat, n <= Radix + 5 PROVE n \in Sizes
  OBVIOUS
<1>1. Radix^3 = Radix * Radix^2 /\ Radix^2 = Radix * Radix /\ Radix^2 \in Nat /\ Radix \in Nat /\ Radix >= 16
  BY RadixFacts, Places
<1>2. PICK s \in Nat : s = Radix^2 /\ s >= 2 * Radix
  <2>1. Radix * Radix >= 2 * Radix
    BY <1>1
  <2>2. QED BY <1>1, <2>1
<1>3. Radix * s >= s /\ Radix * s \in Nat
  BY <1>1
<1>4. PICK y \in Nat : y = Radix^3 /\ y >= s
  BY <1>1, <1>2, <1>3
<1>5. n <= Radix^3
  BY <1>1, <1>2, <1>4
<1>6. QED BY <1>5, InSizes

\* A length that starts like the packet that ends rows takes nine bytes.
LEMMA LeaderFirst ==
  ASSUME NEW n \in Nat, ServerLenenc(n)[1] = PacketEof
  PROVE  Len(ServerLenenc(n)) = 9
<1>1. PICK k \in Nat : k = Radix /\ k >= 16
  BY RadixFacts
<1>2. NullLeader = k - 5 /\ Leader16 = k - 4 /\ Leader24 = k - 3 /\ Leader64 = k - 2 /\ PacketEof = k - 2
  BY <1>1 DEF NullLeader, Leader16, Leader24, Leader64, PacketEof
<1>3. \A x, y, w \in Nat : Len(<<y>> \o Digits(x, w)) = 1 + w /\ (<<y>> \o Digits(x, w))[1] = y
  <2> SUFFICES ASSUME NEW x \in Nat, NEW y \in Nat, NEW w \in Nat
               PROVE  Len(<<y>> \o Digits(x, w)) = 1 + w /\ (<<y>> \o Digits(x, w))[1] = y
    OBVIOUS
  <2>1. PICK d \in Seq(Nat) : d = Digits(x, w) /\ Len(d) = w
    BY DigitsFacts
  <2>2. Len(<<y>> \o d) = 1 + Len(d) /\ (<<y>> \o d)[1] = y
    OBVIOUS
  <2>3. QED BY <2>1, <2>2
<1>4. CASE n < NullLeader
  <2>1. ServerLenenc(n) = <<n>>
    BY <1>4, LenencFacts
  <2>2. <<n>>[1] = n
    OBVIOUS
  <2>3. QED BY <1>1, <1>2, <1>4, <2>1, <2>2
<1>5. CASE n >= NullLeader /\ n < Radix^2
  <2>1. PICK w, y \in Nat : w = 2 /\ y = Leader16
    BY <1>1, <1>2
  <2>2. ServerLenenc(n) = <<y>> \o Digits(n, w)
    BY <1>5, <2>1, LenencFacts
  <2>3. ServerLenenc(n)[1] = y
    BY <1>3, <2>2
  <2>4. QED BY <1>1, <1>2, <2>1, <2>3
<1>6. CASE n >= Radix^2 /\ n < Radix^3
  <2>1. PICK w, y \in Nat : w = 3 /\ y = Leader24
    BY <1>1, <1>2
  <2>2. ServerLenenc(n) = <<y>> \o Digits(n, w)
    BY <1>6, <2>1, LenencFacts
  <2>3. ServerLenenc(n)[1] = y
    BY <1>3, <2>2
  <2>4. QED BY <1>1, <1>2, <2>1, <2>3
<1>7. CASE n >= Radix^3
  <2>1. PICK w, y \in Nat : w = 8 /\ y = Leader64 /\ 1 + w = 9
    BY <1>1, <1>2
  <2>2. ServerLenenc(n) = <<y>> \o Digits(n, w)
    BY <1>7, <2>1, LenencFacts
  <2>3. Len(<<y>> \o Digits(n, w)) = 1 + w
    BY <1>3
  <2> HIDE <1>3
  <2>4. Len(ServerLenenc(n)) = 1 + w
    BY <2>2, <2>3
  <2>5. QED BY <2>1, <2>4
<1>8. (n < NullLeader) \/ (n >= NullLeader /\ n < Radix^2) \/ (n >= Radix^2 /\ n < Radix^3) \/ n >= Radix^3
  <2>1. PICK x, y, z \in Int : x = NullLeader /\ y = Radix^2 /\ z = Radix^3
    BY <1>1, <1>2, Places
  <2>2. QED BY <2>1
<1>9. QED BY <1>4, <1>5, <1>6, <1>7, <1>8

\* The value of a column: NULL or bytes.
Held(v) == v.null \in BOOLEAN /\ v.data \in Seq(Nat)

LEMMA HeldFacts ==
  /\ Held(Null) /\ Null.null = TRUE
  /\ \A data \in Seq(Nat) : Held(Value(data)) /\ Value(data).null = FALSE /\ Value(data).data = data
<1>1. <<>> \in Seq(Nat)
  OBVIOUS
<1>2. QED BY <1>1 DEF Held, Null, Value

\* The bytes of such a value in a row: some, and nine if they start like the end of rows.
ColumnBytes(v) == IF v.null THEN <<NullLeader>> ELSE ServerText(v.data)

LEMMA ColumnFacts ==
  ASSUME NEW v, Held(v)
  PROVE  /\ ColumnBytes(v) \in Seq(Nat) /\ Len(ColumnBytes(v)) >= 1
         /\ ColumnBytes(v)[1] = PacketEof => Len(ColumnBytes(v)) >= 9
<1>1. PICK k \in Nat : k = Radix /\ k >= 16
  BY RadixFacts
<1>2. CASE v.null
  <2>1. PICK y \in Nat : y = NullLeader /\ y # PacketEof
    BY <1>1 DEF NullLeader, PacketEof
  <2>2. ColumnBytes(v) = <<y>>
    BY <1>2, <2>1 DEF ColumnBytes
  <2>3. <<y>> \in Seq(Nat) /\ Len(<<y>>) = 1 /\ <<y>>[1] = y
    OBVIOUS
  <2>4. QED BY <2>1, <2>2, <2>3
<1>3. CASE ~v.null
  <2>1. PICK data \in Seq(Nat), n \in Nat : data = v.data /\ n = Len(data)
    BY DEF Held
  <2>2. PICK a \in Seq(Nat) : a = ServerLenenc(n) /\ Len(a) \in 1..9
    BY LenencFacts
  <2>3. ColumnBytes(v) = a \o data
    BY <1>3, <2>1, <2>2, TextFacts DEF ColumnBytes
  <2>4. a \o data \in Seq(Nat) /\ Len(a \o data) = Len(a) + Len(data) /\ \A i \in 1..Len(a) : (a \o data)[i] = a[i]
    BY JoinAt
  <2>5. PICK l \in 1..9 : l = Len(a)
    BY <2>2
  <2>6. (a \o data)[1] = a[1]
    <3>1. 1 \in 1..l
      OBVIOUS
    <3>2. QED BY <2>4, <2>5, <3>1
  <2>7. Len(a \o data) = l + n
    BY <2>1, <2>4, <2>5
  <2>8. a[1] = PacketEof => l = 9
    BY <2>2, <2>5, LeaderFirst
  <2>9. l + n >= 1 /\ (l = 9 => l + n >= 9)
    OBVIOUS
  <2>10. QED BY <2>3, <2>4, <2>6, <2>7, <2>8, <2>9
<1>4. QED BY <1>2, <1>3 DEF Held

\* A row as what is left of it at each column.
LEMMA RowBytes ==
  ASSUME NEW values, NEW n \in Nat \ {0}, DOMAIN values = 1..n, \A i \in 1..n : Held(values[i])
  PROVE  /\ ServerRow(values) \in Seq(Nat)
         /\ \A first : ~EndsRows(PacketType(first, ServerRow(values)), Len(ServerRow(values)))
         /\ \E g \in [1..(n + 1) -> Seq(Nat)] :
              g[1] = ServerRow(values) /\ Len(g[n + 1]) = 0 /\ \A i \in 1..n : g[i] = ColumnBytes(values[i]) \o g[i + 1]
<1> DEFINE q == [i \in DOMAIN values |-> ColumnBytes(values[i])]
<1>1. \A i \in 1..n : ColumnBytes(values[i]) \in Seq(Nat)
  BY ColumnFacts
<1>2. q \in Seq(Seq(Nat)) /\ Len(q) = n /\ \A i \in 1..n : q[i] = ColumnBytes(values[i])
  BY <1>1
<1>3. ServerRow(values) = FlattenSeq(q)
  BY DEF ServerRow, ColumnBytes
<1> HIDE DEF q
<1>4. PICK g \in [1..(n + 1) -> Seq(Nat)] :
        g[1] = ServerRow(values) /\ Len(g[n + 1]) = 0 /\ \A i \in 1..n : g[i] = ColumnBytes(values[i]) \o g[i + 1]
  <2>1. PICK p \in Seq(Seq(Nat)) : p = q /\ Len(p) = n
    BY <1>2
  <2>2. PICK g \in [1..(n + 1) -> Seq(Nat)] :
          g[1] = FlattenSeq(p) /\ Len(g[n + 1]) = 0 /\ \A i \in 1..n : g[i] = p[i] \o g[i + 1]
    BY <2>1, RestsOf
  <2>3. QED BY <1>2, <1>3, <2>1, <2>2
<1>6. \A i \in 1..(n + 1) : g[i] \in Seq(Nat)
  OBVIOUS
<1>7. 1 \in 1..n /\ 1 \in 1..(n + 1) /\ 1 + 1 \in 1..(n + 1)
  OBVIOUS
<1>8. PICK c, d \in Seq(Nat) : c = ColumnBytes(values[1]) /\ d = g[1 + 1] /\ ServerRow(values) = c \o d
  BY <1>1, <1>4, <1>6, <1>7
<1>9. Len(c) >= 1 /\ (c[1] = PacketEof => Len(c) >= 9)
  BY <1>7, <1>8, ColumnFacts
<1>10. c \o d \in Seq(Nat) /\ Len(c \o d) = Len(c) + Len(d) /\ \A i \in 1..Len(c) : (c \o d)[i] = c[i]
  BY JoinAt
<1>11. PICK l, m \in Nat : l = Len(c) /\ m = Len(d) /\ l >= 1
  BY <1>9
<1>12. (c \o d)[1] = c[1] /\ c \o d # <<>>
  <2>1. 1 \in 1..l /\ l + m # 0 /\ Len(<<>>) = 0
    BY <1>11
  <2>2. QED BY <1>10, <1>11, <2>1
<1>13. ASSUME NEW first PROVE ~EndsRows(PacketType(first, c \o d), Len(c \o d))
  <2>1. PacketType(first, c \o d) = c[1]
    BY <1>12 DEF PacketType
  <2>2. c[1] = PacketEof => l + m >= 9
    BY <1>9, <1>11
  <2>3. Len(c \o d) = l + m
    BY <1>10, <1>11
  <2>4. QED BY <2>1, <2>2, <2>3 DEF EndsRows
<1>14. QED BY <1>4, <1>8, <1>10, <1>13

LEMMA FlatNat ==
  ASSUME NEW q \in Seq(Seq(Nat))
  PROVE  FlattenSeq(q) \in Seq(Nat)
<1>1. Len(q) \in Nat
  OBVIOUS
<1>2. CASE Len(q) = 0
  <2>1. q = <<>> /\ <<>> \in Seq(Nat)
    BY <1>2
  <2>2. FlattenSeq(q) = q
    BY <1>2 DEF FlattenSeq
  <2>3. QED BY <2>1, <2>2
<1>3. CASE Len(q) > 0
  <2>1. PICK g \in [1..(Len(q) + 1) -> Seq(Nat)] : g[1] = FlattenSeq(q)
    BY <1>3, Rests
  <2>2. 1 \in 1..(Len(q) + 1)
    BY <1>1
  <2>3. QED BY <2>1, <2>2
<1>4. QED BY <1>1, <1>2, <1>3

\* A fold that adds numbers up makes a number.
LEMMA SumNat ==
  ASSUME NEW g, NEW loop, NEW x, NEW n \in Nat, Folding(g, loop, x, 0, n),
         \A s \in Nat : \A i \in 1..n : Step(loop, x, s, i) \in Nat
  PROVE  g[1..n] \in Nat
<1> DEFINE P == {m \in Nat : m <= n => g[1..m] \in Nat}
<1>1. g[1..0] = 0 /\ \A k \in 0..(n - 1) : g[1..(k + 1)] = Step(loop, x, g[1..k], k + 1)
  BY FoldSteps
<1>2. 0 \in P
  BY <1>1
<1>3. ASSUME NEW m \in Nat, m \in P PROVE m + 1 \in P
  <2> SUFFICES ASSUME m + 1 <= n PROVE g[1..(m + 1)] \in Nat
    OBVIOUS
  <2>1. m \in 0..(n - 1) /\ m + 1 \in 1..n /\ g[1..m] \in Nat
    BY <1>3
  <2>2. g[1..(m + 1)] = Step(loop, x, g[1..m], m + 1)
    BY <1>1, <2>1
  <2>3. QED BY <2>1, <2>2
<1>4. Nat \subseteq P
  <2> HIDE DEF P
  <2>1. QED BY <1>2, <1>3, SetInduction
<1>5. QED BY <1>4

LEMMA Powers == \A e \in 0..7 : 2^e \in Nat \ {0}
<1> SUFFICES ASSUME NEW e \in 0..7 PROVE 2^e \in Nat \ {0}
  OBVIOUS
<1>1. CASE e = 0 BY <1>1
<1>2. CASE e = 1 BY <1>2
<1>3. CASE e = 2 BY <1>3
<1>4. CASE e = 3 BY <1>4
<1>5. CASE e = 4 BY <1>5
<1>6. CASE e = 5 BY <1>6
<1>7. CASE e = 6 BY <1>7
<1>8. CASE e = 7 BY <1>8
<1>9. QED BY <1>1, <1>2, <1>3, <1>4, <1>5, <1>6, <1>7, <1>8

LEMMA NullBitNat ==
  ASSUME NEW values, NEW n, NEW k \in Nat
  PROVE  NullBit(values, n, k) \in Nat
<1>1. k % Bits \in 0..7
  BY ReaderAssumption
<1>2. PICK e \in 0..7 : e = k % Bits
  BY <1>1
<1>3. 2^e \in Nat
  BY Powers
<1>4. NullBit(values, n, k) \in {0, 2^e}
  BY <1>2 DEF NullBit
<1>5. QED BY <1>3, <1>4

\* A byte of a row's null bitmap: byte in ServerStmtRow.
NullByte(values, n, b) == FoldLeft(LAMBDA sum, k : sum + NullBit(values, n, b * Bits + k), 0, [k \in 1..Bits |-> k - 1])

NullSums(g, values, n, b) ==
  g = [S \in SUBSET (1..Bits) |->
         IF S = {} THEN 0 ELSE g[S \ {Max(S)}] + NullBit(values, n, b * Bits + [k \in 1..Bits |-> k - 1][Max(S)])]

LEMMA NullByteFold ==
  ASSUME NEW values, NEW n, NEW b \in Nat, NEW x,
         x = [values |-> values, n |-> n, b |-> b, seq |-> [k \in 1..Bits |-> k - 1]]
  PROVE  \E g : Folding(g, "nulls", x, 0, Bits) /\ NullByte(values, n, b) = g[1..Bits]
<1>1. ASSUME NEW s, NEW i
      PROVE  Step("nulls", x, s, i) = s + NullBit(values, n, b * Bits + [k \in 1..Bits |-> k - 1][i])
  BY DEF Step
<1>2. ASSUME NEW g PROVE Folding(g, "nulls", x, 0, Bits) <=> NullSums(g, values, n, b)
  <2> DEFINE D == SUBSET (1..Bits)
             A(S) == IF S = {} THEN 0 ELSE Step("nulls", x, g[S \ {Max(S)}], Max(S))
             B(S) == IF S = {} THEN 0
                     ELSE g[S \ {Max(S)}] + NullBit(values, n, b * Bits + [k \in 1..Bits |-> k - 1][Max(S)])
  <2>1. \A S \in D : A(S) = B(S)
    BY <1>1
  <2>2. (Folding(g, "nulls", x, 0, Bits) <=> g = [S \in D |-> A(S)]) /\ (NullSums(g, values, n, b) <=> g = [S \in D |-> B(S)])
    BY Zenon DEF Folding, NullSums
  <2> HIDE DEF A, B, D
  <2>3. ASSUME g = [S \in D |-> A(S)] PROVE g = [S \in D |-> B(S)]
    BY <2>1, <2>3
  <2>4. ASSUME g = [S \in D |-> B(S)] PROVE g = [S \in D |-> A(S)]
    BY <2>1, <2>4
  <2>5. QED BY <2>2, <2>3, <2>4
<1> DEFINE g == CHOOSE f : NullSums(f, values, n, b)
<1>3. \E f : NullSums(f, values, n, b)
  <2>1. Bits \in Nat
    BY ReaderAssumption
  <2>2. PICK zero : zero = 0
    OBVIOUS
  <2>3. \E f : Folding(f, "nulls", x, zero, Bits)
    BY <2>1, FoldExists
  <2>4. QED BY <1>2, <2>2, <2>3
<1>4. NullSums(g, values, n, b)
  BY <1>3
<1>5. NullByte(values, n, b) = g[1..Bits]
  BY DEF NullByte, FoldLeft, MapThenFoldSet, NullSums
<1> HIDE DEF g
<1>6. QED BY <1>2, <1>4, <1>5

LEMMA NullByteNat ==
  ASSUME NEW values, NEW n, NEW b \in Nat
  PROVE  NullByte(values, n, b) \in Nat
<1>1. PICK x : x = [values |-> values, n |-> n, b |-> b, seq |-> [k \in 1..Bits |-> k - 1]]
  OBVIOUS
<1>2. PICK g : Folding(g, "nulls", x, 0, Bits) /\ NullByte(values, n, b) = g[1..Bits]
  BY <1>1, NullByteFold
<1>3. ASSUME NEW s \in Nat, NEW i \in 1..Bits PROVE Step("nulls", x, s, i) \in Nat
  <2>1. PICK k \in Nat : k = b * Bits + x.seq[i]
    BY <1>1, ReaderAssumption
  <2>2. Step("nulls", x, s, i) = s + NullBit(values, n, k)
    BY <1>1, <2>1 DEF Step
  <2>3. QED BY <2>2, NullBitNat
<1>4. Bits \in Nat
  BY ReaderAssumption
<1>5. PICK loop, zero : loop = "nulls" /\ zero = 0
  OBVIOUS
<1>6. QED BY <1>2, <1>3, <1>4, SumNat

\* The parts of a date or a time.
PartsNat(data, n) == \A i \in 1..n : data[i] \in Nat

LEMMA TemporalBytes ==
  ASSUME NEW data, NEW n \in Nat, NEW widths, NEW parts, NEW most \in DOMAIN parts, DOMAIN data = 1..n, PartsNat(data, n),
         DOMAIN parts \subseteq Nat, \A i \in 1..n : widths[i] \in Nat, \A l \in DOMAIN parts : parts[l] \in 0..n, parts[most] = n
  PROVE  ServerTemporal(data, widths, parts) \in Seq(Nat)
<1> DEFINE used == {i \in DOMAIN data : data[i] # 0}
           S == {l \in DOMAIN parts : \A i \in used : i <= parts[l]}
           len == Min(S)
<1>1. len \in S
  <2>1. most \in S
    OBVIOUS
  <2>2. S \subseteq Nat
    OBVIOUS
  <2> HIDE DEF S
  <2>3. S # {}
    BY <2>1
  <2>4. QED BY <2>2, <2>3, MinFacts
<1>2. len \in Nat /\ parts[len] \in 0..n
  BY <1>1
<1>3. ServerTemporal(data, widths, parts) = <<len>> \o FlattenSeq([i \in 1..parts[len] |-> Digits(data[i], widths[i])])
  BY DEF ServerTemporal
<1> HIDE DEF len
<1>4. PICK k \in 0..n, m \in Nat : k = parts[len] /\ m = len
  BY <1>2
<1> DEFINE q == [i \in 1..k |-> Digits(data[i], widths[i])]
<1>5. q \in Seq(Seq(Nat))
  <2>1. \A i \in 1..k : Digits(data[i], widths[i]) \in Seq(Nat)
    <3> SUFFICES ASSUME NEW i \in 1..k PROVE Digits(data[i], widths[i]) \in Seq(Nat)
      OBVIOUS
    <3>1. PICK x, w \in Nat : x = data[i] /\ w = widths[i]
      BY DEF PartsNat
    <3>2. Digits(x, w) \in Seq(Nat)
      BY DigitsFacts
    <3>3. QED BY <3>1, <3>2
  <2>2. k \in Nat
    OBVIOUS
  <2>3. QED BY <2>1, <2>2
<1> HIDE DEF q
<1>6. FlattenSeq(q) \in Seq(Nat)
  BY <1>5, FlatNat
<1>7. ServerTemporal(data, widths, parts) = <<m>> \o FlattenSeq(q)
  BY <1>3, <1>4 DEF q
<1>8. QED BY <1>6, <1>7

\* A value that its type can hold.
Storable(type, data) ==
  /\ type \in DOMAIN Width => data[1] \in Nat
  /\ type \in DateTypes => DOMAIN data = 1..7 /\ PartsNat(data, 7)
  /\ type = Type.TIME => DOMAIN data = 1..6 /\ PartsNat(data, 6)
  /\ type \in StringTypes => data \in Seq(Nat)

LEMMA ServerValueBytes ==
  ASSUME NEW type, NEW data, Storable(type, data), type \in DOMAIN Width \cup DateTypes \cup {Type.TIME} \cup StringTypes
  PROVE  ServerValue(type, data) \in Seq(Nat)
<1>1. CASE type \in DOMAIN Width
  <2>1. ServerValue(type, data) = Digits(data[1], Width[type])
    BY <1>1, TypeFacts DEF ServerValue
  <2>2. PICK x, w \in Nat : x = data[1] /\ w = Width[type]
    BY <1>1, WidthFacts DEF Storable
  <2>3. Digits(x, w) \in Seq(Nat)
    BY DigitsFacts
  <2>4. QED BY <2>1, <2>2, <2>3
<1>2. CASE type \in DateTypes
  <2>1. ServerValue(type, data) = ServerTemporal(data, DateWidths, DateParts)
    BY <1>2, TypeFacts DEF ServerValue
  <2>2. /\ DOMAIN DateParts = {0, 4, 7, 11} /\ DateParts[0] = 0 /\ DateParts[4] = 3 /\ DateParts[7] = 6 /\ DateParts[11] = 7
        /\ \A i \in 1..7 : DateWidths[i] \in Nat
    BY DEF DateParts, DateWidths
  <2>3. DOMAIN data = 1..7 /\ PartsNat(data, 7)
    BY <1>2 DEF Storable
  <2>4. PICK widths, parts, n, most : widths = DateWidths /\ parts = DateParts /\ n = 7 /\ most = 11
    OBVIOUS
  <2>5. /\ n \in Nat /\ most \in DOMAIN parts /\ DOMAIN parts \subseteq Nat /\ parts[most] = n
        /\ \A l \in DOMAIN parts : parts[l] \in 0..n
    BY <2>2, <2>4
  <2>6. ServerTemporal(data, widths, parts) \in Seq(Nat)
    BY <2>2, <2>3, <2>4, <2>5, TemporalBytes
  <2>7. QED BY <2>1, <2>4, <2>6
<1>3. CASE type = Type.TIME
  <2>1. ServerValue(type, data) = ServerTemporal(data, TimeWidths, TimeParts)
    BY <1>3, TypeFacts DEF ServerValue
  <2>2. /\ DOMAIN TimeParts = {0, 8, 12} /\ TimeParts[0] = 0 /\ TimeParts[8] = 5 /\ TimeParts[12] = 6
        /\ \A i \in 1..6 : TimeWidths[i] \in Nat
    BY DEF TimeParts, TimeWidths
  <2>3. DOMAIN data = 1..6 /\ PartsNat(data, 6)
    BY <1>3 DEF Storable
  <2>4. PICK widths, parts, n, most : widths = TimeWidths /\ parts = TimeParts /\ n = 6 /\ most = 12
    OBVIOUS
  <2>5. /\ n \in Nat /\ most \in DOMAIN parts /\ DOMAIN parts \subseteq Nat /\ parts[most] = n
        /\ \A l \in DOMAIN parts : parts[l] \in 0..n
    BY <2>2, <2>4
  <2>6. ServerTemporal(data, widths, parts) \in Seq(Nat)
    BY <2>2, <2>3, <2>4, <2>5, TemporalBytes
  <2>7. QED BY <2>1, <2>4, <2>6
<1>4. CASE type \in StringTypes
  <2>1. ServerValue(type, data) = ServerText(data)
    BY <1>4, TypeFacts DEF ServerValue
  <2>2. data \in Seq(Nat)
    BY <1>4 DEF Storable
  <2>3. QED BY <2>1, <2>2, TextLen
<1>5. QED BY <1>1, <1>2, <1>3, <1>4

\* A row of a statement: it starts with 0, and so never like the end of rows.
LEMMA StmtRowBytes ==
  ASSUME NEW types, NEW values, NEW n \in Nat, n = Len(types),
         \A i \in 1..n : \/ values[i].null = TRUE
                         \/ /\ values[i].null = FALSE /\ Storable(types[i], values[i].data)
                            /\ types[i] \in DOMAIN Width \cup DateTypes \cup {Type.TIME} \cup StringTypes
  PROVE  /\ ServerStmtRow(types, values) \in Seq(Nat) /\ ServerStmtRow(types, values) # <<>>
         /\ ServerStmtRow(types, values)[1] = 0
<1> DEFINE m == (n + 1) \div Bits + 1
           nulls == [b \in 1..m |-> NullByte(values, n, b - 1)]
           q == [i \in 1..n |-> IF values[i].null THEN <<>> ELSE ServerValue(types[i], values[i].data)]
<1>1. ServerStmtRow(types, values) = <<0>> \o nulls \o FlattenSeq(q)
  <2>1. ServerStmtRow(types, values)
          = <<0>> \o [b \in 1..((Len(types) + 1) \div Bits + 1) |-> NullByte(values, Len(types), b - 1)]
              \o FlattenSeq([i \in 1..Len(types) |->
                               IF values[i].null THEN <<>> ELSE ServerValue(types[i], values[i].data)])
    BY DEF ServerStmtRow, NullByte, NullBit
  <2>2. QED BY <2>1
<1>2. m \in Nat
  BY ReaderAssumption
<1>3. nulls \in Seq(Nat)
  <2>1. \A b \in 1..m : NullByte(values, n, b - 1) \in Nat
    <3> SUFFICES ASSUME NEW b \in 1..m PROVE NullByte(values, n, b - 1) \in Nat
      OBVIOUS
    <3> HIDE DEF m
    <3>1. PICK a \in Nat : a = b - 1
      BY <1>2
    <3>2. QED BY <3>1, NullByteNat
  <2> HIDE DEF m
  <2>2. QED BY <1>2, <2>1
<1>4. q \in Seq(Seq(Nat))
  <2>1. \A i \in 1..n : (IF values[i].null THEN <<>> ELSE ServerValue(types[i], values[i].data)) \in Seq(Nat)
    <3> SUFFICES ASSUME NEW i \in 1..n
                 PROVE  (IF values[i].null THEN <<>> ELSE ServerValue(types[i], values[i].data)) \in Seq(Nat)
      OBVIOUS
    <3>1. CASE values[i].null = TRUE
      <4>1. <<>> \in Seq(Nat)
        OBVIOUS
      <4>2. QED BY <3>1, <4>1
    <3>2. CASE /\ values[i].null = FALSE /\ Storable(types[i], values[i].data)
               /\ types[i] \in DOMAIN Width \cup DateTypes \cup {Type.TIME} \cup StringTypes
      <4>1. ServerValue(types[i], values[i].data) \in Seq(Nat)
        BY <3>2, ServerValueBytes
      <4>2. QED BY <3>2, <4>1
    <3>3. QED BY <3>1, <3>2
  <2>2. QED BY <2>1
<1> HIDE DEF q, nulls
<1>5. FlattenSeq(q) \in Seq(Nat)
  BY <1>4, FlatNat
<1>6. PICK tail \in Seq(Nat) : tail = FlattenSeq(q)
  BY <1>5
<1>7. <<0>> \o nulls \o tail = <<0>> \o (nulls \o tail) /\ nulls \o tail \in Seq(Nat) /\ <<0>> \in Seq(Nat)
  BY <1>3
<1>8. PICK rest \in Seq(Nat) : ServerStmtRow(types, values) = <<0>> \o rest
  BY <1>1, <1>6, <1>7
<1>9. <<0>> \o rest \in Seq(Nat) /\ (<<0>> \o rest)[1] = 0 /\ <<0>> \o rest # <<>>
  OBVIOUS
<1>10. QED BY <1>8, <1>9

LEMMA FourthPlace == Radix^1 \in Nat /\ Radix^2 \in Nat /\ Radix^4 \in Nat
<1>0. Bits \in {4, 5, 6, 7, 8}
  BY ReaderAssumption
<1>1. CASE Bits = 4
  <2>1. Radix = 16
    BY <1>1, SMT DEF Radix
  <2>2. 16^1 \in Nat /\ 16^2 \in Nat /\ 16^4 \in Nat
    BY SMT
  <2>3. QED BY <2>1, <2>2
<1>2. CASE Bits = 5
  <2>1. Radix = 32
    BY <1>2, SMT DEF Radix
  <2>2. 32^1 \in Nat /\ 32^2 \in Nat /\ 32^4 \in Nat
    BY SMT
  <2>3. QED BY <2>1, <2>2
<1>3. CASE Bits = 6
  <2>1. Radix = 64
    BY <1>3, SMT DEF Radix
  <2>2. 64^1 \in Nat /\ 64^2 \in Nat /\ 64^4 \in Nat
    BY SMT
  <2>3. QED BY <2>1, <2>2
<1>4. CASE Bits = 7
  <2>1. Radix = 128
    BY <1>4, SMT DEF Radix
  <2>2. 128^1 \in Nat /\ 128^2 \in Nat /\ 128^4 \in Nat
    BY SMT
  <2>3. QED BY <2>1, <2>2
<1>5. CASE Bits = 8
  <2>1. Radix = 256
    BY <1>5, SMT DEF Radix
  <2>2. 256^1 \in Nat /\ 256^2 \in Nat /\ 256^4 \in Nat
    BY SMT
  <2>3. QED BY <2>1, <2>2
<1>6. QED BY <1>0, <1>1, <1>2, <1>3, <1>4, <1>5

LEMMA FlatSteps ==
  ASSUME NEW q \in Seq(Seq(Nat)), Len(q) > 0
  PROVE  \E f : FlattenSeq(q) = f[Len(q)] /\ f[1] = q[1] /\ \A i \in 2..Len(q) : f[i] = f[i - 1] \o q[i]
<1>1. \E f \in [1..Len(q) -> Seq(Nat)] :
        /\ FlattenSeq(q) = f[Len(q)]
        /\ f[1] = q[1]
        /\ \A i \in 2..Len(q) : f[i] = f[i - 1] \o q[i]
  BY FlattenFacts
<1>2. QED BY <1>1

\* A packet of n segments, a[i] the first i of them.
Laid(a, segs, n) ==
  /\ \A i \in 1..n : segs[i] \in Seq(Nat)
  /\ a[1] = segs[1] /\ \A i \in 2..n : a[i] = a[i - 1] \o segs[i]

\* What is left of it behind the first segments.
Leaves(g, a, segs, n) ==
  g \in [0..n -> Seq(Nat)] /\ g[0] = a[n] /\ Len(g[n]) = 0 /\ \A i \in 1..n : g[i - 1] = segs[i] \o g[i]

LEMMA Strung ==
  ASSUME NEW n \in Nat \ {0}, NEW segs, NEW a, Laid(a, segs, n)
  PROVE  \E g : Leaves(g, a, segs, n)
<1> DEFINE q == [i \in 1..n |-> segs[i]]
<1>0. /\ \A i \in 1..n : segs[i] \in Seq(Nat)
      /\ a[1] = segs[1] /\ \A i \in 2..n : a[i] = a[i - 1] \o segs[i]
  BY DEF Laid
<1>1. q \in Seq(Seq(Nat)) /\ Len(q) = n /\ n > 0 /\ n \in Nat /\ \A i \in 1..n : q[i] = segs[i]
  BY <1>0
<1> HIDE DEF q
<1>2. PICK f : FlattenSeq(q) = f[n] /\ f[1] = q[1] /\ \A i \in 2..n : f[i] = f[i - 1] \o q[i]
  <2>1. PICK p \in Seq(Seq(Nat)) : p = q
    BY <1>1
  <2>2. Len(p) > 0
    BY <1>1, <2>1
  <2>3. \E f : FlattenSeq(p) = f[Len(p)] /\ f[1] = p[1] /\ \A i \in 2..Len(p) : f[i] = f[i - 1] \o p[i]
    BY <2>2, FlatSteps
  <2>4. QED BY <1>1, <2>1, <2>3
<1> DEFINE P == {m \in Nat : m + 1 <= n => f[m + 1] = a[m + 1]}
<1>3. 0 \in P
  <2>1. 1 \in 1..n /\ 0 + 1 = 1
    BY <1>1
  <2>2. QED BY <1>0, <1>1, <1>2, <2>1
<1>4. ASSUME NEW m \in Nat, m \in P PROVE m + 1 \in P
  <2> SUFFICES ASSUME (m + 1) + 1 <= n PROVE f[(m + 1) + 1] = a[(m + 1) + 1]
    OBVIOUS
  <2>1. (m + 1) + 1 \in 2..n /\ (m + 1) + 1 \in 1..n /\ ((m + 1) + 1) - 1 = m + 1 /\ m + 1 <= n
    BY <1>1
  <2>2. f[m + 1] = a[m + 1]
    BY <1>4, <2>1
  <2>3. f[(m + 1) + 1] = f[m + 1] \o q[(m + 1) + 1] /\ a[(m + 1) + 1] = a[m + 1] \o segs[(m + 1) + 1]
    BY <1>0, <1>2, <2>1
  <2>4. q[(m + 1) + 1] = segs[(m + 1) + 1]
    BY <1>1, <2>1
  <2>5. QED BY <2>2, <2>3, <2>4
<1>5. Nat \subseteq P
  <2> HIDE DEF P
  <2>1. QED BY <1>3, <1>4, SetInduction
<1>6. f[n] = a[n]
  <2>1. n - 1 \in Nat /\ (n - 1) + 1 = n
    BY <1>1
  <2>2. n - 1 \in P
    BY <1>5, <2>1
  <2>3. QED BY <1>1, <2>1, <2>2
<1>7. PICK h \in [1..(n + 1) -> Seq(Nat)] :
        h[1] = a[n] /\ Len(h[n + 1]) = 0 /\ \A i \in 1..n : h[i] = q[i] \o h[i + 1]
  <2>1. PICK p \in Seq(Seq(Nat)) : p = q /\ Len(p) = n
    BY <1>1
  <2>2. PICK g \in [1..(n + 1) -> Seq(Nat)] :
          g[1] = FlattenSeq(p) /\ Len(g[n + 1]) = 0 /\ \A i \in 1..n : g[i] = p[i] \o g[i + 1]
    BY <2>1, RestsOf
  <2>3. g[1] = a[n]
    BY <1>2, <1>6, <2>1, <2>2
  <2>4. \A i \in 1..n : g[i] = q[i] \o g[i + 1]
    BY <2>1, <2>2
  <2>5. QED BY <2>2, <2>3, <2>4
<1> DEFINE g == [i \in 0..n |-> h[i + 1]]
<1>8. g \in [0..n -> Seq(Nat)]
  OBVIOUS
<1>9. g[0] = a[n] /\ Len(g[n]) = 0
  BY <1>1, <1>7
<1>10. ASSUME NEW i \in 1..n PROVE g[i - 1] = segs[i] \o g[i]
  <2>1. i - 1 \in 0..n /\ i \in 0..n /\ (i - 1) + 1 = i
    BY <1>1
  <2>2. g[i - 1] = h[i] /\ g[i] = h[i + 1]
    BY <2>1
  <2>3. QED BY <1>1, <1>7, <2>2
<1> HIDE DEF g
<1>11. QED BY <1>8, <1>9, <1>10 DEF Leaves

\* Calls that take a packet segment by segment: g[i] lies behind the ith.
Taking(calls, segs, vals, g, n) ==
  /\ Len(calls) = n
  /\ \A i \in 0..n : g[i] \in Seq(Nat)
  /\ \A i \in 1..n : segs[i] \in Seq(Nat) /\ g[i - 1] = segs[i] \o g[i] /\ Carries(calls[i], segs[i], vals[i], g[i])

\* What they put into fields that had before in them.
Filled(before, out, calls, vals, n) ==
  /\ \A i \in 1..n : calls[i].field # "skip" /\ (\A j \in (i + 1)..n : calls[j].field # calls[i].field)
                     => Has(out, calls[i].field, vals[i])
  /\ \A f, v : Has(before, f, v) /\ (\A i \in 1..n : calls[i].field # f) => Has(out, f, v)

LEMMA FilledNext ==
  ASSUME NEW n \in Nat, NEW calls, NEW vals, NEW before, NEW out, Filled(before, out, calls, vals, n),
         NEW next, next = IF calls[n + 1].field = "skip" THEN out ELSE Put(out, calls[n + 1].field, vals[n + 1])
  PROVE  Filled(before, next, calls, vals, n + 1)
<1>1. \A f, v : Has(out, f, v) /\ f # calls[n + 1].field => Has(next, f, v)
  BY PutHas
<1>2. calls[n + 1].field # "skip" => Has(next, calls[n + 1].field, vals[n + 1])
  BY PutHas
<1>3. ASSUME NEW i \in 1..(n + 1), calls[i].field # "skip", \A j \in (i + 1)..(n + 1) : calls[j].field # calls[i].field
      PROVE  Has(next, calls[i].field, vals[i])
  <2>1. CASE i = n + 1
    BY <1>2, <1>3, <2>1
  <2>2. CASE i # n + 1
    <3>1. i \in 1..n /\ n + 1 \in (i + 1)..(n + 1) /\ \A j \in (i + 1)..n : j \in (i + 1)..(n + 1)
      BY <2>2
    <3>2. Has(out, calls[i].field, vals[i])
      BY <1>3, <3>1 DEF Filled
    <3>3. calls[n + 1].field # calls[i].field
      BY <1>3, <3>1
    <3>4. QED BY <1>1, <3>2, <3>3
  <2>3. QED BY <2>1, <2>2
<1>4. ASSUME NEW f, NEW v, Has(before, f, v), \A i \in 1..(n + 1) : calls[i].field # f
      PROVE  Has(next, f, v)
  <2>1. n + 1 \in 1..(n + 1) /\ \A i \in 1..n : i \in 1..(n + 1)
    OBVIOUS
  <2>2. Has(out, f, v)
    BY <1>4, <2>1 DEF Filled
  <2>3. QED BY <1>1, <1>4, <2>1, <2>2
<1>5. QED BY <1>3, <1>4 DEF Filled

\* A field that one of them fills, and no other.
LEMMA FilledAt ==
  ASSUME NEW n \in Nat, NEW calls, NEW vals, NEW before, NEW out, Filled(before, out, calls, vals, n),
         NEW i \in 1..n, calls[i].field # "skip", \A j \in 1..n : j # i => calls[j].field # calls[i].field
  PROVE  Has(out, calls[i].field, vals[i])
<1>1. \A j \in (i + 1)..n : j \in 1..n /\ j # i
  OBVIOUS
<1>2. QED BY <1>1 DEF Filled

LEMMA FieldsTake ==
  ASSUME NEW n \in Nat, NEW calls, NEW segs, NEW vals, NEW g, Taking(calls, segs, vals, g, n), NEW r, Ready(r, g[0])
  PROVE  Ready(Fields(r, calls), g[n]) /\ Filled(r.out, Fields(r, calls).out, calls, vals, n)
<1>1. PICK h : h[0] = r /\ h[n] = Fields(r, calls) /\ \A i \in 1..n : h[i] = Read(h[i - 1], calls[i])
  <2>1. Len(calls) \in Nat /\ Len(calls) = n
    BY DEF Taking
  <2>2. \E h : h[0] = r /\ h[Len(calls)] = Fields(r, calls)
               /\ \A i \in 1..Len(calls) : h[i] = Read(h[i - 1], calls[i])
    BY <2>1, FieldsRuns
  <2>3. QED BY <2>1, <2>2
<1> DEFINE P == {m \in Nat : m <= n => Ready(h[m], g[m]) /\ Filled(r.out, h[m].out, calls, vals, m)}
<1>2. 0 \in P
  <2>1. Filled(r.out, r.out, calls, vals, 0)
    BY DEF Filled
  <2>2. QED BY <1>1, <2>1
<1>3. ASSUME NEW m \in Nat, m \in P PROVE m + 1 \in P
  <2> SUFFICES ASSUME m + 1 <= n PROVE Ready(h[m + 1], g[m + 1]) /\ Filled(r.out, h[m + 1].out, calls, vals, m + 1)
    OBVIOUS
  <2>1. m + 1 \in 1..n /\ m + 1 \in 0..n /\ (m + 1) - 1 = m /\ m <= n
    OBVIOUS
  <2>2. Ready(h[m], g[m]) /\ Filled(r.out, h[m].out, calls, vals, m)
    BY <1>3, <2>1
  <2>3. PICK seg \in Seq(Nat), rest \in Seq(Nat) : seg = segs[m + 1] /\ rest = g[m + 1]
    BY <2>1 DEF Taking
  <2>4. g[m] = seg \o rest /\ Carries(calls[m + 1], seg, vals[m + 1], rest)
    <3>1. g[(m + 1) - 1] = segs[m + 1] \o g[m + 1] /\ Carries(calls[m + 1], segs[m + 1], vals[m + 1], g[m + 1])
      BY <2>1 DEF Taking
    <3>2. QED BY <2>1, <2>3, <3>1
  <2>5. h[m + 1] = Read(h[m], calls[m + 1])
    BY <1>1, <2>1
  <2>6. Ready(h[m], seg \o rest)
    BY <2>2, <2>4
  <2>7. /\ Ready(h[m + 1], rest)
        /\ h[m + 1].out = IF calls[m + 1].field = "skip" THEN h[m].out ELSE Put(h[m].out, calls[m + 1].field, vals[m + 1])
    BY <2>4, <2>5, <2>6, ReadReady
  <2>8. Filled(r.out, h[m + 1].out, calls, vals, m + 1)
    BY <2>2, <2>7, FilledNext
  <2>9. QED BY <2>3, <2>7, <2>8
<1>4. Nat \subseteq P
  <2> HIDE DEF P
  <2>1. QED BY <1>2, <1>3, SetInduction
<1>5. Ready(h[n], g[n]) /\ Filled(r.out, h[n].out, calls, vals, n)
  BY <1>4
<1>6. QED BY <1>1, <1>5

\* Segments and what reads them.
LEMMA NumberCarried ==
  ASSUME NEW n \in Nat, NEW width \in Nat \ {0}, Fits(n, width), Small(n)
  PROVE  /\ Digits(n, width) \in Seq(Nat) /\ Len(Digits(n, width)) = width
         /\ \A field, z : Carries(UInt(width, field), Digits(n, width), n, z)
<1>1. Digits(n, width) \in Seq(Nat) /\ Len(Digits(n, width)) = width
  BY DigitsFacts
<1>2. Number(Digits(n, width)) = n
  BY NumberDigits
<1>3. QED BY <1>1, <1>2 DEF Carries, UInt

LEMMA ByteCarried ==
  ASSUME NEW n \in Nat
  PROVE  <<n>> \in Seq(Nat) /\ Len(<<n>>) = 1 /\ \A field, z : Carries(UInt(1, field), <<n>>, n, z)
<1>1. <<n>> \in Seq(Nat) /\ Len(<<n>>) = 1
  OBVIOUS
<1>2. Number(<<n>>) = n
  BY NumberOne
<1>3. QED BY <1>1, <1>2 DEF Carries, UInt

LEMMA LenencCarried ==
  ASSUME NEW n \in Sizes
  PROVE  ServerLenenc(n) \in Seq(Nat) /\ \A field, z : Carries(Lenenc(field), ServerLenenc(n), n, z)
<1>1. n \in Nat /\ Sizes \subseteq Nat
  BY DEF Sizes
<1>2. PICK m \in Nat : m = n
  BY <1>1
<1>3. ServerLenenc(m) \in Seq(Nat)
  BY LenencFacts
<1>4. QED BY <1>2, <1>3 DEF Carries, Lenenc

LEMMA TextCarried ==
  ASSUME NEW text \in Seq(Nat), Len(text) \in Sizes
  PROVE  ServerText(text) \in Seq(Nat) /\ \A field, z : Carries(LenencBuffer(field), ServerText(text), text, z)
<1>1. ServerText(text) \in Seq(Nat)
  BY TextFacts
<1>2. QED BY <1>1 DEF Carries, LenencBuffer

LEMMA BufferCarried ==
  ASSUME NEW seg \in Seq(Nat), NEW n, Len(seg) = n
  PROVE  \A field, z : Carries(Buffer(n, field), seg, seg, z)
BY DEF Carries, Buffer

LEMMA StringCarried ==
  ASSUME NEW text \in Seq(Nat \ {0})
  PROVE  text \o <<0>> \in Seq(Nat) /\ \A field, z : Carries(String(field), text \o <<0>>, text, z)
<1>1. text \o <<0>> \in Seq(Nat)
  OBVIOUS
<1>2. QED BY <1>1 DEF Carries, String

LEMMA RestCarried ==
  ASSUME NEW seg \in Seq(Nat)
  PROVE  \A field, z : Len(z) = 0 => Carries(EofBuffer(field), seg, seg, z)
BY DEF Carries, EofBuffer

\* The calls that read such a packet.
CarriedBy(calls, segs, vals, n) ==
  \A i \in 1..n : \A z : i # n \/ Len(z) = 0 => Carries(calls[i], segs[i], vals[i], z)

LEMMA PacketTaken ==
  ASSUME NEW n \in Nat \ {0}, NEW segs, NEW a, Laid(a, segs, n), NEW calls, Len(calls) = n, NEW vals,
         CarriedBy(calls, segs, vals, n)
  PROVE  a[n] \in Seq(Nat) /\ \E g : g[0] = a[n] /\ Len(g[n]) = 0 /\ Taking(calls, segs, vals, g, n)
<1>1. \A i \in 1..n : segs[i] \in Seq(Nat)
  BY DEF Laid
<1>2. PICK g : Leaves(g, a, segs, n)
  BY Strung
<1>3. \A i \in 1..n : Carries(calls[i], segs[i], vals[i], g[i])
  <2> TAKE i \in 1..n
  <2>1. i # n \/ Len(g[i]) = 0
    BY <1>2 DEF Leaves
  <2>2. QED BY <2>1 DEF CarriedBy
<1>4. \A i \in 0..n : g[i] \in Seq(Nat)
  BY <1>2 DEF Leaves
<1>5. Taking(calls, segs, vals, g, n)
  BY <1>1, <1>2, <1>3, <1>4 DEF Taking, Leaves
<1>6. a[n] \in Seq(Nat)
  <2>1. 0 \in 0..n
    OBVIOUS
  <2>2. QED BY <1>2, <1>4, <2>1 DEF Leaves
<1>7. QED BY <1>2, <1>5, <1>6 DEF Leaves

LEMMA PacketReads ==
  ASSUME NEW n \in Nat \ {0}, NEW segs, NEW a, Laid(a, segs, n), NEW calls, Len(calls) = n, NEW vals,
         CarriedBy(calls, segs, vals, n), NEW out, NEW buff, buff = a[n]
  PROVE  LET s == Fields(Open(buff, out), calls)
         IN buff \in Seq(Nat) /\ Finish(s) = s /\ s.rc = "OK" /\ Filled(out, s.out, calls, vals, n)
<1>1. PICK g : g[0] = a[n] /\ Len(g[n]) = 0 /\ Taking(calls, segs, vals, g, n)
  BY PacketTaken
<1>2. PICK q \in Seq(Nat) : q = buff
  BY PacketTaken
<1> DEFINE r == Open(buff, out)
           s == Fields(r, calls)
<1>3. Ready(r, g[0]) /\ r.out = out
  <2>1. Ready(Open(q, out), q) /\ Open(q, out).out = out
    BY OpenReady
  <2>2. QED BY <1>1, <1>2, <2>1
<1> HIDE DEF r
<1>4. Ready(s, g[n]) /\ Filled(r.out, s.out, calls, vals, n)
  BY <1>1, <1>3, FieldsTake
<1> HIDE DEF s
<1>5. Finish(s) = s
  BY <1>1, <1>4, FinishReady
<1>6. s.rc = "OK"
  BY <1>4 DEF Ready
<1>7. QED BY <1>2, <1>3, <1>4, <1>5, <1>6 DEF s, r

-----------------------------------------------------------------------------
(* An ERR packet.                                                            *)

ErrMeant(e) ==
  e.code \in Word /\ e.marker \in Nat /\ e.state \in Seq(Nat) /\ Len(e.state) = StateLen /\ e.message \in Seq(Nat)

LEMMA Regrouped ==
  ASSUME NEW a, NEW b, NEW c, NEW d, Bytes(a), Bytes(b), Bytes(c), Bytes(d)
  PROVE  ((a \o b) \o (c \o d)) = ((a \o b) \o c) \o d /\ Bytes(a \o b) /\ a \o <<>> = a
<1>1. a \in Seq(Nat) /\ b \in Seq(Nat) /\ c \in Seq(Nat) /\ d \in Seq(Nat)
  BY DEF Bytes
<1>2. a \o b \in Seq(Nat) /\ a \o <<>> = a
  BY <1>1
<1>3. \A u, v, w \in Seq(Nat) : (u \o v) \o w = u \o (v \o w)
  OBVIOUS
<1>4. QED BY <1>1, <1>2, <1>3 DEF Bytes

\* There are the first i of any segments; and what they are.
LEMMA LaidExists ==
  ASSUME NEW n \in Nat \ {0}, NEW segs, \A i \in 1..n : Bytes(segs[i])
  PROVE  \E a : Laid(a, segs, n)
<1> DEFINE q == [i \in 1..n |-> segs[i]]
<1>1. q \in Seq(Seq(Nat)) /\ Len(q) = n /\ \A i \in 1..n : q[i] = segs[i] /\ segs[i] \in Seq(Nat)
  BY DEF Bytes
<1> HIDE DEF q
<1>2. PICK p \in Seq(Seq(Nat)) : p = q /\ Len(p) > 0
  BY <1>1
<1>3. PICK f : f[1] = p[1] /\ \A i \in 2..Len(p) : f[i] = f[i - 1] \o p[i]
  BY <1>2, FlatSteps
<1>4. \A i \in 2..n : i \in 1..n
  OBVIOUS
<1>5. 1 \in 1..n
  OBVIOUS
<1>6. f[1] = segs[1] /\ \A i \in 2..n : f[i] = f[i - 1] \o segs[i]
  BY <1>1, <1>2, <1>3, <1>4, <1>5
<1>7. QED BY <1>1, <1>6 DEF Laid

BuiltUp(a, segs, n) ==
  /\ a[1] = segs[1] /\ (n >= 2 => a[2] = a[1] \o segs[2]) /\ (n >= 3 => a[3] = a[2] \o segs[3])
  /\ (n >= 4 => a[4] = a[3] \o segs[4]) /\ (n >= 5 => a[5] = a[4] \o segs[5])
  /\ (n >= 6 => a[6] = a[5] \o segs[6]) /\ (n >= 7 => a[7] = a[6] \o segs[7])
  /\ (n >= 8 => a[8] = a[7] \o segs[8]) /\ (n >= 9 => a[9] = a[8] \o segs[9])
  /\ (n >= 10 => a[10] = a[9] \o segs[10]) /\ (n >= 11 => a[11] = a[10] \o segs[11])
  /\ (n >= 12 => a[12] = a[11] \o segs[12]) /\ (n >= 13 => a[13] = a[12] \o segs[13])
  /\ (n >= 14 => a[14] = a[13] \o segs[14])

LEMMA LaidSteps ==
  ASSUME NEW n \in Nat \ {0}, NEW segs, NEW a, Laid(a, segs, n)
  PROVE  BuiltUp(a, segs, n)
<1>1. a[1] = segs[1] /\ \A i \in 2..n : a[i] = a[i - 1] \o segs[i]
  BY DEF Laid
<1>2. n >= 2 => a[2] = a[1] \o segs[2]
  <2>1. n >= 2 => 2 \in 2..n
    OBVIOUS
  <2>2. n >= 2 => a[2] = a[2 - 1] \o segs[2]
    BY <1>1, <2>1
  <2>3. 2 - 1 = 1
    OBVIOUS
  <2>4. QED BY <2>2, <2>3
<1>3. n >= 3 => a[3] = a[2] \o segs[3]
  <2>1. n >= 3 => 3 \in 2..n
    OBVIOUS
  <2>2. n >= 3 => a[3] = a[3 - 1] \o segs[3]
    BY <1>1, <2>1
  <2>3. 3 - 1 = 2
    OBVIOUS
  <2>4. QED BY <2>2, <2>3
<1>4. n >= 4 => a[4] = a[3] \o segs[4]
  <2>1. n >= 4 => 4 \in 2..n
    OBVIOUS
  <2>2. n >= 4 => a[4] = a[4 - 1] \o segs[4]
    BY <1>1, <2>1
  <2>3. 4 - 1 = 3
    OBVIOUS
  <2>4. QED BY <2>2, <2>3
<1>5. n >= 5 => a[5] = a[4] \o segs[5]
  <2>1. n >= 5 => 5 \in 2..n
    OBVIOUS
  <2>2. n >= 5 => a[5] = a[5 - 1] \o segs[5]
    BY <1>1, <2>1
  <2>3. 5 - 1 = 4
    OBVIOUS
  <2>4. QED BY <2>2, <2>3
<1>6. n >= 6 => a[6] = a[5] \o segs[6]
  <2>1. n >= 6 => 6 \in 2..n
    OBVIOUS
  <2>2. n >= 6 => a[6] = a[6 - 1] \o segs[6]
    BY <1>1, <2>1
  <2>3. 6 - 1 = 5
    OBVIOUS
  <2>4. QED BY <2>2, <2>3
<1>7. n >= 7 => a[7] = a[6] \o segs[7]
  <2>1. n >= 7 => 7 \in 2..n
    OBVIOUS
  <2>2. n >= 7 => a[7] = a[7 - 1] \o segs[7]
    BY <1>1, <2>1
  <2>3. 7 - 1 = 6
    OBVIOUS
  <2>4. QED BY <2>2, <2>3
<1>8. n >= 8 => a[8] = a[7] \o segs[8]
  <2>1. n >= 8 => 8 \in 2..n
    OBVIOUS
  <2>2. n >= 8 => a[8] = a[8 - 1] \o segs[8]
    BY <1>1, <2>1
  <2>3. 8 - 1 = 7
    OBVIOUS
  <2>4. QED BY <2>2, <2>3
<1>9. n >= 9 => a[9] = a[8] \o segs[9]
  <2>1. n >= 9 => 9 \in 2..n
    OBVIOUS
  <2>2. n >= 9 => a[9] = a[9 - 1] \o segs[9]
    BY <1>1, <2>1
  <2>3. 9 - 1 = 8
    OBVIOUS
  <2>4. QED BY <2>2, <2>3
<1>10. n >= 10 => a[10] = a[9] \o segs[10]
  <2>1. n >= 10 => 10 \in 2..n
    OBVIOUS
  <2>2. n >= 10 => a[10] = a[10 - 1] \o segs[10]
    BY <1>1, <2>1
  <2>3. 10 - 1 = 9
    OBVIOUS
  <2>4. QED BY <2>2, <2>3
<1>11. n >= 11 => a[11] = a[10] \o segs[11]
  <2>1. n >= 11 => 11 \in 2..n
    OBVIOUS
  <2>2. n >= 11 => a[11] = a[11 - 1] \o segs[11]
    BY <1>1, <2>1
  <2>3. 11 - 1 = 10
    OBVIOUS
  <2>4. QED BY <2>2, <2>3
<1>12. n >= 12 => a[12] = a[11] \o segs[12]
  <2>1. n >= 12 => 12 \in 2..n
    OBVIOUS
  <2>2. n >= 12 => a[12] = a[12 - 1] \o segs[12]
    BY <1>1, <2>1
  <2>3. 12 - 1 = 11
    OBVIOUS
  <2>4. QED BY <2>2, <2>3
<1>13. n >= 13 => a[13] = a[12] \o segs[13]
  <2>1. n >= 13 => 13 \in 2..n
    OBVIOUS
  <2>2. n >= 13 => a[13] = a[13 - 1] \o segs[13]
    BY <1>1, <2>1
  <2>3. 13 - 1 = 12
    OBVIOUS
  <2>4. QED BY <2>2, <2>3
<1>14. n >= 14 => a[14] = a[13] \o segs[14]
  <2>1. n >= 14 => 14 \in 2..n
    OBVIOUS
  <2>2. n >= 14 => a[14] = a[14 - 1] \o segs[14]
    BY <1>1, <2>1
  <2>3. 14 - 1 = 13
    OBVIOUS
  <2>4. QED BY <2>2, <2>3
<1>15. QED BY <1>1, <1>2, <1>3, <1>4, <1>5, <1>6, <1>7, <1>8, <1>9, <1>10, <1>11, <1>12, <1>13, <1>14 DEF BuiltUp

LEMMA WordCarried ==
  ASSUME NEW n \in Word
  PROVE  n \in Nat /\ Bytes(Digits(n, 2)) /\ \A field, z : Carries(UInt(2, field), Digits(n, 2), n, z)
BY WordFacts DEF Bytes

ErrCalls(caps) ==
  <<UInt(1, "skip"), UInt(2, "error_code")>>
    \o (IF "PROTOCOL_41" \in caps THEN <<UInt(1, "sql_state_marker"), Buffer(StateLen, "sql_state")>> ELSE <<>>)
    \o <<EofBuffer("error_message")>>

ErrDefaults == [sql_state_marker |-> 0, sql_state |-> [i \in 1..StateLen |-> 0]]

LEMMA ErrWithState ==
  ASSUME NEW caps, "PROTOCOL_41" \in caps, NEW e, ErrMeant(e)
  PROVE  LET buff == ServerErr(caps, e)
             s == Fields(Open(buff, ErrDefaults), ErrCalls(caps))
         IN /\ buff \in Seq(Nat) /\ Finish(s) = s /\ s.rc = "OK"
            /\ Has(s.out, "error_code", e.code) /\ Has(s.out, "sql_state", e.state)
            /\ Has(s.out, "error_message", e.message)
<1>1. PICK x, p, c, m, t, g :
        /\ x = PacketErr /\ p = <<x>> /\ c = Digits(e.code, 2) /\ m = <<e.marker>> /\ t = e.state /\ g = e.message
        /\ Bytes(p) /\ Bytes(c) /\ Bytes(m) /\ Bytes(t) /\ Bytes(g)
  <2>1. PacketErr \in Nat
    BY RadixFacts DEF PacketErr
  <2>2. Bytes(<<PacketErr>>) /\ Bytes(<<e.marker>>)
    BY <2>1, ByteCarried DEF Bytes, ErrMeant
  <2>3. Bytes(Digits(e.code, 2)) /\ Bytes(e.state) /\ Bytes(e.message)
    BY WordCarried DEF Bytes, ErrMeant
  <2>4. QED BY <2>2, <2>3
<1>2. PICK segs : segs[1] = p /\ segs[2] = c /\ segs[3] = m /\ segs[4] = t /\ segs[5] = g
  <2>1. /\ <<p, c, m, t, g>>[1] = p /\ <<p, c, m, t, g>>[2] = c /\ <<p, c, m, t, g>>[3] = m
        /\ <<p, c, m, t, g>>[4] = t /\ <<p, c, m, t, g>>[5] = g
    OBVIOUS
  <2>2. QED BY <2>1
<1>3. PICK vals : vals[1] = x /\ vals[2] = e.code /\ vals[3] = e.marker /\ vals[4] = t /\ vals[5] = g
  <2> DEFINE v == <<x, e.code, e.marker, t, g>>
  <2>1. v[1] = x /\ v[2] = e.code /\ v[3] = e.marker /\ v[4] = t /\ v[5] = g
    OBVIOUS
  <2>2. QED BY <2>1
<1>4. PICK calls :
        /\ calls = ErrCalls(caps) /\ Len(calls) = 5 /\ calls[1] = UInt(1, "skip") /\ calls[2] = UInt(2, "error_code")
        /\ calls[3] = UInt(1, "sql_state_marker") /\ calls[4] = Buffer(StateLen, "sql_state")
        /\ calls[5] = EofBuffer("error_message")
  <2>1. PICK c1, c2, c3, c4, c5 :
          /\ c1 = UInt(1, "skip") /\ c2 = UInt(2, "error_code") /\ c3 = UInt(1, "sql_state_marker")
          /\ c4 = Buffer(StateLen, "sql_state") /\ c5 = EofBuffer("error_message")
    OBVIOUS
  <2>2. PICK y : y = (<<c1, c2>> \o <<c3, c4>>) \o <<c5>>
    OBVIOUS
  <2>3. Len(y) = 5 /\ y[1] = c1 /\ y[2] = c2 /\ y[3] = c3 /\ y[4] = c4 /\ y[5] = c5
    BY <2>2
  <2>4. y = ErrCalls(caps)
    BY <2>1, <2>2 DEF ErrCalls
  <2>5. QED BY <2>1, <2>3, <2>4
<1>5. \A i \in 1..5 : i = 1 \/ i = 2 \/ i = 3 \/ i = 4 \/ i = 5
  OBVIOUS
<1>6. \A i \in 1..5 : Bytes(segs[i])
  BY <1>1, <1>2, <1>5
<1>7. PICK n \in Nat \ {0} : n = 5
  OBVIOUS
<1>8. PICK a : Laid(a, segs, n)
  BY <1>6, <1>7, LaidExists
<1>9. ServerErr(caps, e) = a[n]
  <2>1. a[1] = segs[1] /\ a[2] = a[1] \o segs[2] /\ a[3] = a[2] \o segs[3] /\ a[4] = a[3] \o segs[4] /\ a[5] = a[4] \o segs[5]
    <3>1. BuiltUp(a, segs, n)
      BY <1>8, LaidSteps
    <3>2. n >= 2 /\ n >= 3 /\ n >= 4 /\ n >= 5
      BY <1>7
    <3>3. QED BY <3>1, <3>2 DEF BuiltUp
  <2>2. a[5] = (((p \o c) \o m) \o t) \o g
    BY <1>2, <2>1
  <2>3. ServerErr(caps, e) = ((p \o c) \o (m \o t)) \o g
    BY <1>1 DEF ServerErr
  <2>4. (p \o c) \o (m \o t) = ((p \o c) \o m) \o t
    <3>1. Bytes(p) /\ Bytes(c) /\ Bytes(m) /\ Bytes(t)
      BY <1>1
    <3>2. QED BY <3>1, Regrouped
  <2>5. QED BY <1>7, <2>2, <2>3, <2>4
<1>10. CarriedBy(calls, segs, vals, n)
  <2>1. \A z : Carries(calls[1], segs[1], vals[1], z) /\ Carries(calls[3], segs[3], vals[3], z)
    <3>1. x \in Nat /\ e.marker \in Nat
      BY <1>1, RadixFacts DEF PacketErr, ErrMeant
    <3>2. QED BY <1>1, <1>2, <1>3, <1>4, <3>1, ByteCarried
  <2>2. \A z : Carries(calls[2], segs[2], vals[2], z)
    BY <1>1, <1>2, <1>3, <1>4, WordCarried DEF ErrMeant
  <2>3. \A z : Carries(calls[4], segs[4], vals[4], z)
    <3>1. t \in Seq(Nat) /\ Len(t) = StateLen
      BY <1>1 DEF ErrMeant
    <3>2. QED BY <1>2, <1>3, <1>4, <3>1, BufferCarried
  <2>4. \A z : Len(z) = 0 => Carries(calls[5], segs[5], vals[5], z)
    <3>1. g \in Seq(Nat)
      BY <1>1 DEF ErrMeant
    <3>2. QED BY <1>2, <1>3, <1>4, <3>1, RestCarried
  <2>5. QED BY <1>5, <1>7, <2>1, <2>2, <2>3, <2>4 DEF CarriedBy
<1>11. PICK buff : buff = ServerErr(caps, e)
  OBVIOUS
<1>12. PICK s : s = Fields(Open(buff, ErrDefaults), calls)
  OBVIOUS
<1>13. buff \in Seq(Nat) /\ Finish(s) = s /\ s.rc = "OK" /\ Filled(ErrDefaults, s.out, calls, vals, n)
  <2>1. Len(calls) = n /\ buff = a[n]
    BY <1>4, <1>7, <1>9, <1>11
  <2>2. QED BY <1>8, <1>10, <1>12, <2>1, PacketReads
<1>14. calls[2].field = "error_code" /\ calls[3].field = "sql_state_marker" /\ calls[4].field = "sql_state"
       /\ calls[5].field = "error_message"
  BY <1>4 DEF UInt, Buffer, EofBuffer
<1>15. Has(s.out, "error_code", vals[2]) /\ Has(s.out, "sql_state", vals[4]) /\ Has(s.out, "error_message", vals[5])
  <2>1. Has(s.out, "error_message", vals[5])
    BY <1>7, <1>13, <1>14 DEF Filled
  <2>2. Has(s.out, "sql_state", vals[4])
    BY <1>7, <1>13, <1>14 DEF Filled
  <2>3. Has(s.out, "error_code", vals[2])
    BY <1>7, <1>13, <1>14 DEF Filled
  <2>4. QED BY <2>1, <2>2, <2>3
<1>16. QED BY <1>1, <1>3, <1>4, <1>11, <1>12, <1>13, <1>15

LEMMA ErrPlain ==
  ASSUME NEW caps, "PROTOCOL_41" \notin caps, NEW e, ErrMeant(e)
  PROVE  LET buff == ServerErr(caps, e)
             s == Fields(Open(buff, ErrDefaults), ErrCalls(caps))
         IN /\ buff \in Seq(Nat) /\ Finish(s) = s /\ s.rc = "OK"
            /\ Has(s.out, "error_code", e.code) /\ Has(s.out, "sql_state", [i \in 1..StateLen |-> 0])
            /\ Has(s.out, "error_message", e.message)
<1>1. PICK x, p, c, g :
        /\ x = PacketErr /\ p = <<x>> /\ c = Digits(e.code, 2) /\ g = e.message
        /\ Bytes(p) /\ Bytes(c) /\ Bytes(g)
  <2>1. PacketErr \in Nat
    BY RadixFacts DEF PacketErr
  <2>2. Bytes(<<PacketErr>>)
    BY <2>1, ByteCarried DEF Bytes
  <2>3. Bytes(Digits(e.code, 2)) /\ Bytes(e.message)
    BY WordCarried DEF Bytes, ErrMeant
  <2>4. QED BY <2>2, <2>3
<1>2. PICK segs : segs[1] = p /\ segs[2] = c /\ segs[3] = g
  <2>1. <<p, c, g>>[1] = p /\ <<p, c, g>>[2] = c /\ <<p, c, g>>[3] = g
    OBVIOUS
  <2>2. QED BY <2>1
<1>3. PICK vals : vals[1] = x /\ vals[2] = e.code /\ vals[3] = g
  <2> DEFINE v == <<x, e.code, g>>
  <2>1. v[1] = x /\ v[2] = e.code /\ v[3] = g
    OBVIOUS
  <2>2. QED BY <2>1
<1>4. PICK calls :
        /\ calls = ErrCalls(caps) /\ Len(calls) = 3 /\ calls[1] = UInt(1, "skip") /\ calls[2] = UInt(2, "error_code")
        /\ calls[3] = EofBuffer("error_message")
  <2>1. PICK c1, c2, c3 : c1 = UInt(1, "skip") /\ c2 = UInt(2, "error_code") /\ c3 = EofBuffer("error_message")
    OBVIOUS
  <2>2. PICK y : y = (<<c1, c2>> \o <<>>) \o <<c3>>
    OBVIOUS
  <2>3. Len(y) = 3 /\ y[1] = c1 /\ y[2] = c2 /\ y[3] = c3
    BY <2>2
  <2>4. y = ErrCalls(caps)
    BY <2>1, <2>2 DEF ErrCalls
  <2>5. QED BY <2>1, <2>3, <2>4
<1>5. \A i \in 1..3 : i = 1 \/ i = 2 \/ i = 3
  OBVIOUS
<1>6. \A i \in 1..3 : Bytes(segs[i])
  BY <1>1, <1>2, <1>5
<1>7. PICK n \in Nat \ {0} : n = 3
  OBVIOUS
<1>8. PICK a : Laid(a, segs, n)
  BY <1>6, <1>7, LaidExists
<1>9. ServerErr(caps, e) = a[n]
  <2>1. a[1] = segs[1] /\ a[2] = a[1] \o segs[2] /\ a[3] = a[2] \o segs[3]
    <3>1. BuiltUp(a, segs, n)
      BY <1>8, LaidSteps
    <3>2. n >= 2 /\ n >= 3
      BY <1>7
    <3>3. QED BY <3>1, <3>2 DEF BuiltUp
  <2>2. a[3] = (p \o c) \o g
    BY <1>2, <2>1
  <2>3. ServerErr(caps, e) = ((p \o c) \o <<>>) \o g
    BY <1>1 DEF ServerErr
  <2>4. (p \o c) \o <<>> = p \o c
    <3>1. Bytes(p) /\ Bytes(c)
      BY <1>1
    <3>2. \A u : Bytes(u) => u \o <<>> = u
      BY DEF Bytes
    <3>3. Bytes(p \o c)
      BY Zenon, <3>1, Lengths DEF Bytes
    <3>4. QED BY <3>2, <3>3
  <2>5. QED BY <1>7, <2>2, <2>3, <2>4
<1>10. CarriedBy(calls, segs, vals, n)
  <2>1. \A z : Carries(calls[1], segs[1], vals[1], z)
    <3>1. x \in Nat
      BY <1>1, RadixFacts DEF PacketErr
    <3>2. QED BY <1>1, <1>2, <1>3, <1>4, <3>1, ByteCarried
  <2>2. \A z : Carries(calls[2], segs[2], vals[2], z)
    BY <1>1, <1>2, <1>3, <1>4, WordCarried DEF ErrMeant
  <2>3. \A z : Len(z) = 0 => Carries(calls[3], segs[3], vals[3], z)
    <3>1. g \in Seq(Nat)
      BY <1>1 DEF ErrMeant
    <3>2. QED BY <1>2, <1>3, <1>4, <3>1, RestCarried
  <2>4. QED BY <1>5, <1>7, <2>1, <2>2, <2>3 DEF CarriedBy
<1>11. PICK buff : buff = ServerErr(caps, e)
  OBVIOUS
<1>12. PICK s : s = Fields(Open(buff, ErrDefaults), calls)
  OBVIOUS
<1>13. buff \in Seq(Nat) /\ Finish(s) = s /\ s.rc = "OK" /\ Filled(ErrDefaults, s.out, calls, vals, n)
  <2>1. Len(calls) = n /\ buff = a[n]
    BY <1>4, <1>7, <1>9, <1>11
  <2>2. QED BY <1>8, <1>10, <1>12, <2>1, PacketReads
<1>14. calls[1].field = "skip" /\ calls[2].field = "error_code" /\ calls[3].field = "error_message"
  BY <1>4 DEF UInt, Buffer, EofBuffer
<1>15. Has(s.out, "error_code", vals[2]) /\ Has(s.out, "error_message", vals[3])
  BY <1>7, <1>13, <1>14 DEF Filled
<1>16. Has(s.out, "sql_state", [i \in 1..StateLen |-> 0])
  <2>1. PICK zeroes : zeroes = [i \in 1..StateLen |-> 0]
    OBVIOUS
  <2>2. Has(ErrDefaults, "sql_state", zeroes)
    BY <2>1 DEF Has, ErrDefaults
  <2>3. \A i \in 1..n : calls[i].field # "sql_state"
    BY <1>5, <1>7, <1>14
  <2>4. Has(s.out, "sql_state", zeroes)
    BY <1>13, <2>2, <2>3 DEF Filled
  <2>5. QED BY <2>1, <2>4
<1>17. QED BY <1>1, <1>3, <1>4, <1>11, <1>12, <1>13, <1>15, <1>16

(* The client reads an ERR packet as the server meant it: the code, the SQL  *)
(* state if PROTOCOL_41 was agreed on and zeroes if not, and all the rest of *)
(* the packet as the message (trilogy_parse_err_packet).                     *)
THEOREM ErrReadsBack ==
  ASSUME NEW caps, NEW e, ErrMeant(e)
  PROVE  LET buff == ServerErr(caps, e)
             r == ParseErr(buff, caps)
         IN /\ buff \in Seq(Nat) /\ r.rc = "OK"
            /\ r.out.error_code = e.code /\ r.out.error_message = e.message
            /\ r.out.sql_state = IF "PROTOCOL_41" \in caps THEN e.state ELSE [i \in 1..StateLen |-> 0]
<1> DEFINE buff == ServerErr(caps, e)
           s == Fields(Open(buff, ErrDefaults), ErrCalls(caps))
<1>1. ParseErr(buff, caps) = Finish(s)
  BY DEF ParseErr, ErrDefaults, ErrCalls
<1>2. /\ buff \in Seq(Nat) /\ Finish(s) = s /\ s.rc = "OK"
      /\ Has(s.out, "error_code", e.code) /\ Has(s.out, "error_message", e.message)
      /\ Has(s.out, "sql_state", IF "PROTOCOL_41" \in caps THEN e.state ELSE [i \in 1..StateLen |-> 0])
  <2>1. CASE "PROTOCOL_41" \in caps
    BY <2>1, ErrWithState
  <2>2. CASE "PROTOCOL_41" \notin caps
    BY <2>2, ErrPlain
  <2>3. QED BY <2>1, <2>2
<1> HIDE DEF s, buff
<1>3. QED BY <1>1, <1>2 DEF Has, buff

-----------------------------------------------------------------------------
(* A column.                                                                 *)

Texted(x) == x \in Seq(Nat) /\ Len(x) \in Sizes

ColumnMeant(c, field_list) ==
  /\ Texted(c.catalog) /\ Texted(c.schema) /\ Texted(c.table) /\ Texted(c.original_table) /\ Texted(c.name)
  /\ Texted(c.original_name) /\ c.charset \in Word /\ c.len \in Nat /\ Fits(c.len, 4) /\ Small(c.len)
  /\ c.type \in Nat /\ c.flags \in Word /\ c.decimals \in Nat
  /\ IF field_list THEN Texted(c.default_value) ELSE c.default_value = <<>>

ColumnCalls(field_list) ==
  <<LenencBuffer("catalog"), LenencBuffer("schema"), LenencBuffer("table"), LenencBuffer("original_table"),
    LenencBuffer("name"), LenencBuffer("original_name")>>
  \o <<Lenenc("skip"), UInt(2, "charset"), UInt(4, "len"), UInt(1, "type"), UInt(2, "flags"), UInt(1, "decimals"),
       UInt(2, "skip")>>
  \o (IF field_list THEN <<LenencBuffer("default_value")>> ELSE <<>>)

\* The pieces of its packet.
ColumnSegs(c) ==
  <<ServerText(c.catalog), ServerText(c.schema), ServerText(c.table), ServerText(c.original_table), ServerText(c.name),
    ServerText(c.original_name), ServerLenenc(12 % NullLeader), Digits(c.charset, 2), Digits(c.len, 4), <<c.type>>,
    Digits(c.flags, 2), <<c.decimals>>, <<0, 0>>, ServerText(c.default_value)>>

ColumnVals(c) ==
  <<c.catalog, c.schema, c.table, c.original_table, c.name, c.original_name, 12 % NullLeader, c.charset, c.len, c.type,
    c.flags, c.decimals, Number(<<0, 0>>), c.default_value>>

SegsAt(segs, c) ==
  /\ segs[1] = ServerText(c.catalog) /\ segs[2] = ServerText(c.schema) /\ segs[3] = ServerText(c.table)
  /\ segs[4] = ServerText(c.original_table) /\ segs[5] = ServerText(c.name) /\ segs[6] = ServerText(c.original_name)
  /\ segs[7] = ServerLenenc(12 % NullLeader) /\ segs[8] = Digits(c.charset, 2) /\ segs[9] = Digits(c.len, 4)
  /\ segs[10] = <<c.type>> /\ segs[11] = Digits(c.flags, 2) /\ segs[12] = <<c.decimals>>
  /\ segs[13] = <<0, 0>> /\ segs[14] = ServerText(c.default_value)

ValsAt(vals, c) ==
  /\ vals[1] = c.catalog /\ vals[2] = c.schema /\ vals[3] = c.table /\ vals[4] = c.original_table
  /\ vals[5] = c.name /\ vals[6] = c.original_name /\ vals[7] = 12 % NullLeader /\ vals[8] = c.charset
  /\ vals[9] = c.len /\ vals[10] = c.type /\ vals[11] = c.flags /\ vals[12] = c.decimals
  /\ vals[13] = Number(<<0, 0>>) /\ vals[14] = c.default_value

LEMMA ColumnSegsAt ==
  ASSUME NEW c
  PROVE  SegsAt(ColumnSegs(c), c) /\ ValsAt(ColumnVals(c), c)
<1>1. PICK t1, t2, t3, t4, t5, t6, t7, t8, t9, t10, t11, t12, t13, t14 :
        /\ t1 = ServerText(c.catalog) /\ t2 = ServerText(c.schema) /\ t3 = ServerText(c.table)
        /\ t4 = ServerText(c.original_table) /\ t5 = ServerText(c.name) /\ t6 = ServerText(c.original_name)
        /\ t7 = ServerLenenc(12 % NullLeader) /\ t8 = Digits(c.charset, 2) /\ t9 = Digits(c.len, 4)
        /\ t10 = <<c.type>> /\ t11 = Digits(c.flags, 2) /\ t12 = <<c.decimals>>
        /\ t13 = <<0, 0>> /\ t14 = ServerText(c.default_value)
  OBVIOUS
<1>2. PICK q : q = <<t1, t2, t3, t4, t5, t6, t7, t8, t9, t10, t11, t12, t13, t14>>
  OBVIOUS
<1>3. q[1] = t1 /\ q[2] = t2 /\ q[3] = t3 /\ q[4] = t4 /\ q[5] = t5 /\ q[6] = t6 /\ q[7] = t7
      /\ q[8] = t8 /\ q[9] = t9 /\ q[10] = t10 /\ q[11] = t11 /\ q[12] = t12 /\ q[13] = t13 /\ q[14] = t14
  BY <1>2
<1>4. q = ColumnSegs(c)
  BY <1>1, <1>2 DEF ColumnSegs
<1>5. PICK v1, v2, v3, v4, v5, v6, v7, v8, v9, v10, v11, v12, v13, v14 :
        /\ v1 = c.catalog /\ v2 = c.schema /\ v3 = c.table /\ v4 = c.original_table
        /\ v5 = c.name /\ v6 = c.original_name /\ v7 = 12 % NullLeader /\ v8 = c.charset
        /\ v9 = c.len /\ v10 = c.type /\ v11 = c.flags /\ v12 = c.decimals
        /\ v13 = Number(<<0, 0>>) /\ v14 = c.default_value
  OBVIOUS
<1>6. PICK y : y = <<v1, v2, v3, v4, v5, v6, v7, v8, v9, v10, v11, v12, v13, v14>>
  OBVIOUS
<1>7. y[1] = v1 /\ y[2] = v2 /\ y[3] = v3 /\ y[4] = v4 /\ y[5] = v5 /\ y[6] = v6 /\ y[7] = v7
      /\ y[8] = v8 /\ y[9] = v9 /\ y[10] = v10 /\ y[11] = v11 /\ y[12] = v12 /\ y[13] = v13 /\ y[14] = v14
  BY <1>6
<1>8. y = ColumnVals(c)
  BY <1>5, <1>6 DEF ColumnVals
<1>9. SegsAt(q, c)
  BY <1>1, <1>3 DEF SegsAt
<1>10. ValsAt(y, c)
  BY <1>5, <1>7 DEF ValsAt
<1>11. QED BY <1>4, <1>8, <1>9, <1>10

CallsAt(calls, field_list) ==
  /\ Len(calls) = IF field_list THEN 14 ELSE 13
  /\ calls[1] = LenencBuffer("catalog") /\ calls[2] = LenencBuffer("schema") /\ calls[3] = LenencBuffer("table")
  /\ calls[4] = LenencBuffer("original_table") /\ calls[5] = LenencBuffer("name") /\ calls[6] = LenencBuffer("original_name")
  /\ calls[7] = Lenenc("skip") /\ calls[8] = UInt(2, "charset") /\ calls[9] = UInt(4, "len")
  /\ calls[10] = UInt(1, "type") /\ calls[11] = UInt(2, "flags") /\ calls[12] = UInt(1, "decimals")
  /\ calls[13] = UInt(2, "skip")
  /\ field_list => calls[14] = LenencBuffer("default_value")

LEMMA ColumnCallsAt ==
  ASSUME NEW field_list
  PROVE  CallsAt(ColumnCalls(field_list), field_list)
<1>1. PICK c1, c2, c3, c4, c5, c6, c7, c8, c9, c10, c11, c12, c13, c14 :
        /\ c1 = LenencBuffer("catalog") /\ c2 = LenencBuffer("schema") /\ c3 = LenencBuffer("table")
        /\ c4 = LenencBuffer("original_table") /\ c5 = LenencBuffer("name") /\ c6 = LenencBuffer("original_name")
        /\ c7 = Lenenc("skip") /\ c8 = UInt(2, "charset") /\ c9 = UInt(4, "len")
        /\ c10 = UInt(1, "type") /\ c11 = UInt(2, "flags") /\ c12 = UInt(1, "decimals")
        /\ c13 = UInt(2, "skip") /\ c14 = LenencBuffer("default_value")
  OBVIOUS
<1>2. PICK a, b, d : a = <<c1, c2, c3, c4, c5, c6>> /\ b = <<c7, c8, c9, c10, c11, c12, c13>> /\ d = <<c14>>
  OBVIOUS
<1>3. PICK q : q = a \o b
  OBVIOUS
<1>4. Len(q) = 13 /\ q[1] = c1 /\ q[2] = c2 /\ q[3] = c3 /\ q[4] = c4 /\ q[5] = c5 /\ q[6] = c6
      /\ q[7] = c7 /\ q[8] = c8 /\ q[9] = c9 /\ q[10] = c10 /\ q[11] = c11 /\ q[12] = c12 /\ q[13] = c13
  BY <1>2, <1>3
<1>5. CASE field_list
  <2>1. PICK y : y = q \o d
    OBVIOUS
  <2>2. Len(y) = 14 /\ y[1] = c1 /\ y[2] = c2 /\ y[3] = c3 /\ y[4] = c4 /\ y[5] = c5 /\ y[6] = c6
        /\ y[7] = c7 /\ y[8] = c8 /\ y[9] = c9 /\ y[10] = c10 /\ y[11] = c11 /\ y[12] = c12 /\ y[13] = c13 /\ y[14] = c14
    BY <1>2, <1>3, <2>1
  <2>3. y = ColumnCalls(field_list)
    BY <1>1, <1>2, <1>3, <1>5, <2>1 DEF ColumnCalls
  <2>4. CallsAt(y, field_list)
    BY <1>1, <1>5, <2>2 DEF CallsAt
  <2>5. QED BY <2>3, <2>4
<1>6. CASE ~field_list
  <2>1. q \o <<>> = q
    BY <1>2, <1>3
  <2>2. ColumnCalls(field_list) = q
    BY <1>1, <1>2, <1>3, <1>6, <2>1 DEF ColumnCalls
  <2>3. CallsAt(q, field_list)
    BY <1>1, <1>4, <1>6 DEF CallsAt
  <2>4. QED BY <2>2, <2>3
<1>7. QED BY <1>5, <1>6

LEMMA ColumnBuilt ==
  ASSUME NEW c, NEW field_list, NEW segs, segs = ColumnSegs(c), NEW a, NEW n, n = IF field_list THEN 14 ELSE 13,
         BuiltUp(a, segs, n), Bytes(a[13])
  PROVE  ServerColumn(c, field_list) = a[n]
<1>1. PICK t1, t2, t3, t4, t5, t6, t7, t8, t9, t10, t11, t12, t13, t14 :
        /\ t1 = ServerText(c.catalog) /\ t2 = ServerText(c.schema) /\ t3 = ServerText(c.table)
        /\ t4 = ServerText(c.original_table) /\ t5 = ServerText(c.name) /\ t6 = ServerText(c.original_name)
        /\ t7 = ServerLenenc(12 % NullLeader) /\ t8 = Digits(c.charset, 2) /\ t9 = Digits(c.len, 4)
        /\ t10 = <<c.type>> /\ t11 = Digits(c.flags, 2) /\ t12 = <<c.decimals>>
        /\ t13 = <<0, 0>> /\ t14 = ServerText(c.default_value)
  OBVIOUS
<1>2. segs[1] = t1 /\ segs[2] = t2 /\ segs[3] = t3 /\ segs[4] = t4 /\ segs[5] = t5 /\ segs[6] = t6 /\ segs[7] = t7
      /\ segs[8] = t8 /\ segs[9] = t9 /\ segs[10] = t10 /\ segs[11] = t11 /\ segs[12] = t12 /\ segs[13] = t13 /\ segs[14] = t14
  BY <1>1, ColumnSegsAt DEF SegsAt
<1>3. n >= 2 /\ n >= 3 /\ n >= 4 /\ n >= 5 /\ n >= 6 /\ n >= 7 /\ n >= 8 /\ n >= 9 /\ n >= 10 /\ n >= 11 /\ n >= 12 /\ n >= 13
      /\ (field_list => n = 14 /\ n >= 14) /\ (~field_list => n = 13)
  OBVIOUS
<1>4. /\ a[1] = t1 /\ a[2] = a[1] \o t2 /\ a[3] = a[2] \o t3 /\ a[4] = a[3] \o t4 /\ a[5] = a[4] \o t5
      /\ a[6] = a[5] \o t6 /\ a[7] = a[6] \o t7 /\ a[8] = a[7] \o t8 /\ a[9] = a[8] \o t9 /\ a[10] = a[9] \o t10
      /\ a[11] = a[10] \o t11 /\ a[12] = a[11] \o t12 /\ a[13] = a[12] \o t13 /\ (field_list => a[14] = a[13] \o t14)
  BY <1>2, <1>3 DEF BuiltUp
<1>5. a[13] = t1 \o t2 \o t3 \o t4 \o t5 \o t6 \o t7 \o t8 \o t9 \o t10 \o t11 \o t12 \o t13
  BY <1>4
<1>6. PICK u : u = t1 \o t2 \o t3 \o t4 \o t5 \o t6 \o t7 \o t8 \o t9 \o t10 \o t11 \o t12 \o t13 /\ u = a[13]
  BY <1>5
<1>7. ServerColumn(c, field_list) = u \o (IF field_list THEN t14 ELSE <<>>)
  BY <1>1, <1>6 DEF ServerColumn
<1>8. CASE field_list
  <2>1. a[n] = u \o t14
    BY <1>3, <1>4, <1>6, <1>8
  <2>2. QED BY <1>7, <1>8, <2>1
<1>9. CASE ~field_list
  <2>1. u \o <<>> = u
    BY <1>6 DEF Bytes
  <2>2. QED BY <1>3, <1>6, <1>7, <1>9, <2>1
<1>10. QED BY <1>8, <1>9

LEMMA ColumnPieces ==
  ASSUME NEW c, NEW field_list, ColumnMeant(c, field_list), NEW n \in {13, 14}, n = IF field_list THEN 14 ELSE 13,
         NEW segs, segs = ColumnSegs(c), NEW vals, vals = ColumnVals(c), NEW calls, calls = ColumnCalls(field_list)
  PROVE  (\A i \in 1..n : Bytes(segs[i])) /\ CarriedBy(calls, segs, vals, n)
<1>1. \A i \in 1..n : \/ i = 1 \/ i = 2 \/ i = 3 \/ i = 4 \/ i = 5 \/ i = 6 \/ i = 7 \/ i = 8 \/ i = 9 \/ i = 10 \/ i = 11
                      \/ i = 12 \/ i = 13 \/ (i = 14 /\ field_list)
  OBVIOUS
<1> DEFINE Right(i) == Bytes(segs[i]) /\ \A z : Carries(calls[i], segs[i], vals[i], z)
<1>2. ASSUME NEW x, Texted(x) PROVE Bytes(ServerText(x)) /\ \A field, z : Carries(LenencBuffer(field), ServerText(x), x, z)
  BY <1>2, TextCarried DEF Texted, Bytes
<1>3. PICK t1, t2, t3, t4, t5, t6, t7, t8, t9, t10, t11, t12, t13, t14 :
        /\ t1 = ServerText(c.catalog) /\ t2 = ServerText(c.schema) /\ t3 = ServerText(c.table)
        /\ t4 = ServerText(c.original_table) /\ t5 = ServerText(c.name) /\ t6 = ServerText(c.original_name)
        /\ t7 = ServerLenenc(12 % NullLeader) /\ t8 = Digits(c.charset, 2) /\ t9 = Digits(c.len, 4)
        /\ t10 = <<c.type>> /\ t11 = Digits(c.flags, 2) /\ t12 = <<c.decimals>>
        /\ t13 = <<0, 0>> /\ t14 = ServerText(c.default_value)
  OBVIOUS
<1>4. segs[1] = t1 /\ segs[2] = t2 /\ segs[3] = t3 /\ segs[4] = t4 /\ segs[5] = t5 /\ segs[6] = t6 /\ segs[7] = t7
      /\ segs[8] = t8 /\ segs[9] = t9 /\ segs[10] = t10 /\ segs[11] = t11 /\ segs[12] = t12 /\ segs[13] = t13 /\ segs[14] = t14
  BY <1>3, ColumnSegsAt DEF SegsAt
<1>5. Right(1)
  <2>1. Texted(c.catalog)
    BY DEF ColumnMeant
  <2>2. Bytes(t1) /\ \A field, z : Carries(LenencBuffer(field), t1, c.catalog, z)
    BY <1>2, <1>3, <2>1
  <2>3. vals[1] = c.catalog /\ calls[1] = LenencBuffer("catalog")
    BY ColumnSegsAt, ColumnCallsAt DEF ValsAt, CallsAt
  <2>4. QED BY <1>4, <2>2, <2>3
<1>6. Right(2)
  <2>1. Texted(c.schema)
    BY DEF ColumnMeant
  <2>2. Bytes(t2) /\ \A field, z : Carries(LenencBuffer(field), t2, c.schema, z)
    BY <1>2, <1>3, <2>1
  <2>3. vals[2] = c.schema /\ calls[2] = LenencBuffer("schema")
    BY ColumnSegsAt, ColumnCallsAt DEF ValsAt, CallsAt
  <2>4. QED BY <1>4, <2>2, <2>3
<1>7. Right(3)
  <2>1. Texted(c.table)
    BY DEF ColumnMeant
  <2>2. Bytes(t3) /\ \A field, z : Carries(LenencBuffer(field), t3, c.table, z)
    BY <1>2, <1>3, <2>1
  <2>3. vals[3] = c.table /\ calls[3] = LenencBuffer("table")
    BY ColumnSegsAt, ColumnCallsAt DEF ValsAt, CallsAt
  <2>4. QED BY <1>4, <2>2, <2>3
<1>8. Right(4)
  <2>1. Texted(c.original_table)
    BY DEF ColumnMeant
  <2>2. Bytes(t4) /\ \A field, z : Carries(LenencBuffer(field), t4, c.original_table, z)
    BY <1>2, <1>3, <2>1
  <2>3. vals[4] = c.original_table /\ calls[4] = LenencBuffer("original_table")
    BY ColumnSegsAt, ColumnCallsAt DEF ValsAt, CallsAt
  <2>4. QED BY <1>4, <2>2, <2>3
<1>9. Right(5)
  <2>1. Texted(c.name)
    BY DEF ColumnMeant
  <2>2. Bytes(t5) /\ \A field, z : Carries(LenencBuffer(field), t5, c.name, z)
    BY <1>2, <1>3, <2>1
  <2>3. vals[5] = c.name /\ calls[5] = LenencBuffer("name")
    BY ColumnSegsAt, ColumnCallsAt DEF ValsAt, CallsAt
  <2>4. QED BY <1>4, <2>2, <2>3
<1>10. Right(6)
  <2>1. Texted(c.original_name)
    BY DEF ColumnMeant
  <2>2. Bytes(t6) /\ \A field, z : Carries(LenencBuffer(field), t6, c.original_name, z)
    BY <1>2, <1>3, <2>1
  <2>3. vals[6] = c.original_name /\ calls[6] = LenencBuffer("original_name")
    BY ColumnSegsAt, ColumnCallsAt DEF ValsAt, CallsAt
  <2>4. QED BY <1>4, <2>2, <2>3
<1>11. Right(7)
  <2>1. PICK m \in Nat : m = 12 % NullLeader /\ m < NullLeader
    BY RadixFacts DEF NullLeader
  <2>2. m <= Radix + 5
    BY <2>1, RadixFacts DEF NullLeader
  <2>3. m \in Sizes
    BY <2>2, SmallSizes
  <2>4. Bytes(t7) /\ \A field, z : Carries(Lenenc(field), t7, m, z)
    BY <1>3, <2>1, <2>3, LenencCarried DEF Bytes
  <2>5. vals[7] = m /\ calls[7] = Lenenc("skip")
    BY <2>1, ColumnSegsAt, ColumnCallsAt DEF ValsAt, CallsAt
  <2>6. QED BY <1>4, <2>4, <2>5
<1>12. Right(8)
  <2>1. c.charset \in Word
    BY DEF ColumnMeant
  <2>2. Bytes(t8) /\ \A field, z : Carries(UInt(2, field), t8, c.charset, z)
    BY <1>3, <2>1, WordCarried
  <2>3. vals[8] = c.charset /\ calls[8] = UInt(2, "charset")
    BY ColumnSegsAt, ColumnCallsAt DEF ValsAt, CallsAt
  <2>4. QED BY <1>4, <2>2, <2>3
<1>13. Right(9)
  <2>1. PICK width \in Nat \ {0} : width = 4
    OBVIOUS
  <2>2. PICK m \in Nat : m = c.len /\ Fits(m, width) /\ Small(m)
    BY <2>1 DEF ColumnMeant
  <2>3. Digits(m, width) \in Seq(Nat) /\ \A field, z : Carries(UInt(width, field), Digits(m, width), m, z)
    BY <2>2, NumberCarried
  <2>4. Bytes(t9) /\ \A field, z : Carries(UInt(4, field), t9, c.len, z)
    BY <1>3, <2>1, <2>2, <2>3 DEF Bytes
  <2>5. vals[9] = c.len /\ calls[9] = UInt(4, "len")
    BY ColumnSegsAt, ColumnCallsAt DEF ValsAt, CallsAt
  <2>6. QED BY <1>4, <2>4, <2>5
<1>14. Right(10)
  <2>1. c.type \in Nat
    BY DEF ColumnMeant
  <2>2. Bytes(t10) /\ \A field, z : Carries(UInt(1, field), t10, c.type, z)
    BY <1>3, <2>1, ByteCarried DEF Bytes
  <2>3. vals[10] = c.type /\ calls[10] = UInt(1, "type")
    BY ColumnSegsAt, ColumnCallsAt DEF ValsAt, CallsAt
  <2>4. QED BY <1>4, <2>2, <2>3
<1>15. Right(11)
  <2>1. c.flags \in Word
    BY DEF ColumnMeant
  <2>2. Bytes(t11) /\ \A field, z : Carries(UInt(2, field), t11, c.flags, z)
    BY <1>3, <2>1, WordCarried
  <2>3. vals[11] = c.flags /\ calls[11] = UInt(2, "flags")
    BY ColumnSegsAt, ColumnCallsAt DEF ValsAt, CallsAt
  <2>4. QED BY <1>4, <2>2, <2>3
<1>16. Right(12)
  <2>1. c.decimals \in Nat
    BY DEF ColumnMeant
  <2>2. Bytes(t12) /\ \A field, z : Carries(UInt(1, field), t12, c.decimals, z)
    BY <1>3, <2>1, ByteCarried DEF Bytes
  <2>3. vals[12] = c.decimals /\ calls[12] = UInt(1, "decimals")
    BY ColumnSegsAt, ColumnCallsAt DEF ValsAt, CallsAt
  <2>4. QED BY <1>4, <2>2, <2>3
<1>17. Right(13)
  <2>1. Bytes(t13) /\ Len(t13) = 2
    BY <1>3 DEF Bytes
  <2>2. vals[13] = Number(t13) /\ calls[13] = UInt(2, "skip")
    BY <1>3, ColumnSegsAt, ColumnCallsAt DEF ValsAt, CallsAt
  <2>3. \A z : Carries(UInt(2, "skip"), t13, Number(t13), z)
    BY <2>1 DEF Carries, UInt
  <2>4. QED BY <1>4, <2>1, <2>2, <2>3
<1>18. field_list => Right(14)
  <2> SUFFICES ASSUME field_list PROVE Right(14)
    OBVIOUS
  <2>1. Texted(c.default_value)
    BY DEF ColumnMeant
  <2>2. Bytes(t14) /\ \A field, z : Carries(LenencBuffer(field), t14, c.default_value, z)
    BY <1>2, <1>3, <2>1
  <2>3. vals[14] = c.default_value /\ calls[14] = LenencBuffer("default_value")
    BY ColumnSegsAt, ColumnCallsAt DEF ValsAt, CallsAt
  <2>4. QED BY <1>4, <2>2, <2>3
<1> HIDE DEF Right
<1>19. \A i \in 1..n : Right(i)
  BY <1>1, <1>5, <1>6, <1>7, <1>8, <1>9, <1>10, <1>11, <1>12, <1>13, <1>14, <1>15, <1>16, <1>17, <1>18
<1>20. QED BY <1>19 DEF Right, CarriedBy

(* The client reads the definition of a column as the server meant it, with  *)
(* its default value if it asked for a list of fields.                       *)
THEOREM ColumnReadsBack ==
  ASSUME NEW c, NEW field_list, ColumnMeant(c, field_list)
  PROVE  LET buff == ServerColumn(c, field_list)
             r == ParseColumn(buff, field_list)
         IN /\ buff \in Seq(Nat) /\ r.rc = "OK"
            /\ \A f \in {"catalog", "schema", "table", "original_table", "name", "original_name", "charset", "len", "type",
                        "flags", "decimals", "default_value"} : r.out[f] = c[f]
<1> DEFINE before == [default_value |-> <<>>]
<1>1. PICK n \in {13, 14} : n = IF field_list THEN 14 ELSE 13
  OBVIOUS
<1>2. n \in Nat \ {0} /\ (n = 13 <=> ~field_list)
  BY <1>1
<1>3. PICK segs, vals, calls : segs = ColumnSegs(c) /\ vals = ColumnVals(c) /\ calls = ColumnCalls(field_list)
  OBVIOUS
<1>4. (\A i \in 1..n : Bytes(segs[i])) /\ CarriedBy(calls, segs, vals, n)
  BY <1>1, <1>3, ColumnPieces
<1>5. PICK a : Laid(a, segs, n)
  BY <1>2, <1>4, LaidExists
<1>6. ServerColumn(c, field_list) = a[n]
  <2>1. BuiltUp(a, segs, n)
    BY <1>2, <1>5, LaidSteps
  <2>2. Bytes(a[13])
    <3>1. PICK m \in Nat \ {0} : m = 13 /\ m <= n
      BY <1>2
    <3>2. Laid(a, segs, m)
      <4>1. \A i \in 1..m : i \in 1..n
        BY <1>2, <3>1
      <4>2. \A i \in 2..m : i \in 2..n
        BY <1>2, <3>1
      <4>3. QED BY <1>5, <4>1, <4>2 DEF Laid
    <3>3. PICK g : Leaves(g, a, segs, m)
      BY <3>2, Strung
    <3>4. g[0] = a[m] /\ g \in [0..m -> Seq(Nat)] /\ 0 \in 0..m
      BY <3>3 DEF Leaves
    <3>5. a[m] \in Seq(Nat)
      BY <3>4
    <3>6. QED BY <3>1, <3>5 DEF Bytes
  <2>3. QED BY <1>1, <1>3, <2>1, <2>2, ColumnBuilt
<1>7. Len(calls) = n
  BY <1>1, <1>3, ColumnCallsAt DEF CallsAt
<1>8. PICK buff : buff = ServerColumn(c, field_list)
  OBVIOUS
<1>9. PICK s : s = Fields(Open(buff, before), calls)
  OBVIOUS
<1>10. buff \in Seq(Nat) /\ Finish(s) = s /\ s.rc = "OK" /\ Filled(before, s.out, calls, vals, n)
  <2> HIDE DEF before
  <2>1. buff = a[n]
    BY <1>6, <1>8
  <2>2. QED BY <1>2, <1>4, <1>5, <1>7, <1>9, <2>1, PacketReads
<1>11. ParseColumn(buff, field_list) = s
  <2>1. ParseColumn(buff, field_list) = Finish(s)
    BY <1>3, <1>9 DEF ParseColumn, ColumnCalls
  <2>2. QED BY <1>10, <2>1
<1>12.
      /\ calls[1].field = "catalog" /\ calls[2].field = "schema" /\ calls[3].field = "table" /\ calls[4].field = "original_table"
      /\ calls[5].field = "name" /\ calls[6].field = "original_name" /\ calls[7].field = "skip" /\ calls[8].field = "charset"
      /\ calls[9].field = "len" /\ calls[10].field = "type" /\ calls[11].field = "flags" /\ calls[12].field = "decimals"
      /\ calls[13].field = "skip"
      /\ (n = 14 => calls[14].field = "default_value")
  BY <1>2, <1>3, ColumnCallsAt DEF CallsAt, UInt, Lenenc, LenencBuffer
<1>13.
      /\ vals[1] = c.catalog /\ vals[2] = c.schema /\ vals[3] = c.table /\ vals[4] = c.original_table /\ vals[5] = c.name
      /\ vals[6] = c.original_name /\ vals[8] = c.charset /\ vals[9] = c.len /\ vals[10] = c.type /\ vals[11] = c.flags
      /\ vals[12] = c.decimals /\ vals[14] = c.default_value
  BY <1>3, ColumnSegsAt DEF ValsAt
<1>14. \A j \in 1..n : \/ j = 1 \/ j = 2 \/ j = 3 \/ j = 4 \/ j = 5 \/ j = 6 \/ j = 7 \/ j = 8 \/ j = 9 \/ j = 10 \/ j = 11
                       \/ j = 12 \/ j = 13 \/ (j = 14 /\ n = 14)
  BY <1>2
<1>15. Has(s.out, "catalog", c.catalog)
  <2>1. 1 \in 1..n /\ \A j \in 1..n : j # 1 => calls[j].field # "catalog"
    BY <1>1, <1>12, <1>14
  <2>2. Has(s.out, calls[1].field, vals[1])
    BY <1>2, <1>10, <1>12, <2>1, FilledAt
  <2>3. QED BY <1>12, <1>13, <2>2
<1>16. Has(s.out, "schema", c.schema)
  <2>1. 2 \in 1..n /\ \A j \in 1..n : j # 2 => calls[j].field # "schema"
    BY <1>1, <1>12, <1>14
  <2>2. Has(s.out, calls[2].field, vals[2])
    BY <1>2, <1>10, <1>12, <2>1, FilledAt
  <2>3. QED BY <1>12, <1>13, <2>2
<1>17. Has(s.out, "table", c.table)
  <2>1. 3 \in 1..n /\ \A j \in 1..n : j # 3 => calls[j].field # "table"
    BY <1>1, <1>12, <1>14
  <2>2. Has(s.out, calls[3].field, vals[3])
    BY <1>2, <1>10, <1>12, <2>1, FilledAt
  <2>3. QED BY <1>12, <1>13, <2>2
<1>18. Has(s.out, "original_table", c.original_table)
  <2>1. 4 \in 1..n /\ \A j \in 1..n : j # 4 => calls[j].field # "original_table"
    BY <1>1, <1>12, <1>14
  <2>2. Has(s.out, calls[4].field, vals[4])
    BY <1>2, <1>10, <1>12, <2>1, FilledAt
  <2>3. QED BY <1>12, <1>13, <2>2
<1>19. Has(s.out, "name", c.name)
  <2>1. 5 \in 1..n /\ \A j \in 1..n : j # 5 => calls[j].field # "name"
    BY <1>1, <1>12, <1>14
  <2>2. Has(s.out, calls[5].field, vals[5])
    BY <1>2, <1>10, <1>12, <2>1, FilledAt
  <2>3. QED BY <1>12, <1>13, <2>2
<1>20. Has(s.out, "original_name", c.original_name)
  <2>1. 6 \in 1..n /\ \A j \in 1..n : j # 6 => calls[j].field # "original_name"
    BY <1>1, <1>12, <1>14
  <2>2. Has(s.out, calls[6].field, vals[6])
    BY <1>2, <1>10, <1>12, <2>1, FilledAt
  <2>3. QED BY <1>12, <1>13, <2>2
<1>21. Has(s.out, "charset", c.charset)
  <2>1. 8 \in 1..n /\ \A j \in 1..n : j # 8 => calls[j].field # "charset"
    BY <1>1, <1>12, <1>14
  <2>2. Has(s.out, calls[8].field, vals[8])
    BY <1>2, <1>10, <1>12, <2>1, FilledAt
  <2>3. QED BY <1>12, <1>13, <2>2
<1>22. Has(s.out, "len", c.len)
  <2>1. 9 \in 1..n /\ \A j \in 1..n : j # 9 => calls[j].field # "len"
    BY <1>1, <1>12, <1>14
  <2>2. Has(s.out, calls[9].field, vals[9])
    BY <1>2, <1>10, <1>12, <2>1, FilledAt
  <2>3. QED BY <1>12, <1>13, <2>2
<1>23. Has(s.out, "type", c.type)
  <2>1. 10 \in 1..n /\ \A j \in 1..n : j # 10 => calls[j].field # "type"
    BY <1>1, <1>12, <1>14
  <2>2. Has(s.out, calls[10].field, vals[10])
    BY <1>2, <1>10, <1>12, <2>1, FilledAt
  <2>3. QED BY <1>12, <1>13, <2>2
<1>24. Has(s.out, "flags", c.flags)
  <2>1. 11 \in 1..n /\ \A j \in 1..n : j # 11 => calls[j].field # "flags"
    BY <1>1, <1>12, <1>14
  <2>2. Has(s.out, calls[11].field, vals[11])
    BY <1>2, <1>10, <1>12, <2>1, FilledAt
  <2>3. QED BY <1>12, <1>13, <2>2
<1>25. Has(s.out, "decimals", c.decimals)
  <2>1. 12 \in 1..n /\ \A j \in 1..n : j # 12 => calls[j].field # "decimals"
    BY <1>1, <1>12, <1>14
  <2>2. Has(s.out, calls[12].field, vals[12])
    BY <1>2, <1>10, <1>12, <2>1, FilledAt
  <2>3. QED BY <1>12, <1>13, <2>2
<1>26. Has(s.out, "default_value", c.default_value)
  <2>1. CASE field_list
    <3>1. n = 14 /\ 14 \in 1..n /\ \A j \in 1..n : j # 14 => calls[j].field # "default_value"
      BY <1>1, <1>12, <1>14, <2>1
    <3>2. Has(s.out, calls[14].field, vals[14])
      BY <1>2, <1>10, <1>12, <3>1, FilledAt
    <3>3. QED BY <1>12, <1>13, <3>1, <3>2
  <2>2. CASE ~field_list
    <3>1. PICK none : none = <<>>
      OBVIOUS
    <3>2. Has(before, "default_value", none)
      BY <3>1 DEF Has
    <3>3. \A i \in 1..n : calls[i].field # "default_value"
      BY <1>1, <1>2, <1>12, <1>14, <2>2
    <3>4. Has(s.out, "default_value", none)
      BY <1>10, <3>2, <3>3 DEF Filled
    <3>5. QED BY <2>2, <3>1, <3>4 DEF ColumnMeant
  <2>3. QED BY <2>1, <2>2
<1>27. QED BY <1>8, <1>10, <1>11, <1>15, <1>16, <1>17, <1>18, <1>19, <1>20, <1>21, <1>22, <1>23, <1>24, <1>25, <1>26 DEF Has

-----------------------------------------------------------------------------
(* What is left at each call, by name.                                       *)

Carried(c, seg, v) == Bytes(seg) /\ \A z : Carries(c, seg, v, z)

LEMMA Stepped ==
  ASSUME NEW r, NEW c, NEW seg, NEW rest, NEW v, Bytes(rest), Carried(c, seg, v), Ready(r, seg \o rest),
         c.field # "skip"
  PROVE  Ready(Read(r, c), rest) /\ Read(r, c).out = Put(r.out, c.field, v)
<1>1. PICK x, y \in Seq(Nat) : x = seg /\ y = rest
  BY DEF Bytes, Carried
<1>2. Carries(c, x, v, y) /\ Ready(r, x \o y)
  BY <1>1 DEF Carried
<1>3. QED BY <1>1, <1>2, ReadReady

LEMMA SkipStepped ==
  ASSUME NEW r, NEW c, NEW seg, NEW rest, NEW v, Bytes(rest), Carried(c, seg, v), Ready(r, seg \o rest),
         c.field = "skip"
  PROVE  Ready(Read(r, c), rest) /\ Read(r, c).out = r.out
<1>1. PICK x, y \in Seq(Nat) : x = seg /\ y = rest
  BY DEF Bytes, Carried
<1>2. Carries(c, x, v, y) /\ Ready(r, x \o y)
  BY <1>1 DEF Carried
<1>3. QED BY <1>1, <1>2, ReadReady

SixRests(x, s1, s2, s3, s4, s5, s6, h1, h2, h3, h4, h5, h6) ==
  /\ Bytes(h1) /\ Bytes(h2) /\ Bytes(h3) /\ Bytes(h4) /\ Bytes(h5) /\ Bytes(h6) /\ Len(h6) = 0
  /\ x = s1 \o h1 /\ h1 = s2 \o h2 /\ h2 = s3 \o h3 /\ h3 = s4 \o h4 /\ h4 = s5 \o h5 /\ h5 = s6 \o h6

LEMMA RestsSix ==
  ASSUME NEW s1, NEW s2, NEW s3, NEW s4, NEW s5, NEW s6,
         Bytes(s1), Bytes(s2), Bytes(s3), Bytes(s4), Bytes(s5), Bytes(s6)
  PROVE  \E h1, h2, h3, h4, h5, h6 :
           SixRests(s1 \o s2 \o s3 \o s4 \o s5 \o s6, s1, s2, s3, s4, s5, s6, h1, h2, h3, h4, h5, h6)
<1>1. PICK segs : segs[1] = s1 /\ segs[2] = s2 /\ segs[3] = s3 /\ segs[4] = s4 /\ segs[5] = s5 /\ segs[6] = s6
  <2> DEFINE q == <<s1, s2, s3, s4, s5, s6>>
  <2>1. q[1] = s1 /\ q[2] = s2 /\ q[3] = s3 /\ q[4] = s4 /\ q[5] = s5 /\ q[6] = s6
    OBVIOUS
  <2>2. QED BY <2>1
<1>2. PICK n \in Nat \ {0} : n = 6
  OBVIOUS
<1>3. \A i \in 1..n : i = 1 \/ i = 2 \/ i = 3 \/ i = 4 \/ i = 5 \/ i = 6
  BY <1>2
<1>4. \A i \in 1..n : Bytes(segs[i])
  BY <1>1, <1>3
<1>5. PICK a : Laid(a, segs, n)
  BY <1>4, LaidExists
<1>6. a[6] = s1 \o s2 \o s3 \o s4 \o s5 \o s6
  <2>1. BuiltUp(a, segs, n) /\ n >= 2 /\ n >= 3 /\ n >= 4 /\ n >= 5 /\ n >= 6
    BY <1>2, <1>5, LaidSteps
  <2>2. /\ a[1] = s1 /\ a[2] = a[1] \o s2 /\ a[3] = a[2] \o s3 /\ a[4] = a[3] \o s4 /\ a[5] = a[4] \o s5
        /\ a[6] = a[5] \o s6
    BY <1>1, <2>1 DEF BuiltUp
  <2>3. QED BY <2>2
<1>7. PICK g : Leaves(g, a, segs, n)
  BY <1>5, Strung
<1>8. \A i \in 0..6 : Bytes(g[i])
  BY <1>2, <1>7 DEF Leaves, Bytes
<1>9. Bytes(g[0]) /\ Bytes(g[1]) /\ Bytes(g[2]) /\ Bytes(g[3]) /\ Bytes(g[4]) /\ Bytes(g[5]) /\ Bytes(g[6])
  BY <1>8
<1>10. \A i \in 1..6 : g[i - 1] = segs[i] \o g[i]
  BY <1>2, <1>7 DEF Leaves
<1>11. /\ 1 - 1 = 0 /\ 2 - 1 = 1 /\ 3 - 1 = 2 /\ 4 - 1 = 3 /\ 5 - 1 = 4 /\ 6 - 1 = 5
       /\ 1 \in 1..6 /\ 2 \in 1..6 /\ 3 \in 1..6 /\ 4 \in 1..6 /\ 5 \in 1..6 /\ 6 \in 1..6
  OBVIOUS
<1>12. /\ g[0] = s1 \o g[1] /\ g[1] = s2 \o g[2] /\ g[2] = s3 \o g[3] /\ g[3] = s4 \o g[4] /\ g[4] = s5 \o g[5]
       /\ g[5] = s6 \o g[6]
  BY <1>1, <1>10, <1>11
<1>13. g[0] = a[6] /\ Len(g[6]) = 0
  BY <1>2, <1>7 DEF Leaves
<1>14. SixRests(a[6], s1, s2, s3, s4, s5, s6, g[1], g[2], g[3], g[4], g[5], g[6])
  BY <1>9, <1>12, <1>13 DEF SixRests
<1>15. QED BY <1>6, <1>14

LEMMA FieldsFive ==
  ASSUME NEW r, NEW c1, NEW c2, NEW c3, NEW c4, NEW c5
  PROVE  Fields(r, <<c1, c2, c3, c4, c5>>) = Read(Read(Read(Read(Read(r, c1), c2), c3), c4), c5)
<1> DEFINE x == <<c1, c2, c3, c4, c5>>
<1>1. Len(x) = 5 /\ x[1] = c1 /\ x[2] = c2 /\ x[3] = c3 /\ x[4] = c4 /\ x[5] = c5
  OBVIOUS
<1> HIDE DEF x
<1>2. PICK f : f[0] = r /\ f[Len(x)] = Fields(r, x) /\ \A i \in 1..Len(x) : f[i] = Read(f[i - 1], x[i])
  <2>1. Len(x) \in Nat
    BY <1>1
  <2>2. QED BY <2>1, FieldsRuns
<1>3. f[1] = Read(r, c1) /\ f[2] = Read(f[1], c2) /\ f[3] = Read(f[2], c3) /\ f[4] = Read(f[3], c4) /\ f[5] = Read(f[4], c5)
  <2>1. /\ 1 \in 1..5 /\ 2 \in 1..5 /\ 3 \in 1..5 /\ 4 \in 1..5 /\ 5 \in 1..5
        /\ 1 - 1 = 0 /\ 2 - 1 = 1 /\ 3 - 1 = 2 /\ 4 - 1 = 3 /\ 5 - 1 = 4
    OBVIOUS
  <2>2. /\ f[1] = Read(f[1 - 1], x[1]) /\ f[2] = Read(f[2 - 1], x[2]) /\ f[3] = Read(f[3 - 1], x[3])
        /\ f[4] = Read(f[4 - 1], x[4]) /\ f[5] = Read(f[5 - 1], x[5])
    BY <1>1, <1>2, <2>1
  <2>3. QED BY <1>1, <1>2, <2>1, <2>2
<1>4. QED BY <1>1, <1>2, <1>3 DEF x

\* A number of four bytes, or of any width.
LEMMA WideCarried ==
  ASSUME NEW n \in Nat, Small(n), NEW width \in Nat \ {0}, Fits(n, width)
  PROVE  Bytes(Digits(n, width)) /\ \A field, z : Carries(UInt(width, field), Digits(n, width), n, z)
BY NumberCarried DEF Bytes

StmtMeant(s) ==
  /\ s.id \in Nat /\ Small(s.id) /\ Fits(s.id, 4)
  /\ s.column_count \in Word /\ s.parameter_count \in Word /\ s.warning_count \in Word

(* The client reads the answer to a prepare as the server meant it.          *)
THEOREM StmtOkReadsBack ==
  ASSUME NEW s, StmtMeant(s)
  PROVE  LET buff == ServerStmtOk(s)
             r == ParseStmtOk(buff)
         IN /\ buff \in Seq(Nat) /\ r.rc = "OK"
            /\ \A f \in {"id", "column_count", "parameter_count", "warning_count"} : r.out[f] = s[f]
<1>1. PICK s1, s2, s3, s4, s5, s6, zero :
        /\ s1 = <<zero>> /\ s2 = Digits(s.id, 4) /\ s3 = Digits(s.column_count, 2) /\ s4 = Digits(s.parameter_count, 2)
        /\ s5 = <<zero>> /\ s6 = Digits(s.warning_count, 2) /\ zero = 0
  OBVIOUS
<1>2. PICK c1, c2, c3, c4, c5, c6 :
        /\ c1 = UInt(1, "skip") /\ c2 = UInt(4, "id") /\ c3 = UInt(2, "column_count") /\ c4 = UInt(2, "parameter_count")
        /\ c5 = UInt(1, "filler") /\ c6 = UInt(2, "warning_count")
  OBVIOUS
<1>3. c1.field = "skip" /\ c2.field = "id" /\ c3.field = "column_count" /\ c4.field = "parameter_count"
      /\ c5.field = "filler" /\ c6.field = "warning_count"
  BY <1>2 DEF UInt
<1>4. Carried(c1, s1, zero) /\ Carried(c5, s5, zero)
  <2>1. zero \in Nat
    BY <1>1
  <2>2. QED BY <1>1, <1>2, <2>1, ByteCarried DEF Bytes, Carried
<1>5. Carried(c2, s2, s.id)
  <2>1. PICK width \in Nat \ {0} : width = 4
    OBVIOUS
  <2>2. PICK m \in Nat : m = s.id /\ Fits(m, width) /\ Small(m)
    BY <2>1 DEF StmtMeant
  <2>3. Bytes(Digits(m, width)) /\ \A field, z : Carries(UInt(width, field), Digits(m, width), m, z)
    BY <2>2, WideCarried
  <2>4. QED BY <1>1, <1>2, <2>1, <2>2, <2>3 DEF Carried
<1>6. Carried(c3, s3, s.column_count) /\ Carried(c4, s4, s.parameter_count) /\ Carried(c6, s6, s.warning_count)
  BY <1>1, <1>2, WordCarried DEF StmtMeant, Carried
<1>7. PICK buff : buff = s1 \o s2 \o s3 \o s4 \o s5 \o s6
  OBVIOUS
<1>8. buff = ServerStmtOk(s)
  BY <1>1, <1>7 DEF ServerStmtOk
<1>9. PICK h1, h2, h3, h4, h5, h6 : SixRests(buff, s1, s2, s3, s4, s5, s6, h1, h2, h3, h4, h5, h6)
  <2>1. Bytes(s1) /\ Bytes(s2) /\ Bytes(s3) /\ Bytes(s4) /\ Bytes(s5) /\ Bytes(s6)
    BY <1>4, <1>5, <1>6 DEF Carried
  <2>2. QED BY <1>7, <2>1, RestsSix
<1>10. /\ Bytes(h1) /\ Bytes(h2) /\ Bytes(h3) /\ Bytes(h4) /\ Bytes(h5) /\ Bytes(h6) /\ Len(h6) = 0
       /\ buff = s1 \o h1 /\ h1 = s2 \o h2 /\ h2 = s3 \o h3 /\ h3 = s4 \o h4 /\ h4 = s5 \o h5 /\ h5 = s6 \o h6
  BY <1>9 DEF SixRests
<1>11. Bytes(buff)
  BY <1>4, <1>10, Lengths DEF Carried, Bytes
<1>12. PICK r0 : r0 = Open(buff, <<>>)
  OBVIOUS
<1>13. Ready(r0, s1 \o h1)
  <2>1. PICK b \in Seq(Nat) : b = buff
    BY <1>11 DEF Bytes
  <2>2. Ready(Open(b, <<>>), b)
    BY OpenReady
  <2>3. QED BY <1>10, <1>12, <2>1, <2>2
<1>14. PICK r1 : r1 = Read(r0, c1) /\ Ready(r1, s2 \o h2)
  BY <1>3, <1>4, <1>10, <1>13, SkipStepped
<1>15. PICK r2 : r2 = Read(r1, c2) /\ Ready(r2, s3 \o h3) /\ Has(r2.out, "id", s.id)
  BY <1>3, <1>5, <1>10, <1>14, Stepped, PutHas
<1>16. PICK r3 : r3 = Read(r2, c3) /\ Ready(r3, s4 \o h4) /\ r3.out = Put(r2.out, "column_count", s.column_count)
  BY <1>3, <1>6, <1>10, <1>15, Stepped
<1>17. PICK r4 : r4 = Read(r3, c4) /\ Ready(r4, s5 \o h5) /\ r4.out = Put(r3.out, "parameter_count", s.parameter_count)
  BY <1>3, <1>6, <1>10, <1>16, Stepped
<1>18. PICK r5 : r5 = Read(r4, c5) /\ Ready(r5, s6 \o h6) /\ r5.out = Put(r4.out, "filler", zero)
  BY <1>3, <1>4, <1>10, <1>17, Stepped
<1>19. Has(r3.out, "id", s.id) /\ Has(r3.out, "column_count", s.column_count)
  BY <1>15, <1>16, PutHas
<1>20. /\ Has(r4.out, "id", s.id) /\ Has(r4.out, "column_count", s.column_count)
       /\ Has(r4.out, "parameter_count", s.parameter_count)
  BY <1>17, <1>19, PutHas
<1>21. /\ Has(r5.out, "id", s.id) /\ Has(r5.out, "column_count", s.column_count)
       /\ Has(r5.out, "parameter_count", s.parameter_count) /\ Has(r5.out, "filler", zero)
  BY <1>18, <1>20, PutHas
<1>22. PICK r6 : r6 = Read(r5, c6) /\ Ready(r6, h6) /\ r6.out = Put(r5.out, "warning_count", s.warning_count)
  <2>1. /\ Ready(r5, s6 \o h6) /\ Carried(c6, s6, s.warning_count) /\ Bytes(h6)
        /\ c6.field = "warning_count" /\ c6.field # "skip"
    BY <1>3, <1>6, <1>10, <1>18
  <2>2. Ready(Read(r5, c6), h6) /\ Read(r5, c6).out = Put(r5.out, c6.field, s.warning_count)
    BY <2>1, Stepped
  <2>3. QED BY <2>1, <2>2
<1>23. /\ Has(r6.out, "id", s.id) /\ Has(r6.out, "column_count", s.column_count)
       /\ Has(r6.out, "parameter_count", s.parameter_count) /\ Has(r6.out, "warning_count", s.warning_count)
  BY <1>21, <1>22, PutHas
<1>24. Fields(r0, <<c1, c2, c3, c4, c5>>) = r5
  BY <1>14, <1>15, <1>16, <1>17, <1>18, FieldsFive
<1>25. r5.out.filler = 0
  BY <1>1, <1>21 DEF Has
<1>26. ParseStmtOk(buff) = Finish(Read(r5, c6))
  BY <1>2, <1>12, <1>24, <1>25 DEF ParseStmtOk, Refuse
<1>27. Finish(r6) = r6
  BY <1>10, <1>22, FinishReady
<1>28. r6.rc = "OK"
  BY <1>22 DEF Ready
<1>29. QED BY <1>8, <1>11, <1>22, <1>23, <1>26, <1>27, <1>28 DEF Bytes, Has

-----------------------------------------------------------------------------
(* The head of a result, and a switch of the authentication method.          *)

LEMMA RestOfAll ==
  ASSUME NEW x, Bytes(x)
  PROVE  \E none : Bytes(none) /\ Len(none) = 0 /\ x = x \o none
<1>1. PICK y \in Seq(Nat) : y = x
  BY DEF Bytes
<1>2. <<>> \in Seq(Nat) /\ Len(<<>>) = 0 /\ y \o <<>> = y
  OBVIOUS
<1>3. QED BY <1>1, <1>2 DEF Bytes

(* The client reads the number of columns of a result as the server sent it. *)
THEOREM ResultReadsBack ==
  ASSUME NEW n \in Sizes
  PROVE  LET buff == ServerLenenc(n)
             r == ParseResult(buff)
         IN buff \in Seq(Nat) /\ r.rc = "OK" /\ r.out.column_count = n
<1>0. PICK c : c = Lenenc("column_count")
  OBVIOUS
<1>1. c = Lenenc("column_count") /\ c.field = "column_count" /\ c.field # "skip"
  BY <1>0 DEF Lenenc
<1>2. PICK buff : buff = ServerLenenc(n) /\ Carried(c, buff, n) /\ Bytes(buff)
  BY <1>1, LenencCarried DEF Carried, Bytes
<1>3. PICK none : Bytes(none) /\ Len(none) = 0 /\ buff = buff \o none
  BY <1>2, RestOfAll
<1>4. PICK r0 : r0 = Open(buff, <<>>) /\ Ready(r0, buff)
  <2>1. PICK b \in Seq(Nat) : b = buff
    BY <1>2 DEF Bytes
  <2>2. Ready(Open(b, <<>>), b)
    BY OpenReady
  <2>3. QED BY <2>1, <2>2
<1>5. Ready(r0, buff \o none)
  BY <1>3, <1>4
<1>6. PICK r1 : r1 = Read(r0, c) /\ Ready(r1, none) /\ r1.out = Put(r0.out, c.field, n)
  BY <1>1, <1>2, <1>3, <1>5, Stepped
<1>7. Has(r1.out, "column_count", n)
  BY <1>1, <1>6, PutHas
<1>8. Finish(r1) = r1
  BY <1>3, <1>6, FinishReady
<1>9. ParseResult(buff) = r1
  BY <1>1, <1>4, <1>6, <1>8 DEF ParseResult
<1>10. r1.rc = "OK"
  BY <1>6 DEF Ready
<1>11. QED BY <1>2, <1>7, <1>9, <1>10 DEF Bytes, Has

\* Some bytes read; a reader that has stopped stays as it is.
LEMMA Stays ==
  ASSUME NEW r, r.rc # "OK"
  PROVE  /\ \A c : Read(r, c) = r
         /\ Finish(r) = r
BY DEF Read, Finish

(* The client reads a switch of the authentication method as the server sent *)
(* it, its scramble cut to SCRAMBLE_LEN + 1 bytes; it refuses one that it    *)
(* has no capability for, and one with too long a name.                      *)
THEOREM AuthSwitchReadsBack ==
  ASSUME NEW caps, NEW s, s.plugin \in Seq(Nat \ {0}), s.scramble \in Seq(Nat)
  PROVE  LET buff == ServerAuthSwitch(s)
             r == ParseAuthSwitch(buff, caps)
         IN /\ buff \in Seq(Nat)
            /\ r.rc = IF "PLUGIN_AUTH" \notin caps THEN "PROTOCOL_VIOLATION"
                      ELSE IF Len(s.plugin) > PluginMax THEN "AUTH_PLUGIN_TOO_LONG" ELSE "OK"
            /\ r.rc = "OK" => r.out.auth_plugin = s.plugin /\ r.out.scramble = Truncated(s.scramble, ScrambleLen + 1)
<1>0. PICK c1, c2, c3 : c1 = UInt(1, "skip") /\ c2 = String("auth_plugin") /\ c3 = EofBuffer("scramble")
  OBVIOUS
<1>1. /\ c1 = UInt(1, "skip") /\ c2 = String("auth_plugin") /\ c3 = EofBuffer("scramble")
      /\ c1.field = "skip" /\ c2.field = "auth_plugin" /\ c3.field = "scramble"
  BY <1>0 DEF UInt, String, EofBuffer
<1>2. PICK zero \in Nat, eof \in Nat : zero = 0 /\ eof = PacketEof
  BY RadixFacts DEF PacketEof
<1>3. PICK s1, s2, s3, name :
        s1 = <<eof>> /\ name = s.plugin /\ s2 = name \o <<zero>> /\ s3 = s.scramble
  OBVIOUS
<1>4. Carried(c1, s1, eof)
  BY <1>1, <1>2, <1>3, ByteCarried DEF Carried, Bytes
<1>5. Carried(c2, s2, name)
  BY <1>1, <1>2, <1>3, StringCarried DEF Carried, Bytes
<1>6. Bytes(s3) /\ Bytes(s1) /\ Bytes(s2) /\ Bytes(name) /\ Bytes(<<zero>>)
  BY <1>2, <1>3, <1>4, <1>5 DEF Carried, Bytes
<1>7. PICK buff : buff = s1 \o (s2 \o s3) /\ Bytes(buff) /\ Bytes(s2 \o s3)
  <2>1. PICK x, y, z \in Seq(Nat) : x = s1 /\ y = s2 /\ z = s3
    BY <1>6 DEF Bytes
  <2>2. y \o z \in Seq(Nat) /\ x \o (y \o z) \in Seq(Nat)
    OBVIOUS
  <2>3. QED BY <2>1, <2>2 DEF Bytes
<1>8. buff = ServerAuthSwitch(s)
  <2>1. ((s1 \o name) \o <<zero>>) \o s3 = s1 \o (name \o (<<zero>> \o s3))
    BY <1>6, ThreeBefore
  <2>2. PICK x, y, z \in Seq(Nat) : x = name /\ y = <<zero>> /\ z = s3
    BY <1>6 DEF Bytes
  <2>3. (x \o y) \o z = x \o (y \o z)
    OBVIOUS
  <2>4. s1 \o (s2 \o s3) = s1 \o (name \o (<<zero>> \o s3))
    BY <1>3, <2>2, <2>3
  <2>5. buff = ((s1 \o name) \o <<zero>>) \o s3
    BY <1>7, <2>1, <2>4
  <2>6. QED BY <1>2, <1>3, <2>5 DEF ServerAuthSwitch
<1>9. PICK r0 : r0 = Open(buff, <<>>) /\ Ready(r0, s1 \o (s2 \o s3))
  <2>1. PICK b \in Seq(Nat) : b = buff
    BY <1>7 DEF Bytes
  <2>2. Ready(Open(b, <<>>), b)
    BY OpenReady
  <2>3. QED BY <1>7, <2>1, <2>2
<1>10. PICK r1 : r1 = Read(r0, c1) /\ Ready(r1, s2 \o s3)
  BY <1>1, <1>4, <1>7, <1>9, SkipStepped
<1>11. PICK r : r = ParseAuthSwitch(buff, caps)
  OBVIOUS
<1> DEFINE refused == IF "PLUGIN_AUTH" \notin caps THEN Fail(r1, "PROTOCOL_VIOLATION") ELSE r1
           named == Read(refused, c2)
           kept == IF named.rc = "OK" /\ Len(named.out.auth_plugin) > PluginMax THEN Fail(named, "AUTH_PLUGIN_TOO_LONG") ELSE named
           t == Read(kept, c3)
<1>12. r = IF t.rc = "OK" THEN Finish(Store(t, "scramble", Truncated(t.out.scramble, ScrambleLen + 1))) ELSE t
  <2>1. r1.rc = "OK"
    BY <1>10 DEF Ready
  <2>2. QED BY <1>1, <1>9, <1>10, <1>11, <2>1 DEF ParseAuthSwitch, Refuse, Then
<1>13. \A x, code : Ready(x, s2 \o s3) \/ Ready(x, s3) => Fail(x, code).rc = code
  BY DEF Ready, Good, Safe, Parts, Fail
<1>14. CASE "PLUGIN_AUTH" \notin caps
  <2>1. PICK u : u = Fail(r1, "PROTOCOL_VIOLATION") /\ u.rc = "PROTOCOL_VIOLATION"
    BY <1>10, <1>13
  <2>2. refused = u /\ named = u /\ kept = u /\ t = u
    BY <1>14, <2>1, Stays
  <2> HIDE DEF t, kept, named, refused
  <2>3. r = u
    BY <1>12, <2>1, <2>2
  <2>4. QED BY <1>7, <1>8, <1>11, <1>14, <2>1, <2>3 DEF Bytes
<1>15. CASE "PLUGIN_AUTH" \in caps
  <2>1. refused = r1
    BY <1>15
  <2>2. PICK r2 : r2 = Read(r1, c2) /\ Ready(r2, s3) /\ r2.out = Put(r1.out, c2.field, name)
    <3>1. c2.field # "skip" /\ Ready(r1, s2 \o s3)
      BY <1>1, <1>10
    <3>2. QED BY <1>5, <1>6, <3>1, Stepped
  <2>3. named = r2 /\ Has(r2.out, "auth_plugin", name)
    BY <1>1, <2>1, <2>2, PutHas
  <2>4. r2.rc = "OK" /\ r2.out.auth_plugin = name
    BY <2>2, <2>3 DEF Ready, Has
  <2>5. CASE Len(name) > PluginMax
    <3>1. PICK u : u = Fail(r2, "AUTH_PLUGIN_TOO_LONG") /\ u.rc = "AUTH_PLUGIN_TOO_LONG"
      BY <1>13, <2>2
    <3>2. kept = u
      BY <2>3, <2>4, <2>5, <3>1
    <3>3. t = u
      BY <3>1, <3>2, Stays
    <3> HIDE DEF t, kept, named, refused
    <3>4. r = u
      BY <1>12, <3>1, <3>3
    <3>5. QED BY <1>3, <1>7, <1>8, <1>11, <1>15, <2>5, <3>1, <3>4 DEF Bytes
  <2>6. CASE ~(Len(name) > PluginMax)
    <3>1. kept = r2
      BY <2>3, <2>4, <2>6
    <3>2. PICK none : Bytes(none) /\ Len(none) = 0 /\ s3 = s3 \o none
      BY <1>6, RestOfAll
    <3>3. PICK r3 : r3 = Read(r2, c3) /\ Ready(r3, none) /\ r3.out = Put(r2.out, c3.field, s3)
      <4>1. PICK x, z \in Seq(Nat) : x = s3 /\ z = none
        BY <1>6, <3>2 DEF Bytes
      <4>2. Carries(c3, x, x, z)
        BY <1>1, <3>2, <4>1, RestCarried
      <4>3. Ready(r2, x \o z)
        BY <2>2, <3>2, <4>1
      <4>4. Ready(Read(r2, c3), z) /\ Read(r2, c3).out = IF c3.field = "skip" THEN r2.out ELSE Put(r2.out, c3.field, x)
        BY <4>2, <4>3, ReadReady
      <4>5. QED BY <1>1, <4>1, <4>4
    <3>4. t = r3 /\ Has(r3.out, "auth_plugin", name) /\ Has(r3.out, "scramble", s3)
      BY <1>1, <2>3, <3>1, <3>3, PutHas
    <3>5. PICK short : short = Truncated(s3, ScrambleLen + 1)
      OBVIOUS
    <3>6. PICK r4 : r4 = Store(r3, "scramble", short) /\ Ready(r4, none) /\ r4.out = Put(r3.out, "scramble", short)
      BY <3>3, StoreReady
    <3>7. Finish(r4) = r4 /\ r4.rc = "OK"
      BY <3>2, <3>6, FinishReady DEF Ready
    <3>8. Has(r4.out, "auth_plugin", name) /\ Has(r4.out, "scramble", short)
      BY <3>4, <3>6, PutHas
    <3>9. r3.rc = "OK" /\ r3.out.scramble = s3
      BY <3>3, <3>4 DEF Ready, Has
    <3> HIDE DEF t, kept, named, refused
    <3>10. r = r4
      BY <1>12, <3>4, <3>5, <3>6, <3>7, <3>9
    <3>11. r.rc = "OK" /\ r.out.auth_plugin = name /\ r.out.scramble = short
      BY <3>7, <3>8, <3>10 DEF Has
    <3>12. QED BY <1>3, <1>7, <1>8, <1>11, <1>15, <2>6, <3>5, <3>11 DEF Bytes
  <2>7. QED BY <2>5, <2>6
<1>16. QED BY <1>14, <1>15

-----------------------------------------------------------------------------
(* The mask of a set of capabilities.                                        *)

MaskFold(bits) == FoldLeft(LAMBDA n, b : n + (IF b \in bits THEN 2^b ELSE 0), 0, [b \in 1..(4 * Bits) |-> b])
MaskSums(g, bits) ==
  g = [S \in SUBSET (1..(4 * Bits)) |->
         IF S = {} THEN 0
         ELSE g[S \ {Max(S)}] + (IF [b \in 1..(4 * Bits) |-> b][Max(S)] \in bits
                                 THEN 2^([b \in 1..(4 * Bits) |-> b][Max(S)]) ELSE 0)]

LEMMA MaskFolds ==
  ASSUME NEW bits, NEW x, x = [bits |-> bits, seq |-> [b \in 1..(4 * Bits) |-> b]]
  PROVE  \E g : Folding(g, "mask", x, 0, 4 * Bits) /\ MaskFold(bits) = g[1..(4 * Bits)]
<1>1. ASSUME NEW s, NEW i
      PROVE  Step("mask", x, s, i) = s + (IF [b \in 1..(4 * Bits) |-> b][i] \in bits
                                          THEN 2^([b \in 1..(4 * Bits) |-> b][i]) ELSE 0)
  <2>1. Step("mask", x, s, i) = s + MaskBit(x.bits, x.seq[i])
    BY DEF Step
  <2>2. x.bits = bits /\ x.seq = [b \in 1..(4 * Bits) |-> b]
    OBVIOUS
  <2>3. QED BY <2>1, <2>2, Zenon DEF MaskBit
<1>2. ASSUME NEW g PROVE Folding(g, "mask", x, 0, 4 * Bits) <=> MaskSums(g, bits)
  <2> DEFINE D == SUBSET (1..(4 * Bits))
             A(S) == IF S = {} THEN 0 ELSE Step("mask", x, g[S \ {Max(S)}], Max(S))
             B(S) == IF S = {} THEN 0
                     ELSE g[S \ {Max(S)}] + (IF [b \in 1..(4 * Bits) |-> b][Max(S)] \in bits
                                             THEN 2^([b \in 1..(4 * Bits) |-> b][Max(S)]) ELSE 0)
  <2>1. \A S \in D : A(S) = B(S)
    BY <1>1, Zenon
  <2>2. (Folding(g, "mask", x, 0, 4 * Bits) <=> g = [S \in D |-> A(S)])
        /\ (MaskSums(g, bits) <=> g = [S \in D |-> B(S)])
    BY Zenon DEF Folding, MaskSums
  <2> HIDE DEF A, B, D
  <2>3. ASSUME g = [S \in D |-> A(S)] PROVE g = [S \in D |-> B(S)]
    BY <2>1, <2>3
  <2>4. ASSUME g = [S \in D |-> B(S)] PROVE g = [S \in D |-> A(S)]
    BY <2>1, <2>4
  <2>5. QED BY <2>2, <2>3, <2>4
<1> DEFINE g == CHOOSE f : MaskSums(f, bits)
<1>3. \E f : MaskSums(f, bits)
  <2>1. PICK n \in Nat : n = 4 * Bits
    BY ReaderAssumption
  <2>2. PICK zero : zero = 0
    OBVIOUS
  <2>3. \E f : Folding(f, "mask", x, zero, n)
    BY FoldExists
  <2>4. QED BY <1>2, <2>1, <2>2, <2>3
<1>4. MaskSums(g, bits)
  BY <1>3
<1>5. MaskFold(bits) = g[1..(4 * Bits)]
  BY DEF MaskFold, FoldLeft, MapThenFoldSet, MaskSums
<1> HIDE DEF g
<1>6. QED BY <1>2, <1>4, <1>5

\* The bits the parsers look at, as parts of a sum.
Lower(flags) == (IF Protocol41 \in flags THEN 1 ELSE 0) + (IF SecureConnection \in flags THEN 2 ELSE 0)
Upper(flags) == IF PluginAuth \in flags THEN 1 ELSE 0

LEMMA BitPlaces ==
  /\ Bits \in Nat /\ Bits >= 4 /\ 2^1 = 2 /\ 2^0 = 1 /\ 2^PluginAuth = Radix^2
  /\ Radix^2 \in {256, 1024, 4096, 16384, 65536}
<1>0. Bits \in {4, 5, 6, 7, 8}
  BY ReaderAssumption
<1>1. CASE Bits = 4
  <2>1. Radix^2 = 256 /\ PluginAuth = 8
    BY <1>1, SMT DEF Radix, PluginAuth
  <2>2. 2^8 = 256
    OBVIOUS
  <2>3. QED BY <1>1, <2>1, <2>2
<1>2. CASE Bits = 5
  <2>1. Radix^2 = 1024 /\ PluginAuth = 10
    BY <1>2, SMT DEF Radix, PluginAuth
  <2>2. 2^10 = 1024
    OBVIOUS
  <2>3. QED BY <1>2, <2>1, <2>2
<1>3. CASE Bits = 6
  <2>1. Radix^2 = 4096 /\ PluginAuth = 12
    BY <1>3, SMT DEF Radix, PluginAuth
  <2>2. 2^12 = 4096
    OBVIOUS
  <2>3. QED BY <1>3, <2>1, <2>2
<1>4. CASE Bits = 7
  <2>1. Radix^2 = 16384 /\ PluginAuth = 14
    BY <1>4, SMT DEF Radix, PluginAuth
  <2>2. 2^14 = 16384
    OBVIOUS
  <2>3. QED BY <1>4, <2>1, <2>2
<1>5. CASE Bits = 8
  <2>1. Radix^2 = 65536 /\ PluginAuth = 16
    BY <1>5, SMT DEF Radix, PluginAuth
  <2>2. 2^16 = 65536
    OBVIOUS
  <2>3. QED BY <1>5, <2>1, <2>2
<1>6. QED BY <1>0, <1>1, <1>2, <1>3, <1>4, <1>5

LEMMA MaskOf ==
  ASSUME NEW flags \in SUBSET ClientCapabilities
  PROVE  Mask(flags) = Lower(flags) + Radix^2 * Upper(flags)
<1>1. PICK k, q, top \in Nat : k = PluginAuth /\ q = Radix^2 /\ top = 4 * Bits /\ k > 1 /\ k <= top /\ q > 0
      /\ 2^k = q
  <2>1. PluginAuth \in Nat /\ 4 * Bits \in Nat /\ PluginAuth > 1 /\ PluginAuth <= 4 * Bits
    BY BitPlaces DEF PluginAuth
  <2>2. Radix^2 \in Nat /\ Radix^2 > 0
    BY BitPlaces
  <2>3. QED BY <2>1, <2>2, BitPlaces
<1>2. flags \subseteq {0, 1, k}
  BY <1>1 DEF ClientCapabilities, Protocol41, SecureConnection
<1>3. PICK x : x = [bits |-> flags, seq |-> [b \in 1..(4 * Bits) |-> b]]
  OBVIOUS
<1>4. PICK g : Folding(g, "mask", x, 0, top) /\ MaskFold(flags) = g[1..top]
  BY <1>1, <1>3, MaskFolds
<1>5. x.bits = flags /\ \A i \in 1..top : x.seq[i] = i
  BY <1>1, <1>3
<1>6. g[1..0] = 0 /\ \A i \in 0..(top - 1) : g[1..(i + 1)] = Step("mask", x, g[1..i], i + 1)
  <2>1. PICK loop, zero : loop = "mask" /\ zero = 0
    OBVIOUS
  <2>2. Folding(g, loop, x, zero, top)
    BY <1>4, <2>1
  <2>3. QED BY <2>1, <2>2, FoldSteps
<1> DEFINE A(m) == IF 1 \in flags /\ m >= 1 THEN 2 ELSE 0
           B(m) == IF k \in flags /\ m >= k THEN q ELSE 0
           P == {m \in Nat : m <= top => g[1..m] = A(m) + B(m)}
<1>7. 0 \in P
  BY <1>1, <1>6
<1>8. ASSUME NEW m \in Nat, m \in P PROVE m + 1 \in P
  <2> SUFFICES ASSUME m + 1 <= top PROVE g[1..(m + 1)] = A(m + 1) + B(m + 1)
    OBVIOUS
  <2>1. m \in 0..(top - 1) /\ m + 1 \in 1..top /\ m <= top
    BY <1>1
  <2>2. PICK s : s = g[1..m] /\ s = A(m) + B(m)
    BY <1>8, <2>1
  <2>3. g[1..(m + 1)] = s + MaskBit(flags, m + 1)
    BY <1>5, <1>6, <2>1, <2>2 DEF Step
  <2>4. CASE m + 1 = 1
    <3>1. MaskBit(flags, 1) = IF 1 \in flags THEN 2 ELSE 0
      <4>1. PICK b \in Nat : b = 1
        OBVIOUS
      <4>2. MaskBit(flags, b) = IF b \in flags THEN 2^b ELSE 0
        BY DEF MaskBit
      <4>3. 2^b = 2
        BY <4>1
      <4>4. QED BY <4>1, <4>2, <4>3
    <3>2. MaskBit(flags, m + 1) = IF 1 \in flags THEN 2 ELSE 0
      BY <2>4, <3>1
    <3>3. QED BY <1>1, <2>2, <2>3, <2>4, <3>2
  <2>5. CASE m + 1 = k
    <3>1. MaskBit(flags, m + 1) = IF k \in flags THEN q ELSE 0
      BY <1>1, <2>5 DEF MaskBit
    <3>2. QED BY <1>1, <2>2, <2>3, <2>5, <3>1
  <2>6. CASE m + 1 # 1 /\ m + 1 # k
    <3>1. MaskBit(flags, m + 1) = 0
      BY <1>2, <2>6 DEF MaskBit
    <3>2. QED BY <1>1, <2>2, <2>3, <2>6, <3>1
  <2>7. QED BY <2>4, <2>5, <2>6
<1>9. Nat \subseteq P
  <2> HIDE DEF P
  <2>1. QED BY <1>7, <1>8, SetInduction
<1>10. g[1..top] = (IF 1 \in flags THEN 2 ELSE 0) + (IF k \in flags THEN q ELSE 0)
  <2>1. g[1..top] = A(top) + B(top)
    BY <1>1, <1>9
  <2>2. QED BY <1>1, <2>1
<1>11. Mask(flags) = g[1..top] + (IF 0 \in flags THEN 1 ELSE 0)
  BY <1>4, Zenon DEF Mask, MaskFold
<1>12. QED BY <1>1, <1>10, <1>11 DEF Lower, Upper, Protocol41, SecureConnection

LEMMA RadixCases == Radix \in {16, 32, 64, 128, 256}
<1>0. Bits \in {4, 5, 6, 7, 8}
  BY ReaderAssumption
<1>1. CASE Bits = 4
  <2>1. Radix = 16
    BY <1>1, SMT DEF Radix
  <2>2. QED BY <2>1
<1>2. CASE Bits = 5
  <2>1. Radix = 32
    BY <1>2, SMT DEF Radix
  <2>2. QED BY <2>1
<1>3. CASE Bits = 6
  <2>1. Radix = 64
    BY <1>3, SMT DEF Radix
  <2>2. QED BY <2>1
<1>4. CASE Bits = 7
  <2>1. Radix = 128
    BY <1>4, SMT DEF Radix
  <2>2. QED BY <2>1
<1>5. CASE Bits = 8
  <2>1. Radix = 256
    BY <1>5, SMT DEF Radix
  <2>2. QED BY <2>1
<1>6. QED BY <1>0, <1>1, <1>2, <1>3, <1>4, <1>5

Divisors == {16, 32, 64, 128, 256, 1024, 4096, 16384, 65536}
Radices == {16, 32, 64, 128, 256}

\* A small rest, and what it is the rest of.
LEMMA RestOfDivision ==
  ASSUME NEW d \in Divisors, NEW r \in 0..3, NEW u \in 0..1
  PROVE  (r + d * u) \div d = u /\ (r + d * u) % d = r
<1>0. r \in {0, 1, 2, 3} /\ u \in {0, 1}
  OBVIOUS
<1>1. CASE d = 16
  <2>1. (r + 16 * u) \div 16 = u /\ (r + 16 * u) % 16 = r
    BY <1>0
  <2>2. QED BY <1>1, <2>1
<1>2. CASE d = 32
  <2>1. (r + 32 * u) \div 32 = u /\ (r + 32 * u) % 32 = r
    BY <1>0
  <2>2. QED BY <1>2, <2>1
<1>3. CASE d = 64
  <2>1. (r + 64 * u) \div 64 = u /\ (r + 64 * u) % 64 = r
    BY <1>0
  <2>2. QED BY <1>3, <2>1
<1>4. CASE d = 128
  <2>1. (r + 128 * u) \div 128 = u /\ (r + 128 * u) % 128 = r
    BY <1>0
  <2>2. QED BY <1>4, <2>1
<1>5. CASE d = 256
  <2>1. (r + 256 * u) \div 256 = u /\ (r + 256 * u) % 256 = r
    BY <1>0
  <2>2. QED BY <1>5, <2>1
<1>6. CASE d = 1024
  <2>1. (r + 1024 * u) \div 1024 = u /\ (r + 1024 * u) % 1024 = r
    BY <1>0
  <2>2. QED BY <1>6, <2>1
<1>7. CASE d = 4096
  <2>1. (r + 4096 * u) \div 4096 = u /\ (r + 4096 * u) % 4096 = r
    BY <1>0
  <2>2. QED BY <1>7, <2>1
<1>8. CASE d = 16384
  <2>1. (r + 16384 * u) \div 16384 = u /\ (r + 16384 * u) % 16384 = r
    BY <1>0
  <2>2. QED BY <1>8, <2>1
<1>9. CASE d = 65536
  <2>1. (r + 65536 * u) \div 65536 = u /\ (r + 65536 * u) % 65536 = r
    BY <1>0
  <2>2. QED BY <1>9, <2>1
<1>10. QED BY <1>1, <1>2, <1>3, <1>4, <1>5, <1>6, <1>7, <1>8, <1>9 DEF Divisors

LEMMA RestOfSquare ==
  ASSUME NEW d \in Radices, NEW r \in 0..3, NEW u \in 0..1
  PROVE  (r + (d * d) * u) \div d = d * u /\ (r + (d * d) * u) % d = r
<1>0. r \in {0, 1, 2, 3} /\ u \in {0, 1}
  OBVIOUS
<1>1. CASE d = 16
  <2>1. (r + 256 * u) \div 16 = 16 * u /\ (r + 256 * u) % 16 = r
    BY <1>0
  <2>2. QED BY <1>1, <2>1
<1>2. CASE d = 32
  <2>1. (r + 1024 * u) \div 32 = 32 * u /\ (r + 1024 * u) % 32 = r
    BY <1>0
  <2>2. QED BY <1>2, <2>1
<1>3. CASE d = 64
  <2>1. (r + 4096 * u) \div 64 = 64 * u /\ (r + 4096 * u) % 64 = r
    BY <1>0
  <2>2. QED BY <1>3, <2>1
<1>4. CASE d = 128
  <2>1. (r + 16384 * u) \div 128 = 128 * u /\ (r + 16384 * u) % 128 = r
    BY <1>0
  <2>2. QED BY <1>4, <2>1
<1>5. CASE d = 256
  <2>1. (r + 65536 * u) \div 256 = 256 * u /\ (r + 65536 * u) % 256 = r
    BY <1>0
  <2>2. QED BY <1>5, <2>1
<1>6. QED BY <1>1, <1>2, <1>3, <1>4, <1>5 DEF Radices

\* The numbers the flags are made of, and what the parsers find in them.
LEMMA MaskParts ==
  ASSUME NEW flags \in SUBSET ClientCapabilities
  PROVE  /\ Lower(flags) \in 0..3 /\ Upper(flags) \in 0..1
         /\ Lower(flags) \in Word /\ Upper(flags) \in Word
         /\ Flag(Lower(flags), Protocol41) <=> Protocol41 \in flags
         /\ Flag(Lower(flags) + Radix^2 * Upper(flags), SecureConnection) <=> SecureConnection \in flags
         /\ Flag(Lower(flags) + Radix^2 * Upper(flags), PluginAuth) <=> PluginAuth \in flags
<1>1. PICK lo \in 0..3, u \in 0..1, q \in Nat :
        lo = Lower(flags) /\ u = Upper(flags) /\ q = Radix^2 /\ q \in {256, 1024, 4096, 16384, 65536}
  BY BitPlaces DEF Lower, Upper
<1>2. (Protocol41 \in flags <=> lo \in {1, 3}) /\ (SecureConnection \in flags <=> lo \in {2, 3})
      /\ (PluginAuth \in flags <=> u = 1)
  BY <1>1 DEF Lower, Upper
<1>3. lo \in Word /\ u \in Word
  BY <1>1 DEF Word
<1>4. Flag(lo, Protocol41) <=> lo \in {1, 3}
  <2>1. PICK one \in Nat : one = 2^Protocol41 /\ one = 1
    BY BitPlaces DEF Protocol41
  <2>2. (lo \div one) % 2 = 1 <=> lo \in {1, 3}
    BY <2>1
  <2>3. QED BY <2>1, <2>2 DEF Flag
<1>5. Flag(lo + q * u, SecureConnection) <=> lo \in {2, 3}
  <2>1. PICK two \in Nat : two = 2^SecureConnection /\ two = 2
    BY BitPlaces DEF SecureConnection
  <2>2. PICK m \in Nat : q * u = 4 * m
    <3>1. q * 0 = 4 * 0 /\ q * 1 = q
      OBVIOUS
    <3>2. \E m \in Nat : q = 4 * m
      BY <1>1
    <3>3. u = 0 \/ u = 1
      OBVIOUS
    <3>4. QED BY <3>1, <3>2, <3>3
  <2>4. ((lo + 4 * m) \div 2) % 2 = 1 <=> lo \in {2, 3}
    OBVIOUS
  <2>5. ((lo + q * u) \div two) % 2 = 1 <=> lo \in {2, 3}
    BY <2>1, <2>2, <2>4
  <2>3. QED BY <2>1, <2>5 DEF Flag
<1>6. Flag(lo + q * u, PluginAuth) <=> u = 1
  <2>1. 2^PluginAuth = q
    BY <1>1, BitPlaces
  <2>2. ((lo + q * u) \div q) % 2 = 1 <=> u = 1
    <3>1. (lo + q * u) \div q = u
      <4>1. q \in Divisors
        BY <1>1 DEF Divisors
      <4>2. QED BY <4>1, RestOfDivision, Zenon
    <3>2. u % 2 = 1 <=> u = 1
      OBVIOUS
    <3>3. QED BY <3>1, <3>2, Zenon
  <2>3. QED BY <2>1, <2>2 DEF Flag
<1>7. QED BY <1>1, <1>2, <1>3, <1>4, <1>5, <1>6

\* A number of one digit, in two.
LEMMA OneDigit ==
  ASSUME NEW n \in Nat, n < 4
  PROVE  Digits(n, 2) = <<n, 0>>
<1>1. PICK d, f : /\ d \in Seq(Nat) /\ d = Digits(n, 2) /\ Len(d) = 2 /\ f[0] = n
                   /\ \A i \in 1..2 : f[i] = f[i - 1] \div Radix /\ d[i] = f[i - 1] % Radix
  <2>1. PICK width \in Nat : width = 2
    OBVIOUS
  <2>2. PICK f \in [0..width -> Nat] :
          /\ f[0] = n /\ \A i \in 1..width : f[i] = f[i - 1] \div Radix /\ f[i] <= f[i - 1]
          /\ Digits(n, width) \in Seq(Byte) /\ Digits(n, width) \in Seq(Nat) /\ Len(Digits(n, width)) = width
          /\ \A i \in 1..width : Digits(n, width)[i] = f[i - 1] % Radix
    BY DigitsFacts, Zenon
  <2>3. QED BY <2>1, <2>2
<1>2. d[1] = f[0] % Radix /\ f[1] = f[0] \div Radix /\ d[2] = f[1] % Radix
  <2>1. 1 \in 1..2 /\ 2 \in 1..2 /\ 1 - 1 = 0 /\ 2 - 1 = 1
    OBVIOUS
  <2>2. QED BY <1>1, <2>1
<1>3. n % Radix = n /\ n \div Radix = 0 /\ 0 % Radix = 0
  BY RadixCases
<1>4. d[1] = n /\ d[2] = 0
  BY <1>1, <1>2, <1>3
<1>5. QED BY <1>1, <1>4

\* A piece of some bytes.
LEMMA Piece ==
  ASSUME NEW s \in Seq(Nat), NEW m \in Nat \ {0}, NEW n \in Nat, m <= n, n <= Len(s)
  PROVE  /\ SubSeq(s, m, n) \in Seq(Nat) /\ Len(SubSeq(s, m, n)) = n - m + 1
         /\ \A i \in 1..(n - m + 1) : SubSeq(s, m, n)[i] = s[m + i - 1]
<1>1. \A i \in m..n : s[i] \in Nat
  OBVIOUS
<1>2. m \in Int /\ n \in Int
  OBVIOUS
<1>3. QED BY <1>1, <1>2, SubSeqProperties

LEMMA Halves ==
  ASSUME NEW d \in Seq(Nat), Len(d) = 4
  PROVE  SubSeq(d, 1, 2) = <<d[1], d[2]>> /\ SubSeq(d, 3, 4) = <<d[3], d[4]>>
<1>0. 1 \in Nat \ {0} /\ 2 \in Nat /\ 3 \in Nat \ {0} /\ 4 \in Nat /\ 1 <= 2 /\ 2 <= Len(d) /\ 3 <= 4 /\ 4 <= Len(d)
  OBVIOUS
<1>1. Len(SubSeq(d, 1, 2)) = 2 /\ SubSeq(d, 1, 2) \in Seq(Nat) /\ SubSeq(d, 1, 2)[1] = d[1]
      /\ SubSeq(d, 1, 2)[2] = d[2]
  <2>1. /\ Len(SubSeq(d, 1, 2)) = 2 - 1 + 1 /\ SubSeq(d, 1, 2) \in Seq(Nat)
        /\ \A i \in 1..(2 - 1 + 1) : SubSeq(d, 1, 2)[i] = d[1 + i - 1]
    BY <1>0, Piece
  <2>2. 2 - 1 + 1 = 2 /\ 1 \in 1..2 /\ 2 \in 1..2 /\ 1 + 1 - 1 = 1 /\ 1 + 2 - 1 = 2
    OBVIOUS
  <2>3. QED BY <2>1, <2>2
<1>2. Len(SubSeq(d, 3, 4)) = 2 /\ SubSeq(d, 3, 4) \in Seq(Nat) /\ SubSeq(d, 3, 4)[1] = d[3]
      /\ SubSeq(d, 3, 4)[2] = d[4]
  <2>1. /\ Len(SubSeq(d, 3, 4)) = 4 - 3 + 1 /\ SubSeq(d, 3, 4) \in Seq(Nat)
        /\ \A i \in 1..(4 - 3 + 1) : SubSeq(d, 3, 4)[i] = d[3 + i - 1]
    BY <1>0, Piece
  <2>2. 4 - 3 + 1 = 2 /\ 1 \in 1..2 /\ 2 \in 1..2 /\ 3 + 1 - 1 = 3 /\ 3 + 2 - 1 = 4
    OBVIOUS
  <2>3. QED BY <2>1, <2>2
<1>3. \A s \in Seq(Nat) : Len(s) = 2 => s = <<s[1], s[2]>>
  OBVIOUS
<1>4. QED BY <1>1, <1>2, <1>3

LEMMA MaskDigits ==
  ASSUME NEW flags \in SUBSET ClientCapabilities
  PROVE  /\ SubSeq(Digits(Mask(flags), 4), 1, 2) = Digits(Lower(flags), 2)
         /\ SubSeq(Digits(Mask(flags), 4), 3, 4) = Digits(Upper(flags), 2)
<1>1. PICK lo \in 0..3, u \in 0..1, q \in Nat, k \in Nat :
        lo = Lower(flags) /\ u = Upper(flags) /\ q = Radix^2 /\ q = k * k /\ k = Radix /\ k \in {16, 32, 64, 128, 256}
  BY MaskParts, RadixCases, Places
<1>2. PICK n \in Nat : n = Mask(flags) /\ n = lo + q * u
  BY <1>1, MaskOf
<1>3. PICK d, f : /\ d \in Seq(Nat) /\ d = Digits(n, 4) /\ Len(d) = 4 /\ f[0] = n
                   /\ \A i \in 1..4 : f[i] = f[i - 1] \div k /\ d[i] = f[i - 1] % k
  <2>1. PICK width \in Nat : width = 4
    OBVIOUS
  <2>2. PICK f \in [0..width -> Nat] :
          /\ f[0] = n /\ \A i \in 1..width : f[i] = f[i - 1] \div Radix /\ f[i] <= f[i - 1]
          /\ Digits(n, width) \in Seq(Byte) /\ Digits(n, width) \in Seq(Nat) /\ Len(Digits(n, width)) = width
          /\ \A i \in 1..width : Digits(n, width)[i] = f[i - 1] % Radix
    BY DigitsFacts, Zenon
  <2>3. PICK d, g : d = Digits(n, width) /\ g = f
    OBVIOUS
  <2>4. /\ d \in Seq(Nat) /\ d = Digits(n, 4) /\ Len(d) = 4 /\ g[0] = n
        /\ \A i \in 1..4 : g[i] = g[i - 1] \div k /\ d[i] = g[i - 1] % k
    BY <1>1, <2>1, <2>2, <2>3, Zenon
  <2>5. QED BY <2>4, Zenon
<1>4. /\ f[1] = f[0] \div k /\ f[2] = f[1] \div k /\ f[3] = f[2] \div k
      /\ d[1] = f[0] % k /\ d[2] = f[1] % k /\ d[3] = f[2] % k /\ d[4] = f[3] % k
  <2>1. /\ 1 \in 1..4 /\ 2 \in 1..4 /\ 3 \in 1..4 /\ 4 \in 1..4 /\ 1 - 1 = 0 /\ 2 - 1 = 1 /\ 3 - 1 = 2 /\ 4 - 1 = 3
    OBVIOUS
  <2>2. QED BY <1>3, <2>1
<1>5. (lo + q * u) \div k = k * u /\ (lo + q * u) % k = lo
  <2>1. (lo + (k * k) * u) \div k = k * u /\ (lo + (k * k) * u) % k = lo
    <3>1. k \in Radices
      BY <1>1 DEF Radices
    <3>2. QED BY <3>1, RestOfSquare, Zenon
  <2>2. QED BY <1>1, <2>1, Zenon
<1>6. (k * u) \div k = u /\ (k * u) % k = 0 /\ u \div k = 0 /\ u % k = u /\ 0 % k = 0
  <2>1. (0 + k * u) \div k = u /\ (0 + k * u) % k = 0 /\ (u + k * 0) \div k = 0 /\ (u + k * 0) % k = u
    <3>1. 0 \in 0..3 /\ 0 \in 0..1 /\ u \in 0..3
      OBVIOUS
    <3>2. k \in Divisors
      BY <1>1 DEF Divisors
    <3>3. QED BY <3>1, <3>2, RestOfDivision, Zenon
  <2>2. 0 + k * u = k * u /\ u + k * 0 = u
    BY <1>1
  <2>3. 0 % k = 0
    BY <1>1
  <2>4. QED BY <2>1, <2>2, <2>3
<1>7. d[1] = lo /\ d[2] = 0 /\ d[3] = u /\ d[4] = 0
  BY <1>2, <1>3, <1>4, <1>5, <1>6
<1>9. SubSeq(d, 1, 2) = <<lo, 0>> /\ SubSeq(d, 3, 4) = <<u, 0>>
  <2>1. PICK s \in Seq(Nat) : s = d /\ Len(s) = 4
    BY <1>3
  <2>2. SubSeq(s, 1, 2) = <<s[1], s[2]>> /\ SubSeq(s, 3, 4) = <<s[3], s[4]>>
    BY <2>1, Halves
  <2>3. QED BY <1>7, <2>1, <2>2
<1>10. Digits(lo, 2) = <<lo, 0>> /\ Digits(u, 2) = <<u, 0>>
  <2>1. lo \in Nat /\ lo < 4 /\ u \in Nat /\ u < 4
    OBVIOUS
  <2>2. QED BY <2>1, OneDigit
<1>11. QED BY <1>1, <1>2, <1>3, <1>9, <1>10

-----------------------------------------------------------------------------
(* The handshake packet.                                                     *)

LEMMA FieldsFour ==
  ASSUME NEW r, NEW c1, NEW c2, NEW c3, NEW c4
  PROVE  Fields(r, <<c1, c2, c3, c4>>) = Read(Read(Read(Read(r, c1), c2), c3), c4)
<1> DEFINE x == <<c1, c2, c3, c4>>
<1>1. Len(x) = 4 /\ x[1] = c1 /\ x[2] = c2 /\ x[3] = c3 /\ x[4] = c4
  OBVIOUS
<1> HIDE DEF x
<1>2. PICK f : f[0] = r /\ f[Len(x)] = Fields(r, x) /\ \A i \in 1..Len(x) : f[i] = Read(f[i - 1], x[i])
  <2>1. Len(x) \in Nat
    BY <1>1
  <2>2. QED BY <2>1, FieldsRuns
<1>3. f[1] = Read(r, c1) /\ f[2] = Read(f[1], c2) /\ f[3] = Read(f[2], c3) /\ f[4] = Read(f[3], c4)
  <2>1. 1 \in 1..4 /\ 2 \in 1..4 /\ 3 \in 1..4 /\ 4 \in 1..4 /\ 1 - 1 = 0 /\ 2 - 1 = 1 /\ 3 - 1 = 2 /\ 4 - 1 = 3
    OBVIOUS
  <2>2. f[1] = Read(f[1 - 1], x[1]) /\ f[2] = Read(f[2 - 1], x[2]) /\ f[3] = Read(f[3 - 1], x[3])
        /\ f[4] = Read(f[4 - 1], x[4])
    BY <1>1, <1>2, <2>1
  <2>3. QED BY <1>1, <1>2, <2>1, <2>2
<1>4. QED BY <1>1, <1>2, <1>3 DEF x

\* A server that sends a scramble as long as the client wants it.
HandshakeMeant(h) ==
  /\ h.flags \in SUBSET ClientCapabilities /\ h.version \in Seq(Nat \ {0}) /\ h.plugin \in Seq(Nat \ {0})
  /\ h.id \in Nat /\ Small(h.id) /\ Fits(h.id, 4) /\ h.charset \in Nat /\ h.status \in Word
  /\ h.scramble \in Seq(Nat) /\ Len(h.scramble) = ScrambleLen + 1

\* The pieces of its packet, and what is left behind each of them.
HandshakeSegs(h, s) ==
  /\ s[1] = <<10>> /\ s[2] = h.version \o <<0>> /\ s[3] = Digits(h.id, 4) /\ s[4] = SubSeq(h.scramble, 1, HeadLen)
  /\ s[5] = <<0>> /\ s[6] = Digits(Lower(h.flags), 2) /\ s[7] = <<h.charset>> /\ s[8] = Digits(h.status, 2)
  /\ s[9] = Digits(Upper(h.flags), 2) /\ s[10] = <<IF PluginAuth \in h.flags THEN Len(h.scramble) ELSE 0>>
  /\ s[11] = [i \in 1..Reserved |-> 0]
  /\ s[12] = IF SecureConnection \in h.flags THEN SubSeq(h.scramble, HeadLen + 1, Len(h.scramble)) ELSE <<>>
  /\ s[13] = IF PluginAuth \in h.flags THEN h.plugin \o <<0>> ELSE <<>>

HandshakeRests(h, s, g) ==
  /\ HandshakeSegs(h, s)
  /\ Bytes(g[0]) /\ Bytes(g[1]) /\ Bytes(g[2]) /\ Bytes(g[3]) /\ Bytes(g[4]) /\ Bytes(g[5]) /\ Bytes(g[6])
     /\ Bytes(g[7]) /\ Bytes(g[8]) /\ Bytes(g[9]) /\ Bytes(g[10]) /\ Bytes(g[11]) /\ Bytes(g[12]) /\ Bytes(g[13])
  /\ g[0] = s[1] \o g[1] /\ g[1] = s[2] \o g[2] /\ g[2] = s[3] \o g[3] /\ g[3] = s[4] \o g[4]
     /\ g[4] = s[5] \o g[5] /\ g[5] = s[6] \o g[6] /\ g[6] = s[7] \o g[7]
  /\ g[7] = s[8] \o g[8] /\ g[8] = s[9] \o g[9] /\ g[9] = s[10] \o g[10] /\ g[10] = s[11] \o g[11]
     /\ g[11] = s[12] \o g[12] /\ g[12] = s[13] \o g[13]
  /\ Len(g[13]) = 0

LEMMA HandshakeBytes ==
  ASSUME NEW h, HandshakeMeant(h), NEW s, HandshakeSegs(h, s)
  PROVE  /\ \A i \in 1..13 : Bytes(s[i])
         /\ Len(s[4]) = HeadLen /\ Len(s[11]) = Reserved
         /\ SecureConnection \in h.flags => Len(s[12]) = (ScrambleLen + 1) - HeadLen
<1>1. PICK zero \in Nat, ten \in Nat : zero = 0 /\ ten = 10
  OBVIOUS
<1>2. \A n \in Nat : Bytes(<<n>>)
  BY DEF Bytes
<1>3. Bytes(s[1]) /\ Bytes(s[5]) /\ Bytes(s[7])
  BY <1>1, <1>2 DEF HandshakeMeant, HandshakeSegs
<1>4. Bytes(s[2])
  <2>1. PICK text \in Seq(Nat \ {0}) : text = h.version
    BY DEF HandshakeMeant
  <2>2. text \o <<0>> \in Seq(Nat)
    BY StringCarried
  <2>3. QED BY <2>1, <2>2 DEF HandshakeSegs, Bytes
<1>5. Bytes(s[3])
  <2>1. PICK width \in Nat \ {0} : width = 4
    OBVIOUS
  <2>2. Bytes(Digits(h.id, width))
    BY <2>1, WideCarried DEF HandshakeMeant
  <2>3. QED BY <2>1, <2>2 DEF HandshakeSegs
<1>6. Bytes(s[6]) /\ Bytes(s[8]) /\ Bytes(s[9])
  <2>1. Lower(h.flags) \in Word /\ Upper(h.flags) \in Word /\ h.status \in Word
    BY MaskParts DEF HandshakeMeant
  <2>2. QED BY <2>1, WordCarried DEF HandshakeSegs
<1>7. PICK scramble \in Seq(Nat), n \in Nat, k \in Nat :
        scramble = h.scramble /\ n = ScrambleLen + 1 /\ Len(scramble) = n /\ k = HeadLen /\ k < n
  BY ProtocolAssumption DEF HandshakeMeant
<1>8. Bytes(s[4]) /\ Len(s[4]) = HeadLen
  <2>1. PICK head : head = SubSeq(scramble, 1, k) /\ s[4] = head
    BY <1>7 DEF HandshakeSegs
  <2>2. CASE k = 0
    <3>1. head = <<>>
      <4>1. 1 \in Int /\ k \in Int /\ k < 1
        BY <2>2
      <4>2. QED BY <2>1, <4>1, SubSeqEmpty
    <3>2. <<>> \in Seq(Nat) /\ Len(<<>>) = 0
      OBVIOUS
    <3>3. QED BY <1>7, <2>1, <2>2, <3>1, <3>2 DEF Bytes
  <2>3. CASE k # 0
    <3>1. 1 \in Nat \ {0} /\ 1 <= k /\ k <= Len(scramble) /\ k - 1 + 1 = k
      BY <1>7, <2>3
    <3>2. head \in Seq(Nat) /\ Len(head) = k - 1 + 1
      BY <2>1, <3>1, Piece
    <3>3. QED BY <1>7, <2>1, <3>1, <3>2 DEF Bytes
  <2>4. QED BY <2>2, <2>3
<1>9. Bytes(s[10])
  <2>1. PICK m \in Nat : m = IF PluginAuth \in h.flags THEN Len(h.scramble) ELSE 0
    BY <1>7
  <2>2. s[10] = <<m>>
    BY <2>1 DEF HandshakeSegs
  <2>3. QED BY <1>2, <2>2
<1>10. Bytes(s[11]) /\ Len(s[11]) = Reserved
  <2>1. PICK m, x : m \in Nat /\ m = Reserved /\ x = [i \in 1..m |-> 0] /\ s[11] = x
    BY ProtocolAssumption DEF HandshakeSegs
  <2>2. x \in Seq(Nat) /\ Len(x) = m
    BY <2>1
  <2>3. QED BY <2>1, <2>2 DEF Bytes
<1>11. Bytes(s[12]) /\ (SecureConnection \in h.flags => Len(s[12]) = (ScrambleLen + 1) - HeadLen)
  <2>1. CASE SecureConnection \in h.flags
    <3>1. PICK first \in Nat \ {0} : first = k + 1 /\ first <= n /\ n - first + 1 = n - k
      BY <1>7
    <3>2. PICK tail : tail = SubSeq(scramble, first, n) /\ s[12] = tail
      BY <1>7, <2>1, <3>1 DEF HandshakeSegs
    <3>3. n <= Len(scramble)
      BY <1>7
    <3>4. tail \in Seq(Nat) /\ Len(tail) = n - first + 1
      BY <3>1, <3>2, <3>3, Piece
    <3>5. Len(tail) = (ScrambleLen + 1) - HeadLen
      <4>1. PICK a, b : a = ScrambleLen + 1 /\ b = HeadLen /\ n = a /\ k = b
        BY <1>7
      <4>2. Len(tail) = a - b
        BY <3>1, <3>4, <4>1
      <4>3. QED BY <4>1, <4>2
    <3>6. QED BY <3>2, <3>4, <3>5 DEF Bytes
  <2>2. CASE SecureConnection \notin h.flags
    <3>1. <<>> \in Seq(Nat)
      OBVIOUS
    <3>2. QED BY <2>2, <3>1 DEF HandshakeSegs, Bytes
  <2>3. QED BY <2>1, <2>2
<1>12. Bytes(s[13])
  <2>1. PICK text \in Seq(Nat \ {0}) : text = h.plugin
    BY DEF HandshakeMeant
  <2>2. text \o <<0>> \in Seq(Nat) /\ <<>> \in Seq(Nat)
    BY StringCarried
  <2>3. QED BY <2>1, <2>2 DEF HandshakeSegs, Bytes
<1>13. \A i \in 1..13 : i \in {1, 2, 3, 4, 5, 6, 7, 8, 9, 10, 11, 12, 13}
  OBVIOUS
<1>14. QED BY <1>3, <1>4, <1>5, <1>6, <1>8, <1>9, <1>10, <1>11, <1>12, <1>13

\* The packet is made of these pieces.
LEMMA HandshakePieces ==
  ASSUME NEW h, HandshakeMeant(h)
  PROVE  \E s, g : HandshakeRests(h, s, g) /\ g[0] = ServerHandshake(h)
<1> DEFINE q == <<<<10>>, h.version \o <<0>>, Digits(h.id, 4), SubSeq(h.scramble, 1, HeadLen), <<0>>,
                  Digits(Lower(h.flags), 2), <<h.charset>>, Digits(h.status, 2), Digits(Upper(h.flags), 2),
                  <<IF PluginAuth \in h.flags THEN Len(h.scramble) ELSE 0>>, [i \in 1..Reserved |-> 0],
                  IF SecureConnection \in h.flags THEN SubSeq(h.scramble, HeadLen + 1, Len(h.scramble)) ELSE <<>>,
                  IF PluginAuth \in h.flags THEN h.plugin \o <<0>> ELSE <<>>>>
<1>1. HandshakeSegs(h, q)
  BY Zenon DEF HandshakeSegs
<1> HIDE DEF q
<1>2. PICK s : s = q /\ HandshakeSegs(h, s)
  BY <1>1
<1>3. PICK n \in Nat \ {0} : n = 13
  OBVIOUS
<1>4. \A i \in 1..n : Bytes(s[i])
  BY <1>2, <1>3, HandshakeBytes
<1>5. PICK a : Laid(a, s, n)
  BY <1>4, LaidExists
<1>6. PICK g : Leaves(g, a, s, n)
  BY <1>5, Strung
<1>7. \A i \in 0..13 : Bytes(g[i])
  BY <1>3, <1>6 DEF Leaves, Bytes
<1>8. Bytes(g[0]) /\ Bytes(g[1]) /\ Bytes(g[2]) /\ Bytes(g[3]) /\ Bytes(g[4]) /\ Bytes(g[5]) /\ Bytes(g[6])
      /\ Bytes(g[7]) /\ Bytes(g[8]) /\ Bytes(g[9]) /\ Bytes(g[10]) /\ Bytes(g[11]) /\ Bytes(g[12]) /\ Bytes(g[13])
  <2>1. 0 \in 0..13 /\ 1 \in 0..13 /\ 2 \in 0..13 /\ 3 \in 0..13 /\ 4 \in 0..13 /\ 5 \in 0..13 /\ 6 \in 0..13
        /\ 7 \in 0..13 /\ 8 \in 0..13 /\ 9 \in 0..13 /\ 10 \in 0..13 /\ 11 \in 0..13 /\ 12 \in 0..13 /\ 13 \in 0..13
    OBVIOUS
  <2>2. QED BY <1>7, <2>1
<1>9. \A i \in 1..13 : g[i - 1] = s[i] \o g[i]
  BY <1>3, <1>6 DEF Leaves
<1>10. g[0] = s[1] \o g[1] /\ g[1] = s[2] \o g[2] /\ g[2] = s[3] \o g[3] /\ g[3] = s[4] \o g[4]
       /\ g[4] = s[5] \o g[5] /\ g[5] = s[6] \o g[6] /\ g[6] = s[7] \o g[7] /\ g[7] = s[8] \o g[8]
          /\ g[8] = s[9] \o g[9] /\ g[9] = s[10] \o g[10] /\ g[10] = s[11] \o g[11] /\ g[11] = s[12] \o g[12]
             /\ g[12] = s[13] \o g[13]
  <2>1. 1 \in 1..13 /\ 2 \in 1..13 /\ 3 \in 1..13 /\ 4 \in 1..13 /\ 5 \in 1..13 /\ 6 \in 1..13 /\ 7 \in 1..13
        /\ 8 \in 1..13 /\ 9 \in 1..13 /\ 10 \in 1..13 /\ 11 \in 1..13 /\ 12 \in 1..13 /\ 13 \in 1..13
    OBVIOUS
  <2>2. 1 - 1 = 0 /\ 2 - 1 = 1 /\ 3 - 1 = 2 /\ 4 - 1 = 3 /\ 5 - 1 = 4 /\ 6 - 1 = 5 /\ 7 - 1 = 6 /\ 8 - 1 = 7
        /\ 9 - 1 = 8 /\ 10 - 1 = 9 /\ 11 - 1 = 10 /\ 12 - 1 = 11 /\ 13 - 1 = 12
    OBVIOUS
  <2>3. QED BY <1>9, <2>1, <2>2
<1>11. g[0] = a[13] /\ Len(g[13]) = 0
  BY <1>3, <1>6 DEF Leaves
<1>12. HandshakeRests(h, s, g)
  BY <1>2, <1>8, <1>10, <1>11 DEF HandshakeRests
<1>13. a[13] = ServerHandshake(h)
  <2>1. BuiltUp(a, s, n) /\ n >= 2 /\ n >= 3 /\ n >= 4 /\ n >= 5 /\ n >= 6 /\ n >= 7 /\ n >= 8 /\ n >= 9
        /\ n >= 10 /\ n >= 11 /\ n >= 12 /\ n >= 13
    BY <1>3, <1>5, LaidSteps
  <2>2. a[1] = s[1] /\ a[2] = a[1] \o s[2] /\ a[3] = a[2] \o s[3] /\ a[4] = a[3] \o s[4] /\ a[5] = a[4] \o s[5]
        /\ a[6] = a[5] \o s[6] /\ a[7] = a[6] \o s[7] /\ a[8] = a[7] \o s[8] /\ a[9] = a[8] \o s[9]
           /\ a[10] = a[9] \o s[10] /\ a[11] = a[10] \o s[11] /\ a[12] = a[11] \o s[12] /\ a[13] = a[12] \o s[13]
    BY <2>1 DEF BuiltUp
  <2>3. a[2] = (s[1] \o h.version) \o <<0>>
    <3>1. PICK x, y, z \in Seq(Nat) : x = s[1] /\ y = h.version /\ z = <<0>>
      <4>1. Bytes(s[1])
        BY <1>3, <1>4
      <4>2. PICK y \in Seq(Nat \ {0}) : y = h.version
        BY DEF HandshakeMeant
      <4>3. y \in Seq(Nat) /\ <<0>> \in Seq(Nat)
        OBVIOUS
      <4>4. QED BY <4>1, <4>2, <4>3 DEF Bytes
    <3>2. (x \o y) \o z = x \o (y \o z)
      OBVIOUS
    <3>3. s[2] = y \o z
      BY <1>2, <3>1 DEF HandshakeSegs
    <3>4. QED BY <2>2, <3>1, <3>2, <3>3
  <2>4. PICK caps : caps = Digits(Mask(h.flags), 4) /\ s[6] = SubSeq(caps, 1, 2) /\ s[9] = SubSeq(caps, 3, 4)
    BY <1>2, MaskDigits DEF HandshakeMeant, HandshakeSegs
  <2>5. a[13] = (((((((((((a[2] \o s[3]) \o s[4]) \o s[5]) \o s[6]) \o s[7]) \o s[8]) \o s[9]) \o s[10]) \o s[11]) \o s[12]) \o s[13])
    BY <2>2, Zenon
  <2>6. QED BY <1>2, <2>3, <2>4, <2>5, Zenon DEF ServerHandshake, HandshakeSegs
<1>14. QED BY <1>11, <1>12, <1>13

\* What has been read before the capabilities' second part.
HeadRead(out, h) ==
  /\ Has(out, "server_version", h.version) /\ Has(out, "conn_id", h.id)
  /\ Has(out, "head", SubSeq(h.scramble, 1, HeadLen)) /\ Has(out, "lower", Lower(h.flags))

LEMMA HeadKept ==
  ASSUME NEW out, NEW h, HeadRead(out, h), NEW field, field \notin {"server_version", "conn_id", "head", "lower"}, NEW value
  PROVE  HeadRead(Put(out, field, value), h)
BY PutHas DEF HeadRead

LEMMA HandshakeHead ==
  ASSUME NEW h, HandshakeMeant(h), NEW s, NEW g, HandshakeRests(h, s, g), NEW r0, Ready(r0, g[0])
  PROVE  LET r == HandshakeCapabilities(HandshakeFiller(HandshakeVersion(r0)))
         IN IF Protocol41 \in h.flags THEN Ready(r, g[6]) /\ HeadRead(r.out, h) ELSE r.rc = "PROTOCOL_VIOLATION"
<1>1. PICK c1, c2, c3, c4, c5, c6 :
        /\ c1 = UInt(1, "proto_version") /\ c2 = String("server_version") /\ c3 = UInt(4, "conn_id")
        /\ c4 = Buffer(HeadLen, "head") /\ c5 = UInt(1, "filler") /\ c6 = UInt(2, "lower")
  OBVIOUS
<1>2. /\ c1.field = "proto_version" /\ c2.field = "server_version" /\ c3.field = "conn_id" /\ c4.field = "head"
      /\ c5.field = "filler" /\ c6.field = "lower"
  BY <1>1 DEF UInt, String, Buffer
<1>3. PICK zero \in Nat, ten \in Nat, low \in Word : zero = 0 /\ ten = 10 /\ low = Lower(h.flags)
  BY MaskParts DEF HandshakeMeant
<1>4. PICK head : head = SubSeq(h.scramble, 1, HeadLen)
  OBVIOUS
<1>5. /\ g[0] = s[1] \o g[1] /\ g[1] = s[2] \o g[2] /\ g[2] = s[3] \o g[3] /\ g[3] = s[4] \o g[4]
      /\ g[4] = s[5] \o g[5] /\ g[5] = s[6] \o g[6]
      /\ Bytes(g[1]) /\ Bytes(g[2]) /\ Bytes(g[3]) /\ Bytes(g[4]) /\ Bytes(g[5]) /\ Bytes(g[6])
  BY DEF HandshakeRests
<1>6. /\ s[1] = <<ten>> /\ s[2] = h.version \o <<0>> /\ s[3] = Digits(h.id, 4) /\ s[4] = head /\ s[5] = <<zero>>
      /\ s[6] = Digits(low, 2) /\ HandshakeSegs(h, s)
  BY <1>3, <1>4 DEF HandshakeRests, HandshakeSegs
<1>7. Carried(c1, s[1], ten) /\ Carried(c5, s[5], zero)
  BY <1>1, <1>6, ByteCarried DEF Bytes, Carried
<1>8. Carried(c2, s[2], h.version)
  <2>1. PICK text \in Seq(Nat \ {0}) : text = h.version
    BY DEF HandshakeMeant
  <2>2. text \o <<0>> \in Seq(Nat) /\ \A field, z : Carries(String(field), text \o <<0>>, text, z)
    BY StringCarried
  <2>3. QED BY <1>1, <1>6, <2>1, <2>2 DEF Bytes, Carried
<1>9. Carried(c3, s[3], h.id)
  <2>1. PICK width \in Nat \ {0} : width = 4
    OBVIOUS
  <2>2. PICK m \in Nat : m = h.id /\ Fits(m, width) /\ Small(m)
    BY <2>1 DEF HandshakeMeant
  <2>3. Bytes(Digits(m, width)) /\ \A field, z : Carries(UInt(width, field), Digits(m, width), m, z)
    BY <2>2, WideCarried
  <2>4. QED BY <1>1, <1>6, <2>1, <2>2, <2>3 DEF Carried
<1>10. Carried(c4, s[4], head)
  <2>1. 4 \in 1..13
    OBVIOUS
  <2>2. Bytes(s[4]) /\ Len(s[4]) = HeadLen
    BY <1>6, <2>1, HandshakeBytes
  <2>3. PICK seg \in Seq(Nat) : seg = s[4] /\ Len(seg) = HeadLen
    BY <2>2 DEF Bytes
  <2>4. \A field, z : Carries(Buffer(HeadLen, field), seg, seg, z)
    BY <2>3, BufferCarried
  <2>5. QED BY <1>1, <1>6, <2>2, <2>3, <2>4 DEF Carried
<1>11. Carried(c6, s[6], low)
  BY <1>1, <1>6, WordCarried DEF Carried
<1>12. PICK r1 : r1 = Read(r0, c1) /\ Ready(r1, s[2] \o g[2]) /\ Has(r1.out, "proto_version", ten)
  BY <1>2, <1>5, <1>7, Stepped, PutHas
<1>13. PICK r2 : r2 = Read(r1, c2) /\ Ready(r2, s[3] \o g[3]) /\ Has(r2.out, "server_version", h.version)
  BY <1>2, <1>5, <1>8, <1>12, Stepped, PutHas
<1>14. PICK r3 : r3 = Read(r2, c3) /\ Ready(r3, s[4] \o g[4]) /\ r3.out = Put(r2.out, "conn_id", h.id)
  BY <1>2, <1>5, <1>9, <1>13, Stepped
<1>15. PICK r4 : r4 = Read(r3, c4) /\ Ready(r4, s[5] \o g[5]) /\ r4.out = Put(r3.out, "head", head)
  BY <1>2, <1>5, <1>10, <1>14, Stepped
<1>16. PICK r5 : r5 = Read(r4, c5) /\ Ready(r5, s[6] \o g[6]) /\ r5.out = Put(r4.out, "filler", zero)
  BY <1>2, <1>5, <1>7, <1>15, Stepped
<1>17. PICK r6 : r6 = Read(r5, c6) /\ Ready(r6, g[6]) /\ r6.out = Put(r5.out, "lower", low)
  BY <1>2, <1>5, <1>11, <1>16, Stepped
<1>18. Has(r3.out, "server_version", h.version) /\ Has(r3.out, "conn_id", h.id)
  BY <1>13, <1>14, PutHas
<1>19. Has(r4.out, "server_version", h.version) /\ Has(r4.out, "conn_id", h.id) /\ Has(r4.out, "head", head)
  BY <1>15, <1>18, PutHas
<1>20. /\ Has(r5.out, "server_version", h.version) /\ Has(r5.out, "conn_id", h.id) /\ Has(r5.out, "head", head)
       /\ Has(r5.out, "filler", zero)
  BY <1>16, <1>19, PutHas
<1>21. /\ Has(r6.out, "server_version", h.version) /\ Has(r6.out, "conn_id", h.id) /\ Has(r6.out, "head", head)
       /\ Has(r6.out, "lower", low)
  BY <1>17, <1>20, PutHas
<1>22. HandshakeVersion(r0) = r1
  <2>1. r1.out.proto_version = 10
    BY <1>3, <1>12 DEF Has
  <2>2. QED BY <1>1, <1>12, <2>1 DEF HandshakeVersion, Refuse
<1>23. HandshakeFiller(r1) = r5
  <2>1. Fields(r1, <<c2, c3, c4, c5>>) = r5
    BY <1>13, <1>14, <1>15, <1>16, FieldsFour
  <2>2. r5.out.filler = 0
    BY <1>3, <1>20 DEF Has
  <2>3. QED BY <1>1, <2>1, <2>2 DEF HandshakeFiller, Refuse
<1>24. r6.rc = "OK" /\ r6.out.lower = low
  BY <1>17, <1>21 DEF Ready, Has
<1>25. HandshakeCapabilities(r5) = IF Flag(low, Protocol41) THEN r6 ELSE Fail(r6, "PROTOCOL_VIOLATION")
  BY <1>1, <1>17, <1>24 DEF HandshakeCapabilities, Refuse
<1>26. Flag(low, Protocol41) <=> Protocol41 \in h.flags
  BY <1>3, MaskParts DEF HandshakeMeant
<1>27. Fail(r6, "PROTOCOL_VIOLATION").rc = "PROTOCOL_VIOLATION"
  BY <1>17 DEF Ready, Good, Safe, Parts, Fail
<1>28. HeadRead(r6.out, h)
  BY <1>3, <1>4, <1>21 DEF HeadRead
<1>29. QED BY <1>17, <1>22, <1>23, <1>25, <1>26, <1>27, <1>28

\* What has been read before the name of the plugin.
ScrambleRead(out, h) ==
  /\ HeadRead(out, h) /\ Has(out, "server_charset", h.charset) /\ Has(out, "server_status", h.status)
  /\ Has(out, "upper", Upper(h.flags))

LEMMA ScrambleKept ==
  ASSUME NEW out, NEW h, ScrambleRead(out, h), NEW value,
         NEW field, field \notin {"server_version", "conn_id", "head", "lower", "server_charset", "server_status", "upper"}
  PROVE  ScrambleRead(Put(out, field, value), h)
BY PutHas, HeadKept DEF ScrambleRead

LEMMA FailCode ==
  ASSUME NEW r, NEW rest, Ready(r, rest), NEW code
  PROVE  Fail(r, code).rc = code
BY DEF Ready, Good, Safe, Parts, Fail

LEMMA FlagsRead ==
  ASSUME NEW h, HandshakeMeant(h), NEW out, Has(out, "lower", Lower(h.flags)), Has(out, "upper", Upper(h.flags))
  PROVE  (Secure(out) <=> SecureConnection \in h.flags) /\ (Plugin(out) <=> PluginAuth \in h.flags)
<1>1. Capabilities(out) = Lower(h.flags) + Radix^2 * Upper(h.flags)
  BY DEF Has, Capabilities
<1>2. QED BY <1>1, MaskParts DEF Secure, Plugin, HandshakeMeant

LEMMA HandshakeTail ==
  ASSUME NEW h, HandshakeMeant(h), NEW s, NEW g, HandshakeRests(h, s, g), NEW r0, Ready(r0, g[6]), HeadRead(r0.out, h)
  PROVE  LET r == HandshakeScramble(r0)
         IN IF SecureConnection \in h.flags /\ PluginAuth \in h.flags
            THEN Ready(r, g[12]) /\ ScrambleRead(r.out, h)
                 /\ Has(r.out, "tail", SubSeq(h.scramble, HeadLen + 1, Len(h.scramble)))
            ELSE r.rc = "PROTOCOL_VIOLATION"
<1>1. PICK c1, c2, c3, c4, c5, c6 :
        /\ c1 = UInt(1, "server_charset") /\ c2 = UInt(2, "server_status") /\ c3 = UInt(2, "upper")
        /\ c4 = UInt(1, "auth_data_len") /\ c5 = Buffer(Reserved, "skip")
        /\ c6 = Buffer((ScrambleLen + 1) - HeadLen, "tail")
  OBVIOUS
<1>2. /\ c1.field = "server_charset" /\ c2.field = "server_status" /\ c3.field = "upper" /\ c4.field = "auth_data_len"
      /\ c5.field = "skip" /\ c6.field = "tail"
  BY <1>1 DEF UInt, Buffer
<1>3. PICK up \in Word, charset \in Nat, status \in Word : up = Upper(h.flags) /\ charset = h.charset
      /\ status = h.status
  BY MaskParts DEF HandshakeMeant
<1>4. PICK want \in Nat, k \in Nat : want = ScrambleLen + 1 /\ k = HeadLen /\ k < want /\ want # 0
      /\ Len(h.scramble) = want
  BY ProtocolAssumption DEF HandshakeMeant
<1>5. PICK len \in Nat : len = IF PluginAuth \in h.flags THEN want ELSE 0
  BY <1>4
<1>6. /\ g[6] = s[7] \o g[7] /\ g[7] = s[8] \o g[8] /\ g[8] = s[9] \o g[9] /\ g[9] = s[10] \o g[10]
      /\ g[10] = s[11] \o g[11] /\ g[11] = s[12] \o g[12]
      /\ Bytes(g[7]) /\ Bytes(g[8]) /\ Bytes(g[9]) /\ Bytes(g[10]) /\ Bytes(g[11]) /\ Bytes(g[12])
  BY DEF HandshakeRests
<1>7. /\ s[7] = <<charset>> /\ s[8] = Digits(status, 2) /\ s[9] = Digits(up, 2) /\ s[10] = <<len>>
      /\ HandshakeSegs(h, s)
  BY <1>3, <1>4, <1>5 DEF HandshakeRests, HandshakeSegs
<1>8. Carried(c1, s[7], charset) /\ Carried(c4, s[10], len)
  BY <1>1, <1>7, ByteCarried DEF Bytes, Carried
<1>9. Carried(c2, s[8], status) /\ Carried(c3, s[9], up)
  BY <1>1, <1>7, WordCarried DEF Carried
<1>10. Carried(c5, s[11], s[11])
  <2>1. 11 \in 1..13
    OBVIOUS
  <2>2. Bytes(s[11]) /\ Len(s[11]) = Reserved
    BY <1>7, <2>1, HandshakeBytes
  <2>3. PICK seg \in Seq(Nat) : seg = s[11] /\ Len(seg) = Reserved
    BY <2>2 DEF Bytes
  <2>4. \A field, z : Carries(Buffer(Reserved, field), seg, seg, z)
    BY <2>3, BufferCarried
  <2>5. QED BY <1>1, <2>2, <2>3, <2>4 DEF Carried
<1>11. PICK r1 : r1 = Read(r0, c1) /\ Ready(r1, s[8] \o g[8]) /\ r1.out = Put(r0.out, "server_charset", charset)
  BY <1>2, <1>6, <1>8, Stepped
<1>12. PICK r2 : r2 = Read(r1, c2) /\ Ready(r2, s[9] \o g[9]) /\ r2.out = Put(r1.out, "server_status", status)
  BY <1>2, <1>6, <1>9, <1>11, Stepped
<1>13. PICK r3 : r3 = Read(r2, c3) /\ Ready(r3, s[10] \o g[10]) /\ r3.out = Put(r2.out, "upper", up)
  BY <1>2, <1>6, <1>9, <1>12, Stepped
<1>14. PICK r4 : r4 = Read(r3, c4) /\ Ready(r4, s[11] \o g[11]) /\ r4.out = Put(r3.out, "auth_data_len", len)
  BY <1>2, <1>6, <1>8, <1>13, Stepped
<1>15. PICK r5 : r5 = Read(r4, c5) /\ Ready(r5, s[12] \o g[12]) /\ r5.out = r4.out
  BY <1>2, <1>6, <1>10, <1>14, SkipStepped
<1>16. HeadRead(r1.out, h) /\ Has(r1.out, "server_charset", charset)
  BY <1>11, HeadKept, PutHas
<1>17. HeadRead(r2.out, h) /\ Has(r2.out, "server_charset", charset) /\ Has(r2.out, "server_status", status)
  BY <1>12, <1>16, HeadKept, PutHas
<1>18. ScrambleRead(r3.out, h)
  <2>1. /\ HeadRead(r3.out, h) /\ Has(r3.out, "server_charset", charset) /\ Has(r3.out, "server_status", status)
        /\ Has(r3.out, "upper", up)
    BY <1>13, <1>17, HeadKept, PutHas
  <2>2. QED BY <1>3, <2>1 DEF ScrambleRead
<1>19. ScrambleRead(r4.out, h) /\ Has(r4.out, "auth_data_len", len)
  BY <1>14, <1>18, ScrambleKept, PutHas
<1>20. /\ Secure(r4.out) <=> SecureConnection \in h.flags
       /\ Plugin(r4.out) <=> PluginAuth \in h.flags
       /\ r4.out.auth_data_len = len /\ r4.rc = "OK" /\ r5.rc = "OK"
  <2>1. Has(r4.out, "lower", Lower(h.flags)) /\ Has(r4.out, "upper", Upper(h.flags))
    BY <1>19 DEF ScrambleRead, HeadRead
  <2>2. QED BY <1>14, <1>15, <1>19, <2>1, FlagsRead DEF Ready, Has
<1> DEFINE first == Refuse(Fields(r0, <<c1, c2, c3, c4>>), "PROTOCOL_VIOLATION",
                           LAMBDA out : ~Plugin(out) /\ out.auth_data_len # 0)
           second == Refuse(Read(first, c5), "PROTOCOL_VIOLATION",
                            LAMBDA out : ~Secure(out) \/ out.auth_data_len <= HeadLen \/ out.auth_data_len # ScrambleLen + 1)
<1>21. first = r4
  <2>1. Fields(r0, <<c1, c2, c3, c4>>) = r4
    BY <1>11, <1>12, <1>13, <1>14, FieldsFour
  <2>2. ~(~Plugin(r4.out) /\ r4.out.auth_data_len # 0)
    BY <1>5, <1>20
  <2>3. QED BY <2>1, <2>2 DEF Refuse
<1> DEFINE wrong == ~Secure(r5.out) \/ r5.out.auth_data_len <= HeadLen \/ r5.out.auth_data_len # ScrambleLen + 1
<1>22. second = IF wrong THEN Fail(r5, "PROTOCOL_VIOLATION") ELSE r5
  BY <1>15, <1>20, <1>21 DEF Refuse
<1>23. wrong <=> ~(SecureConnection \in h.flags /\ PluginAuth \in h.flags)
  BY <1>4, <1>5, <1>15, <1>20
<1>24. HandshakeScramble(r0) = IF second.rc = "OK" THEN Read(second, Buffer(second.out.auth_data_len - HeadLen, "tail")) ELSE second
  BY <1>1 DEF HandshakeScramble, Then
<1>25. CASE ~(SecureConnection \in h.flags /\ PluginAuth \in h.flags)
  <2>1. PICK u : u = Fail(r5, "PROTOCOL_VIOLATION") /\ u.rc = "PROTOCOL_VIOLATION"
    BY <1>15, FailCode
  <2>2. second = u
    BY <1>22, <1>23, <1>25, <2>1
  <2> HIDE DEF first, second
  <2>3. HandshakeScramble(r0) = u
    BY <1>24, <2>1, <2>2
  <2>4. QED BY <1>25, <2>1, <2>3
<1>26. CASE SecureConnection \in h.flags /\ PluginAuth \in h.flags
  <2>1. second = r5
    BY <1>22, <1>23, <1>26
  <2>2. Buffer(r5.out.auth_data_len - HeadLen, "tail") = c6
    <3>1. r5.out.auth_data_len = ScrambleLen + 1
      BY <1>4, <1>5, <1>15, <1>20, <1>26
    <3>2. QED BY <1>1, <3>1
  <2> HIDE DEF first, second
  <2>3. HandshakeScramble(r0) = Read(r5, c6)
    BY <1>20, <1>24, <2>1, <2>2
  <2>4. PICK tail : tail = SubSeq(h.scramble, HeadLen + 1, Len(h.scramble)) /\ s[12] = tail
    BY <1>7, <1>26 DEF HandshakeSegs
  <2>5. Carried(c6, s[12], tail)
    <3>1. 12 \in 1..13
      OBVIOUS
    <3>2. Bytes(s[12]) /\ Len(s[12]) = (ScrambleLen + 1) - HeadLen
      BY <1>7, <1>26, <3>1, HandshakeBytes
    <3>3. PICK seg, n : seg \in Seq(Nat) /\ seg = s[12] /\ n = (ScrambleLen + 1) - HeadLen /\ Len(seg) = n
      BY <3>2 DEF Bytes
    <3>4. \A field, z : Carries(Buffer(n, field), seg, seg, z)
      BY <3>3, BufferCarried
    <3>5. QED BY <1>1, <2>4, <3>2, <3>3, <3>4 DEF Carried
  <2>6. PICK r6 : r6 = Read(r5, c6) /\ Ready(r6, g[12]) /\ r6.out = Put(r5.out, "tail", tail)
    BY <1>2, <1>6, <1>15, <2>5, Stepped
  <2>7. ScrambleRead(r6.out, h) /\ Has(r6.out, "tail", tail)
    BY <1>15, <1>19, <2>6, ScrambleKept, PutHas
  <2>8. QED BY <1>26, <2>3, <2>4, <2>6, <2>7
<1>27. QED BY <1>25, <1>26

LEMMA HandshakeName ==
  ASSUME NEW h, HandshakeMeant(h), NEW s, NEW g, HandshakeRests(h, s, g), NEW r0, Ready(r0, g[12]), ScrambleRead(r0.out, h),
         NEW tail, Has(r0.out, "tail", tail), PluginAuth \in h.flags
  PROVE  LET r == HandshakePlugin(r0)
         IN IF Len(h.plugin) > PluginMax THEN r.rc = "AUTH_PLUGIN_TOO_LONG"
            ELSE /\ Ready(r, g[13]) /\ ScrambleRead(r.out, h) /\ Has(r.out, "tail", tail)
                 /\ Has(r.out, "auth_plugin", h.plugin)
<1>0. PICK c : c = String("auth_plugin")
  OBVIOUS
<1>1. c = String("auth_plugin") /\ c.field = "auth_plugin"
  BY <1>0 DEF String
<1>2. PICK name \in Seq(Nat \ {0}) : name = h.plugin
  BY DEF HandshakeMeant
<1>3. g[12] = s[13] \o g[13] /\ Bytes(g[13]) /\ s[13] = h.plugin \o <<0>>
  BY DEF HandshakeRests, HandshakeSegs
<1>4. Carried(c, s[13], name)
  <2>1. name \o <<0>> \in Seq(Nat) /\ \A field, z : Carries(String(field), name \o <<0>>, name, z)
    BY StringCarried
  <2>2. QED BY <1>1, <1>2, <1>3, <2>1 DEF Bytes, Carried
<1>5. PICK r1 : r1 = Read(r0, c) /\ Ready(r1, g[13]) /\ r1.out = Put(r0.out, "auth_plugin", name)
  BY <1>1, <1>3, <1>4, Stepped
<1>6. ScrambleRead(r1.out, h) /\ Has(r1.out, "tail", tail) /\ Has(r1.out, "auth_plugin", name)
  BY <1>5, ScrambleKept, PutHas
<1>7. Plugin(r0.out)
  <2>1. Has(r0.out, "lower", Lower(h.flags)) /\ Has(r0.out, "upper", Upper(h.flags))
    BY DEF ScrambleRead, HeadRead
  <2>2. QED BY <2>1, FlagsRead
<1>8. r1.rc = "OK" /\ r1.out.auth_plugin = name
  BY <1>5, <1>6 DEF Ready, Has
<1>9. HandshakePlugin(r0) = IF Len(name) > PluginMax THEN Fail(r1, "AUTH_PLUGIN_TOO_LONG") ELSE r1
  BY <1>1, <1>5, <1>7, <1>8 DEF HandshakePlugin, Refuse
<1>10. Fail(r1, "AUTH_PLUGIN_TOO_LONG").rc = "AUTH_PLUGIN_TOO_LONG"
  BY <1>5, FailCode
<1>11. QED BY <1>2, <1>5, <1>6, <1>9, <1>10

(* The client reads a handshake packet as the server sent it, its version    *)
(* cut to the length of its field. It refuses a server without one of the    *)
(* capabilities it needs, whichever that is and wherever the packet is then  *)
(* shorter, and one whose plugin has too long a name.                        *)
THEOREM HandshakeReadsBack ==
  ASSUME NEW h, HandshakeMeant(h)
  PROVE  LET buff == ServerHandshake(h)
             r == ParseHandshake(buff)
         IN /\ buff \in Seq(Nat)
            /\ r.rc = IF h.flags # ClientCapabilities THEN "PROTOCOL_VIOLATION"
                      ELSE IF Len(h.plugin) > PluginMax THEN "AUTH_PLUGIN_TOO_LONG" ELSE "OK"
            /\ r.rc = "OK" =>
                 /\ r.out.server_version = Truncated(h.version, VersionMax) /\ r.out.conn_id = h.id
                 /\ r.out.server_charset = h.charset /\ r.out.server_status = h.status
                 /\ r.out.head = SubSeq(h.scramble, 1, HeadLen)
                 /\ r.out.tail = SubSeq(h.scramble, HeadLen + 1, Len(h.scramble))
                 /\ r.out.auth_plugin = h.plugin
<1>1. PICK s, g, buff : HandshakeRests(h, s, g) /\ buff = ServerHandshake(h) /\ g[0] = buff /\ Bytes(buff)
  <2>1. PICK s, g : HandshakeRests(h, s, g) /\ g[0] = ServerHandshake(h)
    BY HandshakePieces
  <2>2. Bytes(g[0])
    BY <2>1 DEF HandshakeRests
  <2>3. QED BY <2>1, <2>2
<1>2. PICK r0 : r0 = Open(buff, <<>>) /\ Ready(r0, g[0])
  <2>1. PICK b \in Seq(Nat) : b = buff
    BY <1>1 DEF Bytes
  <2>2. Ready(Open(b, <<>>), b)
    BY OpenReady
  <2>3. QED BY <1>1, <2>1, <2>2
<1>3. PICK r1 : /\ r1 = HandshakeCapabilities(HandshakeFiller(HandshakeVersion(r0)))
                /\ IF Protocol41 \in h.flags THEN Ready(r1, g[6])
                   /\ HeadRead(r1.out, h) ELSE r1.rc = "PROTOCOL_VIOLATION"
  BY <1>1, <1>2, HandshakeHead
<1>4. PICK r2, r3, r4, r : /\ r2 = (IF r1.rc = "OK" THEN HandshakeScramble(r1) ELSE r1)
                           /\ r3 = (IF r2.rc = "OK" THEN HandshakePlugin(r2) ELSE r2)
                           /\ r4 = Store(r3, "server_version", Truncated(r3.out.server_version, VersionMax))
                           /\ r = IF r3.rc = "OK" THEN Finish(r4) ELSE r3
  OBVIOUS
<1>5. ParseHandshake(buff) = r
  BY <1>2, <1>3, <1>4 DEF ParseHandshake, Then
<1>6. h.flags = ClientCapabilities <=> Protocol41 \in h.flags /\ SecureConnection \in h.flags
      /\ PluginAuth \in h.flags
  BY DEF HandshakeMeant, ClientCapabilities
<1>7. CASE Protocol41 \notin h.flags
  <2>1. r = r1 /\ r.rc = "PROTOCOL_VIOLATION"
    BY <1>3, <1>4, <1>7
  <2>2. QED BY <1>1, <1>5, <1>6, <1>7, <2>1 DEF Bytes
<1>8. CASE Protocol41 \in h.flags
  <2>1. Ready(r1, g[6]) /\ HeadRead(r1.out, h) /\ r1.rc = "OK"
    BY <1>3, <1>8 DEF Ready
  <2>2. PICK tail : tail = SubSeq(h.scramble, HeadLen + 1, Len(h.scramble))
    OBVIOUS
  <2>3. IF SecureConnection \in h.flags /\ PluginAuth \in h.flags
        THEN Ready(r2, g[12]) /\ ScrambleRead(r2.out, h)
        /\ Has(r2.out, "tail", tail) ELSE r2.rc = "PROTOCOL_VIOLATION"
    BY <1>1, <1>4, <2>1, <2>2, HandshakeTail
  <2>4. CASE ~(SecureConnection \in h.flags /\ PluginAuth \in h.flags)
    <3>1. r = r2 /\ r.rc = "PROTOCOL_VIOLATION"
      BY <1>4, <2>3, <2>4
    <3>2. QED BY <1>1, <1>5, <1>6, <2>4, <3>1 DEF Bytes
  <2>5. CASE SecureConnection \in h.flags /\ PluginAuth \in h.flags
    <3>1. Ready(r2, g[12]) /\ ScrambleRead(r2.out, h) /\ Has(r2.out, "tail", tail) /\ r2.rc = "OK"
      BY <2>3, <2>5 DEF Ready
    <3>2. r3 = HandshakePlugin(r2)
      BY <1>4, <3>1
    <3>3. IF Len(h.plugin) > PluginMax THEN r3.rc = "AUTH_PLUGIN_TOO_LONG"
          ELSE /\ Ready(r3, g[13]) /\ ScrambleRead(r3.out, h) /\ Has(r3.out, "tail", tail)
               /\ Has(r3.out, "auth_plugin", h.plugin)
      BY <1>1, <2>5, <3>1, <3>2, HandshakeName
    <3>4. h.flags = ClientCapabilities
      BY <1>6, <1>8, <2>5
    <3>5. CASE Len(h.plugin) > PluginMax
      <4>1. r = r3 /\ r.rc = "AUTH_PLUGIN_TOO_LONG"
        BY <1>4, <3>3, <3>5
      <4>2. QED BY <1>1, <1>5, <3>4, <3>5, <4>1 DEF Bytes
    <3>6. CASE ~(Len(h.plugin) > PluginMax)
      <4>1. PICK cut : cut = Truncated(h.version, VersionMax)
        OBVIOUS
      <4>2. Ready(r3, g[13]) /\ ScrambleRead(r3.out, h) /\ Has(r3.out, "tail", tail)
            /\ Has(r3.out, "auth_plugin", h.plugin)
        BY <3>3, <3>6
      <4>3. r3.rc = "OK" /\ r3.out.server_version = h.version
        BY <4>2 DEF Ready, ScrambleRead, HeadRead, Has
      <4>4. r4 = Store(r3, "server_version", cut)
        BY <1>4, <4>1, <4>3
      <4>5. Ready(r4, g[13]) /\ r4.out = Put(r3.out, "server_version", cut)
        BY <4>2, <4>4, StoreReady
      <4>6. Len(g[13]) = 0
        BY <1>1 DEF HandshakeRests
      <4>7. Finish(r4) = r4 /\ r4.rc = "OK"
        BY <4>5, <4>6, FinishReady DEF Ready
      <4>8. r = r4
        BY <1>4, <4>3, <4>7
      <4>9. /\ Has(r4.out, "server_version", cut) /\ Has(r4.out, "conn_id", h.id)
            /\ Has(r4.out, "head", SubSeq(h.scramble, 1, HeadLen)) /\ Has(r4.out, "server_charset", h.charset)
            /\ Has(r4.out, "server_status", h.status) /\ Has(r4.out, "tail", tail)
               /\ Has(r4.out, "auth_plugin", h.plugin)
        BY <4>2, <4>5, PutHas DEF ScrambleRead, HeadRead
      <4>10. QED BY <1>1, <1>5, <2>2, <3>4, <3>6, <4>1, <4>7, <4>8, <4>9 DEF Bytes, Has
    <3>7. QED BY <3>5, <3>6
  <2>6. QED BY <2>4, <2>5
<1>9. QED BY <1>7, <1>8

-----------------------------------------------------------------------------
(* Rows of the text protocol.                                                *)

\* NULL, or bytes whose number can be told.
RowValue(v) == v = Null \/ \E data \in Seq(Nat) : Len(data) \in Sizes /\ v = Value(data)

LEMMA RowValueHeld ==
  ASSUME NEW v, RowValue(v)
  PROVE  Held(v)
BY HeldFacts DEF RowValue

LEMMA NullTaken ==
  ASSUME NEW r, NEW rest, Bytes(rest), Ready(r, << NullLeader >> \o rest)
  PROVE  Ready(TextValue(r), rest) /\ TextValue(r).out = Put(r.out, "values", Append(r.out.values, Null))
<1>1. PICK y \in Seq(Nat), b \in Nat : y = rest /\ b = NullLeader
  BY RadixFacts DEF Bytes, NullLeader
<1>2. PICK s : s = GetInt(r, 1) /\ Ready(s, y) /\ s.val = b /\ s.out = r.out
  BY <1>1, ByteReady
<1>3. s.rc = "OK" /\ Good(s, <<>>)
  BY <1>2 DEF Ready
<1>4. PICK u : u = Fail(s, "NULL_VALUE")
  OBVIOUS
<1>5. u.rc = "NULL_VALUE" /\ [u EXCEPT !.rc = "OK"] = s
  BY <1>3, <1>4 DEF Fail, Good, Safe, Parts
<1>6. AfterLeader(s) = u
  <2>1. s.rc = "OK" /\ s.val = NullLeader /\ ~(s.val < NullLeader)
    BY <1>1, <1>2, <1>3
  <2>2. s.val # Leader16 /\ s.val # Leader24 /\ s.val # Leader64
    BY <2>1, RadixFacts DEF NullLeader, Leader16, Leader24, Leader64
  <2>3. QED BY <1>4, <2>1, <2>2 DEF AfterLeader
<1>7. GetLenenc(r) = u
  BY <1>2, <1>6 DEF GetLenenc
<1>8. AfterLength(u) = u
  BY <1>5 DEF AfterLength
<1>9. TextValue(r) = TextField(u)
  BY <1>7, <1>8 DEF TextValue, GetLenencBuffer
<1>10. TextField(u) = Add(s, Null)
  BY <1>5 DEF TextField
<1>11. Add(s, Null) = Store(s, "values", Append(r.out.values, Null))
  BY <1>2 DEF Add
<1>12. QED BY <1>1, <1>2, <1>9, <1>10, <1>11, StoreReady

LEMMA ValueTaken ==
  ASSUME NEW r, NEW v, RowValue(v), NEW rest, Bytes(rest), Ready(r, ColumnBytes(v) \o rest)
  PROVE  Ready(TextValue(r), rest) /\ TextValue(r).out = Put(r.out, "values", Append(r.out.values, v))
<1>1. CASE v = Null
  <2>1. ColumnBytes(v) = <<NullLeader>>
    BY <1>1, HeldFacts DEF ColumnBytes
  <2>2. Ready(r, <<NullLeader>> \o rest)
    BY <2>1
  <2>3. QED BY <1>1, <2>2, NullTaken
<1>2. CASE \E data \in Seq(Nat) : Len(data) \in Sizes /\ v = Value(data)
  <2>1. PICK data \in Seq(Nat) : Len(data) \in Sizes /\ v = Value(data)
    BY <1>2
  <2>2. v.null = FALSE /\ v.data = data
    BY <2>1, HeldFacts
  <2>3. PICK y \in Seq(Nat) : y = rest
    BY DEF Bytes
  <2>4. Ready(r, ServerText(data) \o y)
    BY <2>2, <2>3 DEF ColumnBytes
  <2>5. PICK s : s = GetLenencBuffer(r) /\ Ready(s, y) /\ s.val = data /\ s.out = r.out
    BY <2>1, <2>4, LenencBufferReady
  <2>6. s.rc = "OK"
    BY <2>5 DEF Ready
  <2>7. TextValue(r) = Add(s, v)
    BY <2>1, <2>5, <2>6 DEF TextValue, TextField
  <2>8. Add(s, v) = Store(s, "values", Append(r.out.values, v))
    BY <2>5 DEF Add
  <2>9. QED BY <2>3, <2>5, <2>7, <2>8, StoreReady
<1>3. QED BY <1>1, <1>2 DEF RowValue

\* The first m of the values.
Gathered(q, values, m) == Len(q) = m /\ \A i \in 1..m : q[i] = values[i]

LEMMA GatheredNext ==
  ASSUME NEW S, NEW q \in Seq(S), NEW values, NEW m \in Nat, Gathered(q, values, m), values[m + 1] \in S
  PROVE  Append(q, values[m + 1]) \in Seq(S) /\ Gathered(Append(q, values[m + 1]), values, m + 1)
<1>1. PICK x \in S : x = values[m + 1]
  OBVIOUS
<1>2. Append(q, x) \in Seq(S) /\ Len(Append(q, x)) = m + 1 /\ Append(q, x)[m + 1] = x
      /\ \A i \in 1..m : Append(q, x)[i] = q[i]
  BY DEF Gathered
<1>3. \A i \in 1..(m + 1) : i \in 1..m \/ i = m + 1
  OBVIOUS
<1>4. QED BY <1>1, <1>2, <1>3 DEF Gathered

LEMMA GatheredAll ==
  ASSUME NEW S, NEW q \in Seq(S), NEW values \in Seq(S), Gathered(q, values, Len(values))
  PROVE  q = values
BY DEF Gathered

RowValues == {v \in {Null} \cup {Value(data) : data \in Seq(Nat)} : RowValue(v)}

(* The client reads a row of the text protocol as the server sent it: NULLs, *)
(* and values whose lengths take one byte or more.                           *)
THEOREM RowReadsBack ==
  ASSUME NEW values, NEW n \in Nat \ {0}, values \in Seq(RowValues), Len(values) = n
  PROVE  LET buff == ServerRow(values)
             r == ParseRow(buff, n)
         IN buff \in Seq(Nat) /\ r.rc = "OK" /\ r.out.values = values
<1>1. \A i \in 1..n : RowValue(values[i]) /\ Held(values[i]) /\ values[i] \in RowValues
  <2>1. \A i \in 1..n : values[i] \in RowValues
    OBVIOUS
  <2>2. QED BY <2>1, RowValueHeld DEF RowValues
<1>2. DOMAIN values = 1..n
  OBVIOUS
<1>3. PICK g \in [1..(n + 1) -> Seq(Nat)] :
        g[1] = ServerRow(values) /\ Len(g[n + 1]) = 0 /\ \A i \in 1..n : g[i] = ColumnBytes(values[i]) \o g[i + 1]
  BY <1>1, <1>2, RowBytes
<1>4. PICK buff \in Seq(Nat) : buff = ServerRow(values)
  BY <1>1, <1>2, RowBytes
<1> DEFINE start == Open(buff, [values |-> <<>>])
           f == CHOOSE h : RowRuns(h, start, n)
<1>5. ParseRow(buff, n) = Finish(f[n])
  BY DEF ParseRow, Rounds, RowRuns
<1>6. Ready(start, g[1]) /\ start.out = [values |-> <<>>]
  BY <1>3, <1>4, OpenReady
<1>7. Has(start.out, "values", <<>>)
  BY <1>6 DEF Has
<1> HIDE DEF start
<1>8. RowRuns(f, start, n)
  <2>1. \E h : RowRuns(h, start, n)
    <3>1. PICK h : Runs(h, "row", <<>>, start, n)
      BY RunsExists
    <3>2. RowRuns(h, start, n)
      BY <3>1 DEF Runs, Round, Body, RowRuns
    <3>3. QED BY <3>2
  <2>2. QED BY <2>1
<1> HIDE DEF f
<1>9. f[0] = start /\ \A i \in 1..n : f[i] = IF f[i - 1].rc = "OK" THEN TextValue(f[i - 1]) ELSE f[i - 1]
  <2>1. \A i \in 0..n : f[i] = IF i = 0 THEN start ELSE IF f[i - 1].rc = "OK" THEN TextValue(f[i - 1]) ELSE f[i - 1]
    BY <1>8 DEF RowRuns
  <2>2. 0 \in 0..n /\ \A i \in 1..n : i \in 0..n /\ i # 0
    OBVIOUS
  <2>3. QED BY <2>1, <2>2
<1> DEFINE Taken(m) == Ready(f[m], g[m + 1]) /\ \E q \in Seq(RowValues) : Has(f[m].out, "values", q) /\ Gathered(q, values, m)
           P == {m \in Nat : m <= n => Taken(m)}
<1>10. 0 \in P
  <2>0. \A S : <<>> \in Seq(S) /\ Len(<<>>) = 0
    OBVIOUS
  <2>1. PICK q \in Seq(RowValues) : q = <<>> /\ Len(q) = 0
    BY Zenon, <2>0
  <2>2. Gathered(q, values, 0)
    BY <2>1 DEF Gathered
  <2>3. 0 + 1 = 1
    OBVIOUS
  <2>4. QED BY <1>6, <1>7, <1>9, <2>1, <2>2, <2>3
<1>11. ASSUME NEW m \in Nat, m \in P PROVE m + 1 \in P
  <2> SUFFICES ASSUME m + 1 <= n PROVE Taken(m + 1)
    OBVIOUS
  <2>1. m + 1 \in 1..n /\ (m + 1) - 1 = m /\ m <= n /\ (m + 1) + 1 \in 1..(n + 1)
    OBVIOUS
  <2>2. PICK q \in Seq(RowValues) : Has(f[m].out, "values", q) /\ Gathered(q, values, m)
    BY <1>11, <2>1
  <2>3. Ready(f[m], g[m + 1])
    BY <1>11, <2>1
  <2>4. PICK v, rest : v = values[m + 1] /\ rest = g[(m + 1) + 1]
    OBVIOUS
  <2>5. RowValue(v) /\ v \in RowValues /\ Bytes(rest)
    BY <1>1, <2>1, <2>4 DEF Bytes
  <2>6. Ready(f[m], ColumnBytes(v) \o rest)
    BY <1>3, <2>1, <2>3, <2>4
  <2>7. f[m].rc = "OK"
    BY <2>3 DEF Ready
  <2>8. f[m + 1] = TextValue(f[m])
    BY <1>9, <2>1, <2>7
  <2>9. Ready(f[m + 1], rest) /\ f[m + 1].out = Put(f[m].out, "values", Append(q, v))
    <3>1. Ready(TextValue(f[m]), rest) /\ TextValue(f[m]).out = Put(f[m].out, "values", Append(f[m].out.values, v))
      BY <2>5, <2>6, ValueTaken
    <3>2. f[m].out.values = q
      BY <2>2 DEF Has
    <3>3. QED BY <2>8, <3>1, <3>2
  <2>10. Has(f[m + 1].out, "values", Append(q, v))
    BY <2>9, PutHas
  <2>11. Append(q, v) \in Seq(RowValues) /\ Gathered(Append(q, v), values, m + 1)
    BY <2>2, <2>4, <2>5, GatheredNext
  <2>12. QED BY <2>4, <2>9, <2>10, <2>11
<1>12. Nat \subseteq P
  <2> HIDE DEF P
  <2>1. QED BY <1>10, <1>11, SetInduction
<1>13. Taken(n)
  BY <1>12
<1>14. PICK q \in Seq(RowValues) : Has(f[n].out, "values", q) /\ Gathered(q, values, n)
  BY <1>13
<1>15. q = values
  BY <1>14, GatheredAll
<1>16. Finish(f[n]) = f[n] /\ f[n].rc = "OK"
  <2>1. Ready(f[n], g[n + 1])
    BY <1>13
  <2>2. QED BY <1>3, <2>1, FinishReady DEF Ready
<1>17. ParseRow(buff, n).rc = "OK" /\ ParseRow(buff, n).out.values = values
  BY <1>5, <1>14, <1>15, <1>16 DEF Has
<1>18. QED BY <1>4, <1>17

\* No length starts like an ERR packet; nor does a row.
LEMMA LeaderNotErr ==
  ASSUME NEW n \in Nat
  PROVE  ServerLenenc(n) \in Seq(Nat) /\ Len(ServerLenenc(n)) >= 1 /\ ServerLenenc(n)[1] # PacketErr
<1>1. PICK k \in Nat : k = Radix /\ k >= 16
  BY RadixFacts
<1>2. NullLeader = k - 5 /\ Leader16 = k - 4 /\ Leader24 = k - 3 /\ Leader64 = k - 2 /\ PacketErr = k - 1
  BY <1>1 DEF NullLeader, Leader16, Leader24, Leader64, PacketErr
<1>3. \A x, y, w \in Nat : (<<y>> \o Digits(x, w))[1] = y
  <2> SUFFICES ASSUME NEW x \in Nat, NEW y \in Nat, NEW w \in Nat
               PROVE  (<<y>> \o Digits(x, w))[1] = y
    OBVIOUS
  <2>1. PICK d \in Seq(Nat) : d = Digits(x, w)
    BY DigitsFacts
  <2>2. (<<y>> \o d)[1] = y
    OBVIOUS
  <2>3. QED BY <2>1, <2>2
<1>4. CASE n < NullLeader
  <2>1. ServerLenenc(n) = <<n>>
    BY <1>4, LenencFacts
  <2>2. <<n>>[1] = n
    OBVIOUS
  <2>3. QED BY <1>1, <1>2, <1>4, <2>1, <2>2, LenencFacts
<1>5. CASE ~(n < NullLeader)
  <2>1. PICK y \in {Leader16, Leader24, Leader64}, w \in {2, 3, 8} : ServerLenenc(n) = <<y>> \o Digits(n, w)
    <3>1. PICK x1, x2, x3 \in Int : x1 = NullLeader /\ x2 = Radix^2 /\ x3 = Radix^3
      BY <1>1, <1>2, Places
    <3>2. (n >= NullLeader /\ n < Radix^2) \/ (n >= Radix^2 /\ n < Radix^3) \/ n >= Radix^3
      BY <1>5, <3>1
    <3>3. \/ ServerLenenc(n) = <<Leader16>> \o Digits(n, 2)
          \/ ServerLenenc(n) = <<Leader24>> \o Digits(n, 3)
          \/ ServerLenenc(n) = <<Leader64>> \o Digits(n, 8)
      BY <3>2, LenencFacts
    <3>4. QED BY <3>3
  <2>2. y \in Nat /\ w \in Nat /\ y # PacketErr
    BY <1>1, <1>2
  <2>3. ServerLenenc(n)[1] = y
    BY <1>3, <2>1, <2>2
  <2>4. PICK a \in Seq(Nat) : a = ServerLenenc(n) /\ Len(a) \in 1..9
    BY LenencFacts
  <2>5. Len(a) >= 1
    <3>1. PICK l \in 1..9 : l = Len(a)
      BY <2>4
    <3>2. QED BY <3>1
  <2>6. QED BY <2>2, <2>3, <2>4, <2>5
<1>6. QED BY <1>4, <1>5

LEMMA ValueNotErr ==
  ASSUME NEW v, RowValue(v)
  PROVE  Bytes(ColumnBytes(v)) /\ Len(ColumnBytes(v)) >= 1 /\ ColumnBytes(v)[1] # PacketErr
<1>1. Bytes(ColumnBytes(v)) /\ Len(ColumnBytes(v)) >= 1
  BY RowValueHeld, ColumnFacts DEF Bytes
<1>2. CASE v = Null
  <2>1. ColumnBytes(v) = <<NullLeader>>
    BY <1>2, HeldFacts DEF ColumnBytes
  <2>2. NullLeader # PacketErr
    BY RadixFacts DEF NullLeader, PacketErr
  <2>3. QED BY <1>1, <2>1, <2>2
<1>3. CASE \E data \in Seq(Nat) : v = Value(data)
  <2>1. PICK data \in Seq(Nat) : v = Value(data)
    BY <1>3
  <2>2. PICK n \in Nat : n = Len(data)
    OBVIOUS
  <2>3. PICK a \in Seq(Nat) : a = ServerLenenc(n) /\ Len(a) >= 1 /\ a[1] # PacketErr
    BY LeaderNotErr
  <2>4. ColumnBytes(v) = a \o data
    BY <2>1, <2>2, <2>3, HeldFacts, TextFacts DEF ColumnBytes
  <2>5. PICK l \in Nat : l = Len(a) /\ l >= 1
    BY <2>3
  <2>6. (a \o data)[1] = a[1]
    <3>1. 1 \in 1..l
      BY <2>5
    <3>2. \A i \in 1..Len(a) : (a \o data)[i] = a[i]
      BY JoinAt
    <3>3. QED BY <2>5, <3>1, <3>2
  <2>7. QED BY <1>1, <2>3, <2>4, <2>6
<1>4. QED BY <1>2, <1>3 DEF RowValue

LEMMA RowIsRow ==
  ASSUME NEW values, NEW n \in Nat \ {0}, values \in Seq(RowValues), Len(values) = n, NEW first, NEW caps, NEW row
  PROVE  RowOutcome(first, ServerRow(values), caps, row) = row
<1>1. \A i \in 1..n : RowValue(values[i]) /\ Held(values[i])
  <2>1. \A i \in 1..n : values[i] \in RowValues
    OBVIOUS
  <2>2. QED BY <2>1, RowValueHeld DEF RowValues
<1>2. DOMAIN values = 1..n
  OBVIOUS
<1>0. PICK g \in [1..(n + 1) -> Seq(Nat)] :
        g[1] = ServerRow(values) /\ Len(g[n + 1]) = 0 /\ \A i \in 1..n : g[i] = ColumnBytes(values[i]) \o g[i + 1]
  BY <1>1, <1>2, RowBytes
<1>11. PICK buff \in Seq(Nat) : buff = ServerRow(values) /\ ~EndsRows(PacketType(first, buff), Len(buff))
  BY <1>1, <1>2, RowBytes
<1>3. /\ buff = ServerRow(values) /\ ~EndsRows(PacketType(first, buff), Len(buff))
      /\ g[1] = buff /\ \A i \in 1..n : g[i] = ColumnBytes(values[i]) \o g[i + 1]
  BY <1>0, <1>11
<1>4. 1 \in 1..n /\ 1 + 1 \in 1..(n + 1)
  OBVIOUS
<1>5. PICK a, b \in Seq(Nat) : a = ColumnBytes(values[1]) /\ b = g[1 + 1] /\ buff = a \o b /\ Len(a) >= 1 /\ a[1] # PacketErr
  <2>1. Bytes(ColumnBytes(values[1])) /\ Len(ColumnBytes(values[1])) >= 1 /\ ColumnBytes(values[1])[1] # PacketErr
    BY <1>1, <1>4, ValueNotErr
  <2>2. buff = ColumnBytes(values[1]) \o g[1 + 1] /\ g[1 + 1] \in Seq(Nat)
    BY <1>3, <1>4
  <2>3. QED BY <2>1, <2>2 DEF Bytes
<1>6. PICK l, m \in Nat : l = Len(a) /\ m = Len(b) /\ l >= 1
  BY <1>5
<1>7. Len(buff) = l + m /\ buff[1] = a[1]
  <2>1. 1 \in 1..l
    BY <1>6
  <2>2. Len(a \o b) = Len(a) + Len(b) /\ \A i \in 1..Len(a) : (a \o b)[i] = a[i]
    BY JoinAt
  <2>3. QED BY <1>5, <1>6, <2>1, <2>2
<1>8. buff # <<>>
  BY <1>6, <1>7
<1>9. PacketType(first, buff) # PacketErr
  BY <1>5, <1>7, <1>8 DEF PacketType
<1>10. QED BY <1>3, <1>9 DEF RowOutcome

\* The first byte of two pieces.
LEMMA FirstOfTwo ==
  ASSUME NEW a, NEW x, Bytes(a), Bytes(x), Len(a) = 1
  PROVE  (a \o x)[1] = a[1] /\ a \o x # <<>>
<1>1. a \in Seq(Nat) /\ x \in Seq(Nat)
  BY Zenon DEF Bytes
<1>2. 1 \in 1..Len(a)
  OBVIOUS
<1>3. Len(a \o x) = Len(a) + Len(x) /\ \A i \in 1..Len(a) : (a \o x)[i] = a[i]
  BY Zenon, <1>1, JoinAt
<1>4. Len(x) \in Nat
  BY <1>1
<1>5. PICK l : l = Len(a \o x) /\ l # 0
  BY <1>3, <1>4
<1>6. a \o x # <<>>
  <2>1. Len(<<>>) = 0
    OBVIOUS
  <2>2. QED BY Zenon, <1>5, <2>1
<1>7. QED BY Zenon, <1>2, <1>3, <1>6

\* An ERR packet in place of a row is read as such.
LEMMA ErrFirst ==
  ASSUME NEW caps, NEW e, ErrMeant(e)
  PROVE  ServerErr(caps, e) # <<>> /\ ServerErr(caps, e)[1] = PacketErr
<1>1. PICK y \in Nat : y = PacketErr
  BY RadixFacts DEF PacketErr
<1>2. PICK b : b = Digits(e.code, 2) /\ Bytes(b)
  <2>1. PICK b \in Seq(Nat) : b = Digits(e.code, 2)
    BY WordFacts DEF ErrMeant
  <2>2. QED BY Zenon, <2>1 DEF Bytes
<1>3. PICK c : c = (IF "PROTOCOL_41" \in caps THEN <<e.marker>> \o e.state ELSE <<>>) /\ Bytes(c)
  <2>1. PICK marker \in Nat, state \in Seq(Nat) : marker = e.marker /\ state = e.state
    BY DEF ErrMeant
  <2>2. <<marker>> \o state \in Seq(Nat) /\ <<>> \in Seq(Nat)
    OBVIOUS
  <2>3. QED BY <2>1, <2>2 DEF Bytes
<1>4. PICK d : d = e.message /\ Bytes(d)
  BY DEF ErrMeant, Bytes
<1>5. PICK a : a = <<y>> /\ Bytes(a) /\ Len(a) = 1 /\ a[1] = y
  <2>1. <<y>> \in Seq(Nat) /\ Len(<<y>>) = 1 /\ <<y>>[1] = y
    OBVIOUS
  <2>2. QED BY <2>1 DEF Bytes
<1>6. ServerErr(caps, e) = ((a \o b) \o c) \o d
  BY <1>1, <1>2, <1>3, <1>4, <1>5 DEF ServerErr
<1>7. PICK x : ((a \o b) \o c) \o d = a \o x /\ Bytes(x)
  <2>1. Bytes(a) /\ Bytes(b) /\ Bytes(c) /\ Bytes(d)
    BY Zenon, <1>2, <1>3, <1>4, <1>5
  <2>2. ((a \o b) \o c) \o d = a \o (b \o (c \o d)) /\ Bytes(c \o d) /\ Bytes(b \o (c \o d))
    BY <2>1, ThreeBefore
  <2>3. QED BY Zenon, <2>2
<1>8. (a \o x)[1] = a[1] /\ a \o x # <<>>
  BY Zenon, <1>5, <1>7, FirstOfTwo
<1>9. QED BY Zenon, <1>1, <1>5, <1>6, <1>7, <1>8

LEMMA ErrForRow ==
  ASSUME NEW caps, NEW e, ErrMeant(e), NEW first, NEW row
  PROVE  LET r == RowOutcome(first, ServerErr(caps, e), caps, row)
         IN r.rc = "ERR" /\ r.out.error_code = e.code /\ r.out.error_message = e.message
<1>0. PICK buff \in Seq(Nat) : buff = ServerErr(caps, e)
  BY ErrReadsBack
<1>1. PICK r : buff = ServerErr(caps, e) /\ r = ParseErr(buff, caps) /\ r.rc = "OK"
  BY <1>0, ErrReadsBack
<1>2. r.out.error_code = e.code /\ r.out.error_message = e.message
  BY <1>1, ErrReadsBack
<1>3. PacketType(first, buff) = PacketErr
  BY <1>1, ErrFirst DEF PacketType
<1>4. PacketErr # PacketEof
  BY RadixFacts DEF PacketErr, PacketEof
<1>5. ~EndsRows(PacketType(first, buff), Len(buff))
  BY <1>3, <1>4 DEF EndsRows
<1>6. RowOutcome(first, buff, caps, row) = [r EXCEPT !.rc = "ERR"]
  BY <1>1, <1>3, <1>5 DEF RowOutcome, Then
<1>7. Good(r, <<>>)
  BY <1>1, ErrPacketGood
<1>8. [r EXCEPT !.rc = "ERR"].rc = "ERR" /\ [r EXCEPT !.rc = "ERR"].out = r.out
  BY <1>7 DEF Good, Safe, Parts
<1>9. QED BY <1>1, <1>2, <1>6, <1>8

-----------------------------------------------------------------------------
(* GTIDs that are kept, and rows of one value or two.                        *)

\* The GTID an OK packet leaves behind fits the connection, or is one too long.
LEMMA LastShort ==
  ASSUME NEW changes, NEW n \in Nat, \A i \in 1..n : Tellable(changes[i]) /\ ~TooLong(changes[i])
  PROVE  LastOf(changes, n) \in Seq(Nat) /\ Len(LastOf(changes, n)) <= GtidMax
<1>0. GtidMax \in Nat
  BY ProtocolAssumption
<1> DEFINE Short(x) == x \in Seq(Nat) /\ Len(x) <= GtidMax
           P == {m \in Nat : m <= n => Short(LastOf(changes, m))}
<1>1. 0 \in P
  <2>1. <<>> \in Seq(Nat) /\ Len(<<>>) = 0 /\ 0 <= GtidMax
    BY <1>0
  <2>2. LastOf(changes, 0) = <<>>
    BY LastOfStep
  <2>3. QED BY <2>1, <2>2
<1>2. ASSUME NEW m \in Nat, m \in P PROVE m + 1 \in P
  <2> SUFFICES ASSUME m + 1 <= n PROVE Short(LastOf(changes, m + 1))
    OBVIOUS
  <2>1. m + 1 \in 1..n /\ m <= n
    OBVIOUS
  <2>2. Short(LastOf(changes, m))
    BY <1>2, <2>1
  <2>3. CASE changes[m + 1].type = Gtids
    <3>1. changes[m + 1].data \in Seq(Nat) /\ ~(Len(changes[m + 1].data) > GtidMax)
      BY <2>1, <2>3 DEF Tellable, TooLong
    <3>2. PICK x \in Seq(Nat), k \in Nat : x = changes[m + 1].data /\ k = Len(x)
      BY <3>1
    <3>3. k <= GtidMax
      BY <1>0, <3>1, <3>2
    <3>4. LastOf(changes, m + 1) = x
      BY <2>3, <3>2, LastOfStep
    <3>5. QED BY <3>2, <3>3, <3>4
  <2>4. CASE changes[m + 1].type # Gtids
    BY <2>2, <2>4, LastOfStep
  <2>5. QED BY <2>3, <2>4
<1>3. Nat \subseteq P
  <2> HIDE DEF P
  <2>1. QED BY <1>1, <1>2, SetInduction
<1>4. QED BY <1>3

\* Rows of one value or two.
LEMMA PairOfValues ==
  ASSUME NEW v \in RowValues, NEW w \in RowValues, NEW values, values = <<v>> \/ values = <<v, w>>
  PROVE  values \in Seq(RowValues) /\ Len(values) \in Nat \ {0}
<1>1. CASE values = <<v>>
  BY <1>1
<1>2. CASE values = <<v, w>>
  BY <1>2
<1>3. QED BY <1>1, <1>2

=============================================================================
