---------------------------- MODULE Conn_proofs ----------------------------
(***************************************************************************)
(* Proofs about Conn, for any commands, any number of commands, fragments, *)
(* columns, rows and results, any faults and a sequence byte of any width. *)
(*                                                                         *)
(* The argument reads the packets on the way, and those the server has     *)
(* still to send, as the run of a grammar: what the caller expects next,   *)
(* and what after each packet. As long as nothing has happened that the    *)
(* code does not bear, the call it is in and its own variables (columns,   *)
(* rows, started_reading_rows, server status) agree with where that run    *)
(* starts.                                                                 *)
(***************************************************************************)
EXTENDS Conn, SequenceTheorems, WellFoundedInduction, TLAPS

-----------------------------------------------------------------------------
(* Numbers and sequences.                                                   *)

\* The order of the natural numbers, as a set of pairs.
Lt == {ss \in Nat \X Nat : ss[1] < ss[2]}

\* The order of the natural numbers is well-founded.
LEMMA LtWellFounded == IsWellFoundedOn(Lt, Nat)
  BY NatLessThanWellFounded, SMT DEF OpToRel, Lt

\* Induction, for a set of numbers.
LEMMA SetInduction ==
  ASSUME NEW S, 0 \in S, \A n \in Nat : n \in S => n + 1 \in S
  PROVE  Nat \subseteq S
<1> SUFFICES ASSUME Nat \ S # {} PROVE FALSE
  OBVIOUS
<1>1. \E x \in Nat \ S : \A y \in Nat \ S : ~ (<<y, x>> \in Lt)
  BY LtWellFounded, WFMin
<1>2. PICK x \in Nat \ S : \A y \in Nat \ S : ~ (<<y, x>> \in Lt)
  BY <1>1
<1>3. x # 0 /\ x - 1 \in Nat /\ (x - 1) + 1 = x
  BY <1>2
<1>4. <<x - 1, x>> \in Lt
  BY <1>3, <1>2 DEF Lt
<1>5. QED BY <1>2, <1>3, <1>4

\* FlattenSeq's function: the first sequence, then one more at a time.
Flattens(f, q, n) ==
  f = [i \in 1..n |-> IF i = 1 THEN q[i] ELSE f[i - 1] \o q[i]]

\* There is one.
LEMMA FlattenExists ==
  ASSUME NEW q, NEW n \in Nat
  PROVE  \E f : Flattens(f, q, n)
<1> DEFINE M == {m \in Nat : \E f : Flattens(f, q, m)}
<1>1. 0 \in M
  <2>1. 1..0 = {}
    OBVIOUS
  <2> DEFINE f == [i \in {} |-> i]
  <2>2. f = [i \in {} |-> IF i = 1 THEN q[i] ELSE f[i - 1] \o q[i]]
    OBVIOUS
  <2>3. Flattens(f, q, 0)
    BY <2>1, <2>2 DEF Flattens
  <2>4. QED BY <2>3
<1>2. ASSUME NEW m \in Nat, m \in M PROVE m + 1 \in M
  <2>1. PICK f : Flattens(f, q, m)
    BY <1>2
  <2> DEFINE g == [i \in 1..(m + 1) |-> IF i <= m THEN f[i] ELSE IF i = 1 THEN q[i] ELSE f[m] \o q[i]]
             h == [i \in 1..(m + 1) |-> IF i = 1 THEN q[i] ELSE g[i - 1] \o q[i]]
  <2>2. \A i \in 1..m : f[i] = IF i = 1 THEN q[i] ELSE f[i - 1] \o q[i]
    BY <2>1 DEF Flattens
  <2>3. ASSUME NEW i \in 1..(m + 1) PROVE g[i] = h[i]
    <3>1. CASE i <= m
      <4>1. i \in 1..m /\ (i # 1 => i - 1 \in 1..(m + 1) /\ i - 1 <= m)
        BY <3>1
      <4>2. g[i] = f[i] /\ (i # 1 => g[i - 1] = f[i - 1])
        BY <3>1, <4>1
      <4>3. QED BY <2>2, <4>1, <4>2
    <3>2. CASE i = m + 1 /\ i # 1
      <4>1. i - 1 = m /\ m \in 1..(m + 1) /\ m <= m /\ ~(i <= m)
        BY <3>2
      <4>2. g[m] = f[m]
        BY <4>1
      <4>3. g[i] = f[m] \o q[i]
        BY <4>1, <3>2
      <4>4. QED BY <4>1, <4>2, <4>3, <3>2
    <3>3. CASE i = m + 1 /\ i = 1
      BY <3>3
    <3>4. QED BY <3>1, <3>2, <3>3
  <2>4. g = h
    <3> HIDE DEF g
    <3>1. DOMAIN g = 1..(m + 1) /\ g = [i \in DOMAIN g |-> g[i]]
      BY DEF g
    <3>2. QED BY <2>3, <3>1
  <2>5. Flattens(g, q, m + 1)
    <3> HIDE DEF g
    <3>1. QED BY <2>4 DEF Flattens
  <2> HIDE DEF g
  <2>6. QED BY <2>5
<1>3. Nat \subseteq M
  <2> HIDE DEF M
  <2>1. QED BY <1>1, <1>2, SetInduction
<1>4. QED BY <1>3

\* So FlattenSeq does what it says.
LEMMA FlattenFacts ==
  ASSUME NEW S, NEW q \in Seq(Seq(S)), Len(q) > 0
  PROVE  \E f \in [1..Len(q) -> Seq(S)] :
           /\ FlattenSeq(q) = f[Len(q)]
           /\ f[1] = q[1]
           /\ \A i \in 2..Len(q) : f[i] = f[i - 1] \o q[i]
<1> DEFINE f == CHOOSE g : Flattens(g, q, Len(q))
<1>1. Len(q) \in Nat /\ \A i \in 1..Len(q) : q[i] \in Seq(S)
  OBVIOUS
<1>2. Flattens(f, q, Len(q))
  BY <1>1, FlattenExists
<1>3. FlattenSeq(q) = f[Len(q)]
  BY DEF FlattenSeq, Flattens
<1> HIDE DEF f
<1>4. \A i \in 1..Len(q) : f[i] = IF i = 1 THEN q[i] ELSE f[i - 1] \o q[i]
  BY <1>2 DEF Flattens
<1> DEFINE M == {m \in Nat : m + 1 \in 1..Len(q) => f[m + 1] \in Seq(S)}
<1>5. 0 \in M
  BY <1>1, <1>4
<1>6. ASSUME NEW m \in Nat, m \in M PROVE m + 1 \in M
  <2> SUFFICES ASSUME (m + 1) + 1 \in 1..Len(q) PROVE f[(m + 1) + 1] \in Seq(S)
    OBVIOUS
  <2>1. m + 1 \in 1..Len(q) /\ ((m + 1) + 1) - 1 = m + 1 /\ (m + 1) + 1 # 1
    BY <1>1
  <2>2. f[(m + 1) + 1] = f[m + 1] \o q[(m + 1) + 1]
    BY <1>4, <2>1
  <2>3. f[m + 1] \in Seq(S) /\ q[(m + 1) + 1] \in Seq(S)
    BY <1>6, <2>1, <1>1
  <2>4. QED BY <2>2, <2>3
<1>7. Nat \subseteq M
  <2> HIDE DEF M
  <2>1. QED BY <1>5, <1>6, SetInduction
<1>8. \A i \in 1..Len(q) : f[i] \in Seq(S)
  <2>1. \A i \in 1..Len(q) : i - 1 \in Nat /\ (i - 1) + 1 = i
    BY <1>1
  <2>2. QED BY <1>7, <2>1
<1>9. f \in [1..Len(q) -> Seq(S)]
  <2>1. DOMAIN f = 1..Len(q) /\ f = [i \in 1..Len(q) |-> f[i]]
    BY <1>2 DEF Flattens
  <2>2. QED BY <1>8, <2>1
<1>10. f[1] = q[1]
  BY <1>1, <1>4
<1>11. \A i \in 2..Len(q) : f[i] = f[i - 1] \o q[i]
  <2>1. \A i \in 2..Len(q) : i \in 1..Len(q) /\ i # 1
    BY <1>1
  <2>2. QED BY <1>4, <2>1
<1>12. QED BY <1>3, <1>9, <1>10, <1>11

\* x holds the m bytes of a, then those of d.
Joined(x, a, d, m) ==
  /\ Len(x) = m + Len(d)
  /\ \A j \in 1..m : x[j] = a[j]
  /\ \A j \in 1..Len(d) : x[m + j] = d[j]

\* What a concatenation holds.
LEMMA Concat ==
  ASSUME NEW S, NEW a \in Seq(S), NEW d \in Seq(S), NEW m, Len(a) = m
  PROVE  m \in Nat /\ Len(d) \in Nat /\ a \o d \in Seq(S) /\ Joined(a \o d, a, d, m)
<1>0. m \in Nat
  OBVIOUS
<1>1. /\ a \o d \in Seq(S) /\ Len(a \o d) = m + Len(d) /\ Len(d) \in Nat
      /\ \A i \in 1..(m + Len(d)) : (a \o d)[i] = IF i <= m THEN a[i] ELSE d[i - m]
  <2>1. a \o d \in Seq(S) /\ Len(a \o d) = Len(a) + Len(d) /\ Len(d) \in Nat
    OBVIOUS
  <2>2. \A i \in 1 .. Len(a) + Len(d) : (a \o d)[i] = IF i <= Len(a) THEN a[i] ELSE d[i - Len(a)]
    BY ConcatProperties
  <2>3. QED BY <2>1, <2>2
<1>2. ASSUME NEW j \in 1..m PROVE (a \o d)[j] = a[j]
  <2>1. j \in 1..(m + Len(d)) /\ j <= m
    BY <1>0, <1>1
  <2>2. QED BY <1>1, <2>1
<1>3. ASSUME NEW j \in 1..Len(d) PROVE (a \o d)[m + j] = d[j]
  <2>1. m + j \in 1..(m + Len(d)) /\ ~(m + j <= m) /\ (m + j) - m = j
    BY <1>0, <1>1
  <2>2. QED BY <1>1, <2>1
<1>4. QED BY <1>0, <1>1, <1>2, <1>3 DEF Joined

-----------------------------------------------------------------------------
(* The grammar of a reply.                                                   *)

Contents == [kind : Kinds, more : BOOLEAN, n : Nat]
Expectations == [at : {"start", "cols", "coleof", "rows", "done"}, k : Nat, m : BOOLEAN]
At(a, k, m) == [at |-> a, k |-> k, m |-> m]

\* The first packet of a reply or of a result, and nothing more.
Start == At("start", 0, FALSE)
Done == At("done", 0, FALSE)

\* k definitions, and then e.
Cols(k, e) == IF k = 0 THEN e ELSE At("cols", k, FALSE)

\* What may come first in reply to o, and what then.
First(o, p, f) ==
  \/ /\ o \in ResultOps
     /\ \/ p.kind = "ok" /\ f = IF p.more THEN Start ELSE Done
        \/ p.kind = "err" /\ f = Done
        \/ p.kind = "head" /\ p.n \in 1..MaxCols /\ f = At("cols", p.n, FALSE)
  \/ /\ o = "prepare"
     /\ \/ p.kind = "err" /\ f = Done
        \/ p.kind = "stmt_ok" /\ p.n \in 0..(2 * MaxCols) /\ f = Cols(p.n, Done)
  \/ /\ o \in Generic /\ f = Done
     /\ p.kind = "ok" \/ p.kind = "err" \/ (o = "set_option" /\ p.kind = "eof")

\* Behind the columns.
Behind(o, d, f) ==
  IF o = "prepare" THEN f = Done
  ELSE IF d THEN \E m \in BOOLEAN : f = At("rows", 0, m)
  ELSE f = At("coleof", 0, FALSE)

\* After k rows, of a result whose last packet has the status m.
AmongRows(o, k, m, p, f) ==
  \/ /\ p.kind = "row" \/ (p.kind = "bigrow" /\ o = "query")
     /\ k < MaxRows /\ f = At("rows", k + 1, m)
  \/ p.kind \in {"eof", "longeof"} /\ p.n = k /\ p.more = m /\ f = IF m THEN Start ELSE Done
  \/ p.kind = "err" /\ f = Done

\* Packet p comes where e is expected, and f is expected then, in a reply to o by
\* a server that has DEPRECATE_EOF or not.
Follows(o, d, e, p, f) ==
  \/ e.at = "start" /\ First(o, p, f)
  \/ e.at = "cols" /\ p.kind = "col" /\ e.k > 1 /\ f = At("cols", e.k - 1, FALSE)
  \/ e.at = "cols" /\ p.kind = "col" /\ e.k = 1 /\ Behind(o, d, f)
  \/ e.at = "coleof" /\ p.kind = "coleof" /\ f = At("rows", 0, p.more)
  \/ e.at = "rows" /\ AmongRows(o, e.k, e.m, p, f)

\* The packets of q lead from e to f.
Leads(o, d, r, e, q, f) ==
  /\ r \in [Nat -> Expectations] /\ r[1] = e /\ r[Len(q) + 1] = f
  /\ \A i \in 1..Len(q) : Follows(o, d, r[i], q[i], r[i + 1])
Serves(o, d, e, q, f) == \E r : Leads(o, d, r, e, q, f)

\* No packet leads nowhere.
LEMMA ServesNothing ==
  ASSUME NEW o, NEW d, NEW e \in Expectations
  PROVE  Serves(o, d, e, <<>>, e)
<1> DEFINE r == [i \in Nat |-> e]
<1>1. Leads(o, d, r, e, <<>>, e)
  BY DEF Leads
<1>2. QED BY <1>1 DEF Serves

\* One packet.
LEMMA ServesOne ==
  ASSUME NEW o, NEW d, NEW e \in Expectations, NEW f \in Expectations, NEW p, Follows(o, d, e, p, f)
  PROVE  Serves(o, d, e, <<p>>, f)
<1> DEFINE r == [i \in Nat |-> IF i = 1 THEN e ELSE f]
           q == <<p>>
<1>1. r \in [Nat -> Expectations] /\ r[1] = e /\ r[2] = f
  OBVIOUS
<1>2. Len(q) = 1 /\ q[1] = p /\ 1 + 1 = 2
  OBVIOUS
<1> HIDE DEF r, q
<1>3. r[Len(q) + 1] = f
  BY <1>1, <1>2
<1>4. ASSUME NEW i \in 1..Len(q) PROVE Follows(o, d, r[i], q[i], r[i + 1])
  <2>1. i = 1
    BY <1>2
  <2>2. r[i] = e /\ q[i] = p /\ r[i + 1] = f
    BY <1>1, <1>2, <2>1
  <2>3. QED BY <2>2
<1>5. Leads(o, d, r, e, q, f)
  BY <1>1, <1>3, <1>4 DEF Leads
<1>6. QED BY <1>5 DEF Serves, q

\* Some packets, and then some more.
LEMMA ServesBoth ==
  ASSUME NEW o, NEW d, NEW S, NEW e, NEW f, NEW g, NEW a \in Seq(S), NEW b \in Seq(S),
         Serves(o, d, e, a, f), Serves(o, d, f, b, g)
  PROVE  Serves(o, d, e, a \o b, g)
<1>1. PICK r : Leads(o, d, r, e, a, f)
  BY DEF Serves
<1>2. PICK s : Leads(o, d, s, f, b, g)
  BY DEF Serves
<1>3. PICK n \in Nat : n = Len(a)
  OBVIOUS
<1>4. PICK m \in Nat : m = Len(b)
  OBVIOUS
<1> DEFINE t == [i \in Nat |-> IF i <= n THEN r[i] ELSE s[i - n]]
           q == a \o b
<1>5. Joined(q, a, b, n)
  BY <1>3, Concat
<1>6. Len(q) = n + m /\ (\A j \in 1..n : q[j] = a[j]) /\ (\A j \in 1..m : q[n + j] = b[j])
  BY <1>4, <1>5 DEF Joined
<1>7. /\ r \in [Nat -> Expectations] /\ r[1] = e /\ r[n + 1] = f
      /\ \A i \in 1..n : Follows(o, d, r[i], a[i], r[i + 1])
  BY <1>1, <1>3 DEF Leads
<1>8. /\ s \in [Nat -> Expectations] /\ s[1] = f /\ s[m + 1] = g
      /\ \A i \in 1..m : Follows(o, d, s[i], b[i], s[i + 1])
  BY <1>2, <1>4 DEF Leads
<1>9. t \in [Nat -> Expectations]
  <2>1. ASSUME NEW i \in Nat PROVE (IF i <= n THEN r[i] ELSE s[i - n]) \in Expectations
    <3>1. CASE i <= n
      BY <1>7, <3>1
    <3>2. CASE ~(i <= n)
      <4>1. i - n \in Nat
        BY <3>2
      <4>2. QED BY <1>8, <3>2, <4>1
    <3>3. QED BY <3>1, <3>2
  <2>2. QED BY <2>1
<1>10. (\A i \in 1..n : t[i] = r[i]) /\ (\A j \in 1..(m + 1) : t[n + j] = s[j])
  <2>1. ASSUME NEW j \in 1..(m + 1) PROVE t[n + j] = s[j]
    <3>1. n + j \in Nat /\ ~(n + j <= n) /\ (n + j) - n = j
      OBVIOUS
    <3>2. QED BY <3>1
  <2>2. QED BY <2>1
<1> HIDE DEF t, q
<1>11. t[n + 1] = f /\ \A i \in 1..(n + 1) : t[i] = r[i]
  <2>1. 1 \in 1..(m + 1)
    OBVIOUS
  <2>2. t[n + 1] = f
    BY <1>8, <1>10, <2>1
  <2>3. ASSUME NEW i \in 1..(n + 1) PROVE t[i] = r[i]
    <3>1. CASE i = n + 1
      BY <3>1, <2>2, <1>7
    <3>2. CASE i # n + 1
      <4>1. i \in 1..n
        BY <3>2
      <4>2. QED BY <4>1, <1>10
    <3>3. QED BY <3>1, <3>2
  <2>4. QED BY <2>2, <2>3
<1>12. ASSUME NEW i \in 1..Len(q) PROVE Follows(o, d, t[i], q[i], t[i + 1])
  <2>1. CASE i <= n
    <3>1. i \in 1..n /\ i \in 1..(n + 1) /\ i + 1 \in 1..(n + 1)
      BY <2>1, <1>6
    <3>2. t[i] = r[i] /\ t[i + 1] = r[i + 1] /\ q[i] = a[i]
      BY <3>1, <1>6, <1>11
    <3>3. QED BY <3>1, <3>2, <1>7
  <2>2. CASE i > n
    <3>1. PICK j \in 1..m : i = n + j
      <4>1. i - n \in 1..m /\ i = n + (i - n)
        BY <2>2, <1>6
      <4>2. QED BY <4>1
    <3>2. j \in 1..(m + 1) /\ j + 1 \in 1..(m + 1) /\ i + 1 = n + (j + 1)
      BY <3>1
    <3>3. t[i] = s[j] /\ t[i + 1] = s[j + 1] /\ q[i] = b[j]
      <4>1. t[n + j] = s[j] /\ t[n + (j + 1)] = s[j + 1]
        BY <3>2, <1>10
      <4>2. QED BY <3>1, <3>2, <4>1, <1>6
    <3>4. QED BY <3>1, <3>3, <1>8
  <2>3. QED BY <2>1, <2>2, <1>6
<1>13. t[1] = e /\ t[Len(q) + 1] = g
  <2>1. 1 \in 1..(n + 1) /\ m + 1 \in 1..(m + 1) /\ Len(q) + 1 = n + (m + 1)
    BY <1>6
  <2>2. t[n + (m + 1)] = s[m + 1]
    BY <2>1, <1>10
  <2>3. QED BY <2>1, <2>2, <1>7, <1>8, <1>11
<1>14. Leads(o, d, t, e, q, g)
  BY <1>9, <1>12, <1>13 DEF Leads
<1>15. QED BY <1>14 DEF Serves, q

\* Several parts, one behind the other.
LEMMA ServesAll ==
  ASSUME NEW o, NEW d, NEW S, NEW q \in Seq(Seq(S)), NEW n \in Nat, n = Len(q),
         NEW e, e[1] \in Expectations,
         \A i \in 1..n : Serves(o, d, e[i], q[i], e[i + 1])
  PROVE  FlattenSeq(q) \in Seq(S) /\ Serves(o, d, e[1], FlattenSeq(q), e[n + 1])
<1>1. CASE n = 0
  <2>1. FlattenSeq(q) = <<>>
    <3>1. q = <<>>
      BY <1>1, EmptySeq
    <3>2. Len(q) = 0
      BY <1>1, EmptySeq
    <3>3. FlattenSeq(q) = q
      BY <3>2 DEF FlattenSeq
    <3>4. QED BY <3>1, <3>3
  <2>2. QED BY <1>1, <2>1, ServesNothing
<1>2. CASE n > 0
  <2>1. PICK f \in [1..n -> Seq(S)] :
          FlattenSeq(q) = f[n] /\ f[1] = q[1] /\ \A i \in 2..n : f[i] = f[i - 1] \o q[i]
    BY <1>2, FlattenFacts
  <2> DEFINE T == {i \in Nat : i + 1 \in 1..n => Serves(o, d, e[1], f[i + 1], e[(i + 1) + 1])}
  <2>2. 0 \in T
    <3>1. 1 \in 1..n /\ 0 + 1 = 1
      BY <1>2
    <3>2. Serves(o, d, e[1], f[1], e[1 + 1])
      BY <2>1, <3>1
    <3>3. QED BY <3>1, <3>2
  <2>3. ASSUME NEW i \in Nat, i \in T PROVE i + 1 \in T
    <3>1. SUFFICES ASSUME (i + 1) + 1 \in 1..n PROVE Serves(o, d, e[1], f[(i + 1) + 1], e[((i + 1) + 1) + 1])
      OBVIOUS
    <3>2. PICK j \in Nat : j = i + 1
      OBVIOUS
    <3>3. j \in 1..n /\ j + 1 \in 1..n /\ j + 1 \in 2..n /\ (j + 1) - 1 = j
      BY <3>1, <3>2
    <3>4. Serves(o, d, e[1], f[j], e[j + 1])
      BY <2>3, <3>2, <3>3
    <3>5. Serves(o, d, e[j + 1], q[j + 1], e[(j + 1) + 1])
      BY <3>3
    <3>6. f[j + 1] = f[j] \o q[j + 1]
      BY <2>1, <3>3
    <3>7. f[j] \in Seq(S) /\ q[j + 1] \in Seq(S)
      <4>1. f[j] \in Seq(S)
        BY <2>1, <3>3
      <4>2. j + 1 \in 1..Len(q)
        BY <3>3
      <4>3. q[j + 1] \in Seq(S)
        BY <4>2
      <4>4. QED BY <4>1, <4>3
    <3>8. Serves(o, d, e[1], f[j + 1], e[(j + 1) + 1])
      BY <3>4, <3>5, <3>6, <3>7, ServesBoth
    <3>9. QED BY <3>2, <3>8
  <2>4. Nat \subseteq T
    <3> HIDE DEF T
    <3>1. QED BY <2>2, <2>3, SetInduction
  <2>5. n - 1 \in Nat /\ (n - 1) + 1 = n /\ n \in 1..n
    BY <1>2
  <2>6. Serves(o, d, e[1], f[n], e[n + 1])
    BY <2>4, <2>5
  <2>7. QED BY <2>1, <2>5, <2>6
<1>3. QED BY <1>1, <1>2

-----------------------------------------------------------------------------
(* What a conforming server replies.                                         *)

\* A packet of the server.
LEMMA OnePacket ==
  ASSUME NEW kind \in Kinds, NEW m \in BOOLEAN, NEW n \in Nat
  PROVE  P(kind, m, n) \in Seq(Contents) /\ P(kind, m, n) = <<[kind |-> kind, more |-> m, n |-> n]>>
<1>1. [kind |-> kind, more |-> m, n |-> n] \in Contents
  BY DEF Contents
<1>2. QED BY <1>1 DEF P

\* It is one step of the grammar.
LEMMA PacketServes ==
  ASSUME NEW o, NEW d, NEW e \in Expectations, NEW f \in Expectations,
         NEW kind \in Kinds, NEW m \in BOOLEAN, NEW n \in Nat,
         Follows(o, d, e, [kind |-> kind, more |-> m, n |-> n], f)
  PROVE  P(kind, m, n) \in Seq(Contents) /\ Serves(o, d, e, P(kind, m, n), f)
<1>1. Serves(o, d, e, <<[kind |-> kind, more |-> m, n |-> n]>>, f)
  BY ServesOne
<1>2. QED BY <1>1, OnePacket

\* The same packet k times.
LEMMA SeveralServe ==
  ASSUME NEW o, NEW d, NEW k \in Nat, NEW x \in Seq(Contents),
         NEW e, e[1] \in Expectations, \A i \in 1..k : Serves(o, d, e[i], x, e[i + 1])
  PROVE  Several(k, x) \in Seq(Contents) /\ Serves(o, d, e[1], Several(k, x), e[k + 1])
<1> DEFINE q == [i \in 1..k |-> x]
<1>1. q \in Seq(Seq(Contents)) /\ Len(q) = k /\ \A i \in 1..k : q[i] = x
  OBVIOUS
<1> HIDE DEF q
<1>2. FlattenSeq(q) \in Seq(Contents) /\ Serves(o, d, e[1], FlattenSeq(q), e[k + 1])
  <2>1. \A i \in 1..k : Serves(o, d, e[i], q[i], e[i + 1])
    BY <1>1
  <2>2. QED BY <1>1, <2>1, ServesAll
<1>3. Several(k, x) = FlattenSeq(q)
  BY DEF Several, q
<1>4. QED BY <1>2, <1>3

\* What Cols and At are.
LEMMA ExpectationFacts ==
  /\ Start \in Expectations /\ Done \in Expectations
  /\ \A k \in Nat, e \in Expectations : Cols(k, e) \in Expectations
  /\ \A k \in Nat, m \in BOOLEAN : At("rows", k, m) \in Expectations
  /\ At("coleof", 0, FALSE) \in Expectations
  BY DEF Start, Done, At, Cols, Expectations

\* k of k + j definitions.
LEMMA ColumnsServe ==
  ASSUME NEW o, NEW d, NEW f \in Expectations, Behind(o, d, f), NEW k \in Nat, NEW j \in Nat
  PROVE  LET q == Several(k, P("col", FALSE, 0))
         IN  q \in Seq(Contents) /\ Serves(o, d, Cols(k + j, f), q, Cols(j, f))
<1> DEFINE x == P("col", FALSE, 0)
           p == [kind |-> "col", more |-> FALSE, n |-> 0]
           e == [i \in 1..(k + 1) |-> Cols((k + j + 1) - i, f)]
<1>1. x \in Seq(Contents) /\ x = <<p>>
  BY OnePacket DEF Kinds
<1>2. ASSUME NEW i \in 1..k PROVE Serves(o, d, e[i], x, e[i + 1])
  <2>1. PICK c \in Nat : c = (k + j + 1) - i
    OBVIOUS
  <2>2. c >= 1 /\ c - 1 \in Nat /\ (k + j + 1) - (i + 1) = c - 1 /\ i \in 1..(k + 1) /\ i + 1 \in 1..(k + 1)
    BY <2>1
  <2>3. e[i] = Cols(c, f) /\ e[i + 1] = Cols(c - 1, f)
    BY <2>1, <2>2
  <2>4. Follows(o, d, Cols(c, f), p, Cols(c - 1, f))
    <3>1. CASE c = 1
      <4> DEFINE a == At("cols", 1, FALSE)
      <4>1. Cols(c, f) = a /\ Cols(c - 1, f) = f
        BY <3>1 DEF Cols
      <4>2. Follows(o, d, a, p, f)
        <5>1. p.kind = "col" /\ a.at = "cols" /\ a.k = 1
          BY DEF At
        <5>2. QED BY <5>1 DEF Follows
      <4> HIDE DEF a, p
      <4>3. QED BY <4>1, <4>2
    <3>2. CASE c > 1
      <4>1. Cols(c, f) = At("cols", c, FALSE) /\ Cols(c - 1, f) = At("cols", c - 1, FALSE)
        <5>1. c # 0 /\ c - 1 # 0
          BY <3>2
        <5>2. QED BY <5>1 DEF Cols
      <4>2. QED BY <3>2, <4>1 DEF Follows, At
    <3>3. QED BY <2>2, <3>1, <3>2
  <2>5. Cols(c, f) \in Expectations /\ Cols(c - 1, f) \in Expectations
    BY <2>2, ExpectationFacts
  <2>6. QED BY <1>1, <2>3, <2>4, <2>5, ServesOne
<1>3. e[1] = Cols(k + j, f) /\ e[k + 1] = Cols(j, f)
  <2>1. 1 \in 1..(k + 1) /\ k + 1 \in 1..(k + 1) /\ (k + j + 1) - 1 = k + j /\ (k + j + 1) - (k + 1) = j
    OBVIOUS
  <2>2. QED BY <2>1
<1>4. e[1] \in Expectations
  BY <1>3, ExpectationFacts
<1> HIDE DEF e
<1>5. Several(k, x) \in Seq(Contents) /\ Serves(o, d, e[1], Several(k, x), e[k + 1])
  BY <1>1, <1>2, <1>4, SeveralServe
<1>6. QED BY <1>3, <1>5

\* k rows.
LEMMA RowsServe ==
  ASSUME NEW o, NEW d, NEW m \in BOOLEAN, NEW k \in 0..MaxRows, MaxRows \in Nat,
         NEW kind \in {"row", "bigrow"}, kind = "row" \/ o = "query"
  PROVE  LET q == Several(k, P(kind, FALSE, 0))
         IN  q \in Seq(Contents) /\ Serves(o, d, At("rows", 0, m), q, At("rows", k, m))
<1> DEFINE x == P(kind, FALSE, 0)
           p == [kind |-> kind, more |-> FALSE, n |-> 0]
           e == [i \in 1..(k + 1) |-> At("rows", i - 1, m)]
<1>0. k \in Nat
  OBVIOUS
<1>1. x \in Seq(Contents) /\ x = <<p>>
  BY OnePacket DEF Kinds
<1>2. ASSUME NEW i \in 1..k PROVE Serves(o, d, e[i], x, e[i + 1])
  <2>1. PICK c \in Nat : c = i - 1
    OBVIOUS
  <2>2. c < MaxRows /\ (i + 1) - 1 = c + 1 /\ i \in 1..(k + 1) /\ i + 1 \in 1..(k + 1)
    BY <2>1
  <2>3. e[i] = At("rows", c, m) /\ e[i + 1] = At("rows", c + 1, m)
    BY <2>1, <2>2
  <2>4. AmongRows(o, c, m, p, At("rows", c + 1, m))
    BY <2>2 DEF AmongRows
  <2>5. Follows(o, d, At("rows", c, m), p, At("rows", c + 1, m))
    BY <2>4 DEF Follows, At
  <2>6. At("rows", c, m) \in Expectations /\ At("rows", c + 1, m) \in Expectations
    BY ExpectationFacts
  <2>7. QED BY <1>1, <2>3, <2>5, <2>6, ServesOne
<1>3. e[1] = At("rows", 0, m) /\ e[k + 1] = At("rows", k, m)
  <2>1. 1 \in 1..(k + 1) /\ k + 1 \in 1..(k + 1) /\ 1 - 1 = 0 /\ (k + 1) - 1 = k
    BY <1>0
  <2>2. QED BY <2>1
<1>4. e[1] \in Expectations
  BY <1>3, ExpectationFacts
<1> HIDE DEF e
<1>5. Several(k, x) \in Seq(Contents) /\ Serves(o, d, e[1], Several(k, x), e[k + 1])
  BY <1>0, <1>1, <1>2, <1>4, SeveralServe
<1>6. QED BY <1>3, <1>5

\* The first packet of a result that has rows.
LEMMA HeadServes ==
  ASSUME NEW o \in ResultOps, NEW d, NEW c \in 1..MaxCols, MaxCols \in Nat, NEW f \in Expectations
  PROVE  P("head", FALSE, c) \in Seq(Contents) /\ Serves(o, d, Start, P("head", FALSE, c), Cols(c, f))
<1> DEFINE p == [kind |-> "head", more |-> FALSE, n |-> c]
           a == At("cols", c, FALSE)
<1>1. c \in Nat /\ c # 0
  OBVIOUS
<1>2. Cols(c, f) = a
  BY <1>1 DEF Cols
<1>3. First(o, p, a)
  BY DEF First
<1>4. Follows(o, d, Start, p, a)
  <2>1. Start.at = "start"
    BY DEF Start, At
  <2> HIDE DEF p, a
  <2>2. QED BY <1>3, <2>1 DEF Follows
<1>5. a \in Expectations /\ Start \in Expectations
  BY <1>1, <1>2, ExpectationFacts
<1>6. "head" \in Kinds
  BY DEF Kinds
<1>7. Serves(o, d, Start, P("head", FALSE, c), a) /\ P("head", FALSE, c) \in Seq(Contents)
  BY <1>1, <1>4, <1>5, <1>6, PacketServes
<1>8. QED BY <1>2, <1>7

\* A result up to its rows, and its rows.
LEMMA TableServes ==
  ASSUME ConnAssumption, NEW o \in ResultOps, deprecate_eof \in BOOLEAN,
         NEW m \in BOOLEAN, NEW c \in 1..MaxCols, NEW r \in 0..MaxRows, NEW kind \in {"row", "bigrow"}
  PROVE  /\ Rows(o, m, c, r, kind) \in Seq(Contents)
         /\ Serves(o, deprecate_eof, Start, Rows(o, m, c, r, kind), At("rows", r, m))
<1> DEFINE d == deprecate_eof
           f == IF d THEN At("rows", 0, m) ELSE At("coleof", 0, FALSE)
           kd == IF o = "query" THEN kind ELSE "row"
           qa == P("head", FALSE, c)
           qb == Several(c, P("col", FALSE, 0))
           qc == IF d THEN <<>> ELSE P("coleof", m, 0)
           qd == Several(r, P(kd, FALSE, 0))
<1>1. c \in Nat /\ r \in Nat /\ MaxRows \in Nat /\ MaxCols \in Nat
  BY DEF ConnAssumption
<1>2. f \in Expectations
  BY ExpectationFacts
<1>3. Behind(o, d, f)
  <2>1. o # "prepare"
    BY DEF ResultOps
  <2>2. QED BY <2>1 DEF Behind
<1>4. qa \in Seq(Contents) /\ Serves(o, d, Start, qa, Cols(c, f))
  BY <1>1, <1>2, HeadServes
<1>5. qb \in Seq(Contents) /\ Serves(o, d, Cols(c, f), qb, f)
  <2>1. 0 \in Nat /\ c + 0 = c /\ Cols(0, f) = f
    BY <1>1 DEF Cols
  <2> HIDE DEF f, d
  <2>2. qb \in Seq(Contents) /\ Serves(o, d, Cols(c + 0, f), qb, Cols(0, f))
    BY <1>1, <1>2, <1>3, <2>1, ColumnsServe
  <2>3. QED BY <2>1, <2>2
<1>6. qc \in Seq(Contents) /\ Serves(o, d, f, qc, At("rows", 0, m))
  <2>1. CASE d
    <3>1. f = At("rows", 0, m)
      BY <2>1
    <3>4. qc = <<>>
      BY <2>1
    <3>2. qc \in Seq(Contents)
      BY <3>4, EmptySeq
    <3>3. QED BY <3>1, <3>4, <3>2, <1>2, ServesNothing
  <2>2. CASE ~d
    <3> DEFINE p == [kind |-> "coleof", more |-> m, n |-> 0]
               a == At("coleof", 0, FALSE)
               b == At("rows", 0, m)
    <3>1. f = a /\ qc = P("coleof", m, 0)
      BY <2>2
    <3>2. Follows(o, d, a, p, b)
      <4>1. a.at = "coleof" /\ p.kind = "coleof" /\ p.more = m
        BY DEF At
      <4>2. b = At("rows", 0, p.more)
        BY <4>1
      <4> HIDE DEF a, b, p
      <4>3. QED BY <4>1, <4>2 DEF Follows
    <3>3. a \in Expectations /\ b \in Expectations /\ "coleof" \in Kinds
      BY <1>1, ExpectationFacts DEF Kinds
    <3>4. 0 \in Nat
      OBVIOUS
    <3>5. P("coleof", m, 0) \in Seq(Contents) /\ Serves(o, d, a, P("coleof", m, 0), b)
      BY <3>2, <3>3, <3>4, PacketServes
    <3>6. QED BY <3>1, <3>5
  <2>3. QED BY <2>1, <2>2
<1>7. qd \in Seq(Contents) /\ Serves(o, d, At("rows", 0, m), qd, At("rows", r, m))
  <2>1. kd \in {"row", "bigrow"} /\ (kd = "row" \/ o = "query")
    OBVIOUS
  <2> HIDE DEF kd, d
  <2>2. QED BY <1>1, <2>1, RowsServe
<1>8. Rows(o, m, c, r, kind) = ((qa \o qb) \o qc) \o qd
  BY DEF Rows
<1> HIDE DEF qa, qb, qc, qd, f, d
<1>9. qa \o qb \in Seq(Contents) /\ Serves(o, d, Start, qa \o qb, f)
  <2>1. qa \o qb \in Seq(Contents)
    BY <1>4, <1>5
  <2>2. Serves(o, d, Start, qa \o qb, f)
    BY <1>4, <1>5, ServesBoth
  <2>3. QED BY <2>1, <2>2
<1>10. (qa \o qb) \o qc \in Seq(Contents) /\ Serves(o, d, Start, (qa \o qb) \o qc, At("rows", 0, m))
  <2>1. (qa \o qb) \o qc \in Seq(Contents)
    BY <1>6, <1>9
  <2>2. Serves(o, d, Start, (qa \o qb) \o qc, At("rows", 0, m))
    BY <1>6, <1>9, ServesBoth
  <2>3. QED BY <2>1, <2>2
<1>11. /\ ((qa \o qb) \o qc) \o qd \in Seq(Contents)
       /\ Serves(o, d, Start, ((qa \o qb) \o qc) \o qd, At("rows", r, m))
  <2>1. ((qa \o qb) \o qc) \o qd \in Seq(Contents)
    BY <1>7, <1>10
  <2>2. Serves(o, d, Start, ((qa \o qb) \o qc) \o qd, At("rows", r, m))
    BY <1>7, <1>10, ServesBoth
  <2>3. QED BY <2>1, <2>2
<1>12. QED BY <1>8, <1>11 DEF d

\* Its last packet, or the error that takes its place.
LEMMA EndServes ==
  ASSUME NEW o, NEW d, NEW m \in BOOLEAN, NEW r \in Nat, NEW end \in {"eof", "longeof"}
  PROVE  /\ P(end, m, r) \in Seq(Contents)
         /\ Serves(o, d, At("rows", r, m), P(end, m, r), IF m THEN Start ELSE Done)
         /\ P("err", FALSE, 0) \in Seq(Contents)
         /\ Serves(o, d, At("rows", r, m), P("err", FALSE, 0), Done)
<1> DEFINE p == [kind |-> end, more |-> m, n |-> r]
           pe == [kind |-> "err", more |-> FALSE, n |-> 0]
           e == At("rows", r, m)
           f == IF m THEN Start ELSE Done
<1>1. e.at = "rows" /\ e.k = r /\ e.m = m
  BY DEF At
<1>2. e \in Expectations /\ f \in Expectations /\ Done \in Expectations
  BY ExpectationFacts
<1>3. end \in Kinds /\ "err" \in Kinds /\ 0 \in Nat
  BY DEF Kinds
<1>4. AmongRows(o, r, m, p, f) /\ AmongRows(o, r, m, pe, Done)
  BY DEF AmongRows
<1> HIDE DEF p, pe, e, f
<1>5. Follows(o, d, e, p, f) /\ Follows(o, d, e, pe, Done)
  BY <1>1, <1>4 DEF Follows
<1>6. P(end, m, r) \in Seq(Contents) /\ Serves(o, d, e, P(end, m, r), f)
  BY <1>2, <1>3, <1>5, PacketServes DEF p
<1>7. P("err", FALSE, 0) \in Seq(Contents) /\ Serves(o, d, e, P("err", FALSE, 0), Done)
  BY <1>2, <1>3, <1>5, PacketServes DEF pe
<1>8. QED BY <1>6, <1>7 DEF e, f

\* A result or an error is also a whole reply to begin with.
LEMMA FirstServes ==
  ASSUME NEW o, NEW d, NEW kind \in Kinds, NEW m \in BOOLEAN, NEW n \in Nat, NEW f \in Expectations,
         First(o, [kind |-> kind, more |-> m, n |-> n], f)
  PROVE  P(kind, m, n) \in Seq(Contents) /\ Serves(o, d, Start, P(kind, m, n), f)
<1> DEFINE p == [kind |-> kind, more |-> m, n |-> n]
<1>1. Start.at = "start" /\ Start \in Expectations
  BY ExpectationFacts DEF Start, At
<1>2. Follows(o, d, Start, p, f)
  <2> HIDE DEF p
  <2>1. First(o, p, f)
    BY DEF p
  <2>2. QED BY <1>1, <2>1 DEF Follows
<1>3. QED BY <1>1, <1>2, PacketServes

\* One complete result.
LEMMA ResultServes ==
  ASSUME ConnAssumption, NEW o \in ResultOps, deprecate_eof \in BOOLEAN, NEW m \in BOOLEAN,
         NEW q \in Result(o, m)
  PROVE  q \in Seq(Contents) /\ Serves(o, deprecate_eof, Start, q, IF m THEN Start ELSE Done)
<1> DEFINE f == IF m THEN Start ELSE Done
           d == deprecate_eof
<1>1. f \in Expectations
  BY ExpectationFacts
<1>2. CASE q = P("ok", m, 0)
  <2>1. First(o, [kind |-> "ok", more |-> m, n |-> 0], f)
    BY DEF First
  <2>2. "ok" \in Kinds /\ 0 \in Nat
    BY DEF Kinds
  <2> HIDE DEF f
  <2>3. P("ok", m, 0) \in Seq(Contents) /\ Serves(o, d, Start, P("ok", m, 0), f)
    BY <1>1, <2>1, <2>2, FirstServes
  <2>4. QED BY <1>2, <2>3 DEF f
<1>3. CASE q # P("ok", m, 0)
  <2>1. PICK s \in Shapes, end \in Ends : q = Rows(o, m, s.c, s.r, s.kind) \o P(end, m, s.r)
    BY <1>3 DEF Result
  <2>9. end \in {"eof", "longeof"}
    BY DEF Ends
  <2>2. s.c \in 1..MaxCols /\ s.r \in 0..MaxRows /\ s.kind \in {"row", "bigrow"} /\ s.r \in Nat
    BY DEF Shapes, ConnAssumption
  <2> DEFINE a == Rows(o, m, s.c, s.r, s.kind)
             b == P(end, m, s.r)
             g == At("rows", s.r, m)
  <2>3. a \in Seq(Contents) /\ Serves(o, d, Start, a, g)
    BY <2>2, TableServes
  <2>4. b \in Seq(Contents) /\ Serves(o, d, g, b, f)
    BY <2>2, <2>9, EndServes
  <2> HIDE DEF a, b, g, f, d
  <2>5. Serves(o, d, Start, a \o b, f)
    BY <2>3, <2>4, ServesBoth
  <2>6. a \o b \in Seq(Contents)
    BY <2>3, <2>4
  <2>7. q = a \o b
    BY <2>1 DEF a, b
  <2>8. QED BY <2>5, <2>6, <2>7 DEF f, d
<1>4. QED BY <1>2, <1>3

\* What ends a reply.
LEMMA LastResultServes ==
  ASSUME ConnAssumption, NEW o \in ResultOps, deprecate_eof \in BOOLEAN, NEW q \in LastResult(o)
  PROVE  q \in Seq(Contents) /\ Serves(o, deprecate_eof, Start, q, Done)
<1> DEFINE d == deprecate_eof
<1>1. CASE q \in Result(o, FALSE)
  <2>1. FALSE \in BOOLEAN
    OBVIOUS
  <2>2. q \in Seq(Contents) /\ Serves(o, deprecate_eof, Start, q, IF FALSE THEN Start ELSE Done)
    BY <1>1, <2>1, ResultServes
  <2>3. QED BY <2>2
<1>2. CASE q = P("err", FALSE, 0)
  <2>1. First(o, [kind |-> "err", more |-> FALSE, n |-> 0], Done)
    BY DEF First
  <2>2. "err" \in Kinds /\ 0 \in Nat /\ FALSE \in BOOLEAN
    BY DEF Kinds
  <2>3. P("err", FALSE, 0) \in Seq(Contents) /\ Serves(o, d, Start, P("err", FALSE, 0), Done)
    BY <2>1, <2>2, FirstServes, ExpectationFacts
  <2>4. QED BY <1>2, <2>3
<1>3. CASE q \notin Result(o, FALSE) /\ q # P("err", FALSE, 0)
  <2>1. PICK s \in Shapes : q = Rows(o, FALSE, s.c, s.r, s.kind) \o P("err", FALSE, 0)
    BY <1>3 DEF LastResult
  <2>2. s.c \in 1..MaxCols /\ s.r \in 0..MaxRows /\ s.kind \in {"row", "bigrow"} /\ s.r \in Nat /\ FALSE \in BOOLEAN
    BY DEF Shapes, ConnAssumption
  <2> DEFINE a == Rows(o, FALSE, s.c, s.r, s.kind)
             b == P("err", FALSE, 0)
             g == At("rows", s.r, FALSE)
  <2>3. a \in Seq(Contents) /\ Serves(o, d, Start, a, g)
    BY <2>2, TableServes
  <2>4. b \in Seq(Contents) /\ Serves(o, d, g, b, Done)
    <3>1. "eof" \in {"eof", "longeof"}
      OBVIOUS
    <3>2. QED BY <2>2, <3>1, EndServes
  <2> HIDE DEF a, b, g, d
  <2>5. Serves(o, d, Start, a \o b, Done)
    BY <2>3, <2>4, ServesBoth
  <2>6. a \o b \in Seq(Contents)
    BY <2>3, <2>4
  <2>7. q = a \o b
    BY <2>1 DEF a, b
  <2>8. QED BY <2>5, <2>6, <2>7 DEF d
<1>4. QED BY <1>1, <1>2, <1>3

\* Several results.
LEMMA ResultsServe ==
  ASSUME ConnAssumption, NEW o \in ResultOps, deprecate_eof \in BOOLEAN,
         NEW n \in Nat, n >= 1, NEW f \in [1..(n - 1) -> Result(o, TRUE)], NEW l \in LastResult(o)
  PROVE  /\ FlattenSeq(Append(f, l)) \in Seq(Contents)
         /\ Serves(o, deprecate_eof, Start, FlattenSeq(Append(f, l)), Done)
<1> DEFINE d == deprecate_eof
           q == Append(f, l)
           e == [i \in 1..(n + 1) |-> IF i <= n THEN Start ELSE Done]
<1>1. \A i \in 1..(n - 1) : f[i] \in Seq(Contents) /\ Serves(o, d, Start, f[i], Start)
  <2> SUFFICES ASSUME NEW i \in 1..(n - 1) PROVE f[i] \in Seq(Contents) /\ Serves(o, d, Start, f[i], Start)
    OBVIOUS
  <2>1. f[i] \in Result(o, TRUE) /\ TRUE \in BOOLEAN
    OBVIOUS
  <2>2. f[i] \in Seq(Contents) /\ Serves(o, deprecate_eof, Start, f[i], IF TRUE THEN Start ELSE Done)
    BY <2>1, ResultServes
  <2>3. QED BY <2>2
<1>2. l \in Seq(Contents) /\ Serves(o, d, Start, l, Done)
  BY LastResultServes
<1>3. f \in Seq(Seq(Contents)) /\ Len(f) = n - 1
  <2>1. n - 1 \in Nat /\ f \in [1..(n - 1) -> Seq(Contents)]
    BY <1>1
  <2>2. QED BY <2>1
<1> HIDE DEF d
<1>4. /\ q \in Seq(Seq(Contents)) /\ Len(q) = n /\ q[n] = l
      /\ \A i \in 1..(n - 1) : q[i] = f[i]
  BY <1>2, <1>3
<1>5. /\ \A i \in 1..n : e[i] = Start
      /\ e[n + 1] = Done
  OBVIOUS
<1> HIDE DEF q, e
<1>6. ASSUME NEW i \in 1..n PROVE Serves(o, d, e[i], q[i], e[i + 1])
  <2>1. CASE i = n
    BY <1>2, <1>4, <1>5, <2>1
  <2>2. CASE i # n
    <3>1. i \in 1..(n - 1) /\ i + 1 \in 1..n
      BY <2>2
    <3>2. QED BY <1>1, <1>4, <1>5, <3>1
  <2>3. QED BY <2>1, <2>2
<1>7. e[1] = Start /\ e[1] \in Expectations
  <2>1. 1 \in 1..n
    OBVIOUS
  <2>2. QED BY <1>5, <2>1, ExpectationFacts
<1>8. FlattenSeq(q) \in Seq(Contents) /\ Serves(o, d, e[1], FlattenSeq(q), e[n + 1])
  BY <1>4, <1>6, <1>7, ServesAll
<1>9. QED BY <1>5, <1>7, <1>8 DEF q, d

\* The definitions of a prepared statement.
LEMMA PrepareServes ==
  ASSUME ConnAssumption, deprecate_eof = TRUE, NEW p \in 0..MaxCols, NEW c \in 0..MaxCols
  PROVE  LET q == P("stmt_ok", FALSE, p + c) \o Definitions(p) \o Definitions(c)
         IN  q \in Seq(Contents) /\ Serves("prepare", deprecate_eof, Start, q, Done)
<1> DEFINE d == deprecate_eof
           o == "prepare"
           a == P("stmt_ok", FALSE, p + c)
           x == P("col", FALSE, 0)
           b(k) == Several(k, x)
<1>1. p \in Nat /\ c \in Nat /\ p + c \in 0..(2 * MaxCols) /\ p + c \in Nat
  BY DEF ConnAssumption
<1>2. Behind(o, d, Done) /\ Done \in Expectations /\ 0 \in Nat /\ FALSE \in BOOLEAN /\ "stmt_ok" \in Kinds
  BY ExpectationFacts DEF Behind, Kinds
<1>3. a \in Seq(Contents) /\ Serves(o, d, Start, a, Cols(p + c, Done))
  <2>1. First(o, [kind |-> "stmt_ok", more |-> FALSE, n |-> p + c], Cols(p + c, Done))
    BY <1>1 DEF First
  <2>2. Cols(p + c, Done) \in Expectations
    BY <1>1, ExpectationFacts
  <2>3. QED BY <1>1, <1>2, <2>1, <2>2, FirstServes
<1>4. b(p) \in Seq(Contents) /\ Serves(o, d, Cols(p + c, Done), b(p), Cols(c, Done))
  <2> HIDE DEF d, o
  <2>1. QED BY <1>1, <1>2, ColumnsServe
<1>5. b(c) \in Seq(Contents) /\ Serves(o, d, Cols(c, Done), b(c), Done)
  <2>1. c + 0 = c /\ Cols(0, Done) = Done
    BY <1>1 DEF Cols
  <2> HIDE DEF d, o
  <2>2. b(c) \in Seq(Contents) /\ Serves(o, d, Cols(c + 0, Done), b(c), Cols(0, Done))
    BY <1>1, <1>2, ColumnsServe
  <2>3. QED BY <2>1, <2>2
<1>6. \A k : Definitions(k) = b(k) \o <<>>
  BY DEF Definitions
<1>7. Definitions(p) = b(p) /\ Definitions(c) = b(c)
  <2> HIDE DEF b
  <2>1. b(p) \o <<>> = b(p) /\ b(c) \o <<>> = b(c)
    BY <1>4, <1>5, ConcatEmptySeq
  <2>2. QED BY <1>6, <2>1
<1> HIDE DEF a, b, d, o
<1>8. a \o b(p) \in Seq(Contents)
  BY <1>3, <1>4
<1>9. Serves(o, d, Start, a \o b(p), Cols(c, Done))
  BY <1>3, <1>4, ServesBoth
<1>10. (a \o b(p)) \o b(c) \in Seq(Contents)
  BY <1>5, <1>8
<1>11. Serves(o, d, Start, (a \o b(p)) \o b(c), Done)
  BY <1>5, <1>8, <1>9, ServesBoth
<1>12. QED BY <1>7, <1>10, <1>11 DEF a, d, o

\* The commands that need no DEPRECATE_EOF.
Plain == AllOps \ {"execute", "prepare", "set_option"}

\* A reply that is expected leads from its first packet to its end.
LEMMA RepliesServe ==
  ASSUME ConnAssumption, deprecate_eof \in BOOLEAN, NEW o \in AllOps, o \in Plain \/ deprecate_eof,
         NEW q \in Replies(o)
  PROVE  /\ q \in Seq(Contents)
         /\ o \in Silent \/ o = "quit" => q = <<>>
         /\ o \notin Silent /\ o # "quit" => Serves(o, deprecate_eof, Start, q, Done)
<1> DEFINE d == deprecate_eof
           ok == [kind |-> "ok", more |-> FALSE, n |-> 0]
           err == [kind |-> "err", more |-> FALSE, n |-> 0]
           eof == [kind |-> "eof", more |-> FALSE, n |-> 0]
<1>0. 0 \in Nat /\ FALSE \in BOOLEAN /\ "ok" \in Kinds /\ "err" \in Kinds /\ "eof" \in Kinds /\ Done \in Expectations
  BY ExpectationFacts DEF Kinds
<1>1. CASE o \in ResultOps
  <2>1. Replies(o) = ResultReplies(o)
    BY <1>1 DEF Replies, ResultOps, Generic
  <2>2. PICK n \in 1..MaxResults : \E f \in [1..(n - 1) -> Result(o, TRUE)], l \in LastResult(o) : q = FlattenSeq(Append(f, l))
    <3>1. PICK n \in 1..MaxResults :
            q \in {FlattenSeq(Append(x[1], x[2])) : x \in [1..(n - 1) -> Result(o, TRUE)] \X LastResult(o)}
      BY <2>1 DEF ResultReplies
    <3>2. PICK x \in [1..(n - 1) -> Result(o, TRUE)] \X LastResult(o) : q = FlattenSeq(Append(x[1], x[2]))
      BY <3>1
    <3>3. x[1] \in [1..(n - 1) -> Result(o, TRUE)] /\ x[2] \in LastResult(o)
      OBVIOUS
    <3>4. QED BY <3>2, <3>3
  <2>3. PICK f \in [1..(n - 1) -> Result(o, TRUE)], l \in LastResult(o) : q = FlattenSeq(Append(f, l))
    BY <2>2
  <2>4. n \in Nat /\ n >= 1
    BY DEF ConnAssumption
  <2>5. q \in Seq(Contents) /\ Serves(o, deprecate_eof, Start, q, Done)
    BY <1>1, <2>3, <2>4, ResultsServe
  <2>6. o \notin Silent /\ o # "quit"
    BY <1>1 DEF ResultOps, Silent
  <2>7. QED BY <2>5, <2>6
<1>2. CASE o \in Generic
  <2>1. q \in {P("eof", FALSE, 0), P("ok", FALSE, 0), P("err", FALSE, 0)} /\ (q = P("eof", FALSE, 0) => o = "set_option")
    <3>1. o \notin ResultOps /\ o # "prepare"
      BY <1>2 DEF Generic, ResultOps
    <3>2. CASE o = "set_option"
      <4>1. Replies(o) = {P("eof", FALSE, 0), P("ok", FALSE, 0), P("err", FALSE, 0)}
        BY <3>1, <3>2 DEF Replies
      <4>2. QED BY <3>2, <4>1
    <3>3. CASE o # "set_option"
      <4>1. Replies(o) = {P("ok", FALSE, 0), P("err", FALSE, 0)}
        BY <1>2, <3>1, <3>3 DEF Replies
      <4>2. P("ok", FALSE, 0) # P("eof", FALSE, 0) /\ P("err", FALSE, 0) # P("eof", FALSE, 0)
        <5>1. ok # eof /\ err # eof
          OBVIOUS
        <5>2. <<ok>>[1] # <<eof>>[1] /\ <<err>>[1] # <<eof>>[1]
          BY <5>1
        <5>3. P("ok", FALSE, 0) = <<ok>> /\ P("err", FALSE, 0) = <<err>> /\ P("eof", FALSE, 0) = <<eof>>
          BY DEF P
        <5> HIDE DEF ok, err, eof
        <5>4. QED BY <5>2, <5>3
      <4>3. QED BY <4>1, <4>2
    <3>4. QED BY <3>2, <3>3
  <2>2. First(o, ok, Done) /\ First(o, err, Done) /\ (o = "set_option" => First(o, eof, Done))
    BY <1>2 DEF First
  <2>3. P("ok", FALSE, 0) \in Seq(Contents) /\ Serves(o, d, Start, P("ok", FALSE, 0), Done)
    BY <1>0, <2>2, FirstServes
  <2>4. P("err", FALSE, 0) \in Seq(Contents) /\ Serves(o, d, Start, P("err", FALSE, 0), Done)
    BY <1>0, <2>2, FirstServes
  <2>5. o = "set_option" => P("eof", FALSE, 0) \in Seq(Contents) /\ Serves(o, d, Start, P("eof", FALSE, 0), Done)
    BY <1>0, <2>2, FirstServes
  <2>6. o \notin Silent /\ o # "quit"
    BY <1>2 DEF Generic, Silent
  <2>7. QED BY <2>1, <2>3, <2>4, <2>5, <2>6
<1>3. CASE o = "prepare"
  <2>1. Replies(o) = PrepareReplies
    BY <1>3 DEF Replies, ResultOps, Generic
  <2>2. d = TRUE
    BY <1>3 DEF Plain
  <2>3. q \in Seq(Contents) /\ Serves(o, d, Start, q, Done)
    <3>1. CASE q = P("err", FALSE, 0)
      <4>1. First(o, err, Done)
        BY <1>3 DEF First
      <4>2. P("err", FALSE, 0) \in Seq(Contents) /\ Serves(o, d, Start, P("err", FALSE, 0), Done)
        BY <1>0, <4>1, FirstServes
      <4>3. QED BY <3>1, <4>2
    <3>2. CASE q # P("err", FALSE, 0)
      <4>1. PICK p \in 0..MaxCols, c \in 0..MaxCols : q = P("stmt_ok", FALSE, p + c) \o Definitions(p) \o Definitions(c)
        <5>1. PICK x \in (0..MaxCols) \X (0..MaxCols) :
                q = P("stmt_ok", FALSE, x[1] + x[2]) \o Definitions(x[1]) \o Definitions(x[2])
          BY <2>1, <3>2 DEF PrepareReplies
        <5>2. x[1] \in 0..MaxCols /\ x[2] \in 0..MaxCols
          OBVIOUS
        <5>3. QED BY <5>1, <5>2
      <4>2. QED BY <1>3, <2>2, <4>1, PrepareServes
    <3>3. QED BY <3>1, <3>2
  <2>4. o \notin Silent /\ o # "quit"
    BY <1>3 DEF Silent
  <2>5. QED BY <2>3, <2>4
<1>4. CASE o \notin ResultOps /\ o \notin Generic /\ o # "prepare"
  <2>1. o # "set_option"
    BY <1>4 DEF Generic
  <2>2. Replies(o) = {<<>>}
    BY <1>4, <2>1 DEF Replies
  <2>3. q = <<>> /\ q \in Seq(Contents)
    BY <2>2, EmptySeq
  <2>4. o \in Silent \/ o = "quit"
    BY <1>4 DEF AllOps, Silent
  <2>5. QED BY <2>3, <2>4
<1>5. QED BY <1>1, <1>2, <1>3, <1>4

-----------------------------------------------------------------------------
(* The packets that are coming: q on the way, t still with the server.       *)

\* They lead from e to the end of the reply, or as far as the server gets before
\* it goes away.
Run(o, d, q, t, gone, r) ==
  /\ r \in [Nat -> Expectations]
  /\ \A i \in 1..Len(q) : Follows(o, d, r[i], q[i], r[i + 1])
  /\ \A i \in 1..Len(t) : Follows(o, d, r[Len(q) + i], t[i], r[Len(q) + i + 1])
  /\ ~gone => r[Len(q) + Len(t) + 1] = Done
Coming(o, d, q, t, gone, e) == \E r : Run(o, d, q, t, gone, r) /\ r[1] = e

\* They answer command c, and are numbered from s on; the next that the server
\* sends gets the number z.
Chained(q, t, c, s, z) ==
  /\ q # <<>> => q[1].seq = s
  /\ \A i \in 1..(Len(q) - 1) : q[i + 1].seq = NextSeq(q[i].seq)
  /\ t # <<>> => z = IF q = <<>> THEN s ELSE NextSeq(q[Len(q)].seq)
  /\ \A i \in 1..Len(q) : q[i].cmd = c

\* The expectation a run starts with.
LEMMA ComingFrom ==
  ASSUME NEW o, NEW d, NEW q, NEW t, NEW gone, NEW e, Coming(o, d, q, t, gone, e)
  PROVE  e \in Expectations
<1>1. PICK r : Run(o, d, q, t, gone, r) /\ r[1] = e
  BY DEF Coming
<1>2. r \in [Nat -> Expectations] /\ 1 \in Nat
  BY <1>1 DEF Run
<1>3. QED BY <1>1, <1>2

\* What Follows knows of a packet is its kind, its status and its count.
LEMMA SamePacket ==
  ASSUME NEW o, NEW d, NEW e, NEW f, NEW p, NEW x, x.kind = p.kind, x.more = p.more, x.n = p.n,
         Follows(o, d, e, p, f)
  PROVE  Follows(o, d, e, x, f)
<1>1. First(o, p, f) => First(o, x, f)
  BY DEF First
<1>2. AmongRows(o, e.k, e.m, p, f) => AmongRows(o, e.k, e.m, x, f)
  BY DEF AmongRows
<1>3. QED BY <1>1, <1>2 DEF Follows

\* Nothing follows the end of a reply.
LEMMA NothingFollows ==
  ASSUME NEW o, NEW d, NEW p, NEW f
  PROVE  ~Follows(o, d, Done, p, f)
  BY DEF Follows, Done, At

\* At the end nothing is coming.
LEMMA NothingComes ==
  ASSUME NEW o, NEW d, NEW S, NEW q \in Seq(S), NEW T, NEW t \in Seq(T), NEW gone, Coming(o, d, q, t, gone, Done)
  PROVE  q = <<>> /\ t = <<>>
<1>1. PICK r : Run(o, d, q, t, gone, r) /\ r[1] = Done
  BY DEF Coming
<1>2. Len(q) \in Nat /\ Len(t) \in Nat
  OBVIOUS
<1>3. q = <<>>
  <2>1. SUFFICES ASSUME q # <<>> PROVE FALSE
    OBVIOUS
  <2>2. 1 \in 1..Len(q)
    BY <2>1, EmptySeq
  <2>3. Follows(o, d, Done, q[1], r[1 + 1])
    BY <1>1, <2>2 DEF Run
  <2>4. QED BY <2>3, NothingFollows
<1>4. t = <<>>
  <2>1. SUFFICES ASSUME t # <<>> PROVE FALSE
    OBVIOUS
  <2>2. 1 \in 1..Len(t) /\ Len(q) = 0
    BY <1>3, <2>1, EmptySeq
  <2>3. Follows(o, d, r[0 + 1], t[1], r[0 + 1 + 1])
    BY <1>1, <2>2 DEF Run
  <2>4. r[0 + 1] = Done
    BY <1>1
  <2>5. QED BY <2>3, <2>4, NothingFollows
<1>5. QED BY <1>3, <1>4

\* Before the end something is, unless the server is gone.
LEMMA SomethingComes ==
  ASSUME NEW o, NEW d, NEW S, NEW q \in Seq(S), NEW T, NEW t \in Seq(T), NEW gone, ~gone,
         NEW e, e # Done, Coming(o, d, q, t, gone, e)
  PROVE  q # <<>> \/ t # <<>>
<1> SUFFICES ASSUME q = <<>>, t = <<>> PROVE FALSE
  OBVIOUS
<1>1. PICK r : Run(o, d, q, t, gone, r) /\ r[1] = e
  BY DEF Coming
<1>2. Len(q) = 0 /\ Len(t) = 0
  BY EmptySeq
<1>3. r[0 + 0 + 1] = Done
  BY <1>1, <1>2 DEF Run
<1>4. QED BY <1>1, <1>3

\* The server goes away.
LEMMA ServerGone ==
  ASSUME NEW o, NEW d, NEW S, NEW q \in Seq(S), NEW t, NEW gone, NEW gone2, gone2,
         NEW e, Coming(o, d, q, t, gone, e), NEW c, NEW s, NEW z, Chained(q, t, c, s, z)
  PROVE  Coming(o, d, q, <<>>, gone2, e) /\ Chained(q, <<>>, c, s, z)
<1>1. PICK r : Run(o, d, q, t, gone, r) /\ r[1] = e
  BY DEF Coming
<1>2. Len(<<>>) = 0 /\ 1..0 = {}
  OBVIOUS
<1>3. Run(o, d, q, <<>>, gone2, r)
  BY <1>1, <1>2 DEF Run
<1>4. Coming(o, d, q, <<>>, gone2, e)
  BY <1>1, <1>3 DEF Coming
<1>5. Chained(q, <<>>, c, s, z)
  BY DEF Chained
<1>6. QED BY <1>4, <1>5

\* The server has a reply to send.
LEMMA ReplyBegins ==
  ASSUME NEW o, NEW d, NEW t, NEW gone, Serves(o, d, Start, t, Done),
         NEW n \in Nat, n = Len(t), NEW c, NEW s
  PROVE  Coming(o, d, <<>>, t, gone, Start) /\ Chained(<<>>, t, c, s, s)
<1>1. PICK r : Leads(o, d, r, Start, t, Done)
  BY DEF Serves
<1>2. Len(<<>>) = 0 /\ 1..0 = {} /\ 0 + n + 1 = n + 1 /\ \A i \in 1..n : 0 + i = i
  OBVIOUS
<1>3. r \in [Nat -> Expectations] /\ r[1] = Start /\ r[n + 1] = Done /\ \A i \in 1..n : Follows(o, d, r[i], t[i], r[i + 1])
  BY <1>1 DEF Leads
<1>4. Run(o, d, <<>>, t, gone, r)
  BY <1>2, <1>3 DEF Run
<1>5. Coming(o, d, <<>>, t, gone, Start)
  BY <1>3, <1>4 DEF Coming
<1>6. Chained(<<>>, t, c, s, s)
  <2>1. 1..(0 - 1) = {}
    OBVIOUS
  <2>2. QED BY <1>2, <2>1 DEF Chained
<1>7. QED BY <1>5, <1>6

\* The server sends one more packet, x.
LEMMA ServerGoesOn ==
  ASSUME NEW o, NEW d, NEW S, NEW q \in Seq(S), NEW T, NEW t \in Seq(T), t # <<>>, NEW gone,
         NEW e, Coming(o, d, q, t, gone, e), NEW c, NEW s, NEW z, Chained(q, t, c, s, z),
         NEW x \in S, x.kind = t[1].kind, x.more = t[1].more, x.n = t[1].n, x.seq = z, x.cmd = c
  PROVE  Coming(o, d, Append(q, x), Tail(t), gone, e) /\ Chained(Append(q, x), Tail(t), c, s, NextSeq(z))
<1>1. PICK r : Run(o, d, q, t, gone, r) /\ r[1] = e
  BY DEF Coming
<1> DEFINE u == Append(q, x)
           v == Tail(t)
<1>2. PICK n \in Nat : n = Len(q)
  OBVIOUS
<1>3. PICK m \in Nat : m + 1 = Len(t)
  <2>1. Len(t) \in Nat /\ Len(t) # 0
    BY EmptySeq
  <2>2. Len(t) - 1 \in Nat /\ (Len(t) - 1) + 1 = Len(t)
    BY <2>1
  <2>3. QED BY <2>2
<1>4. Len(u) = n + 1 /\ u[n + 1] = x /\ (\A i \in 1..n : u[i] = q[i]) /\ u # <<>>
  <2>1. u \in Seq(S) /\ Len(u) = Len(q) + 1 /\ u[Len(q) + 1] = x /\ \A i \in 1..Len(q) : u[i] = q[i]
    OBVIOUS
  <2>2. u # <<>>
    <3>1. Len(u) # 0
      BY <1>2, <2>1
    <3>2. QED BY <3>1, EmptySeq
  <2>3. QED BY <1>2, <2>1, <2>2
<1>5. Len(v) = m /\ (\A i \in 1..m : v[i] = t[i + 1]) /\ (v # <<>> => m # 0)
  BY <1>3
<1> HIDE DEF u, v
<1>6. /\ r \in [Nat -> Expectations]
      /\ \A i \in 1..n : Follows(o, d, r[i], q[i], r[i + 1])
      /\ \A i \in 1..(m + 1) : Follows(o, d, r[n + i], t[i], r[n + i + 1])
      /\ ~gone => r[n + (m + 1) + 1] = Done
  BY <1>1, <1>2, <1>3 DEF Run
<1>7. Run(o, d, u, v, gone, r)
  <2>1. ASSUME NEW i \in 1..(n + 1) PROVE Follows(o, d, r[i], u[i], r[i + 1])
    <3>1. CASE i = n + 1
      <4>1. Follows(o, d, r[n + 1], t[1], r[n + 1 + 1])
        <5>1. 1 \in 1..(m + 1)
          OBVIOUS
        <5>2. QED BY <5>1, <1>6
      <4>2. Follows(o, d, r[n + 1], x, r[n + 1 + 1])
        BY <4>1, SamePacket
      <4>3. QED BY <1>4, <3>1, <4>2
    <3>2. CASE i # n + 1
      <4>1. i \in 1..n
        BY <3>2
      <4>2. QED BY <4>1, <1>4, <1>6
    <3>3. QED BY <3>1, <3>2
  <2>2. ASSUME NEW i \in 1..m PROVE Follows(o, d, r[(n + 1) + i], v[i], r[(n + 1) + i + 1])
    <3>1. i + 1 \in 1..(m + 1) /\ n + (i + 1) = (n + 1) + i /\ n + (i + 1) + 1 = (n + 1) + i + 1
      OBVIOUS
    <3>2. Follows(o, d, r[n + (i + 1)], t[i + 1], r[n + (i + 1) + 1])
      BY <3>1, <1>6
    <3>3. QED BY <3>1, <3>2, <1>5
  <2>3. ~gone => r[(n + 1) + m + 1] = Done
    <3>1. n + (m + 1) + 1 = (n + 1) + m + 1
      OBVIOUS
    <3>2. QED BY <3>1, <1>6
  <2>4. QED BY <1>4, <1>5, <1>6, <2>1, <2>2, <2>3 DEF Run
<1>8. Coming(o, d, u, v, gone, e)
  BY <1>1, <1>7 DEF Coming
<1>9. /\ q # <<>> => q[1].seq = s /\ n # 0
      /\ \A i \in 1..(n - 1) : q[i + 1].seq = NextSeq(q[i].seq)
      /\ z = IF q = <<>> THEN s ELSE NextSeq(q[n].seq)
      /\ \A i \in 1..n : q[i].cmd = c
      /\ q = <<>> => n = 0
  BY <1>2, EmptySeq DEF Chained
<1>10. Chained(u, v, c, s, NextSeq(z))
  <2>1. u[1].seq = s
    <3>1. CASE q = <<>>
      BY <3>1, <1>4, <1>9
    <3>2. CASE q # <<>>
      <4>1. 1 \in 1..n
        BY <3>2, <1>9
      <4>2. QED BY <3>2, <4>1, <1>4, <1>9
    <3>3. QED BY <3>1, <3>2
  <2>2. ASSUME NEW i \in 1..n PROVE u[i + 1].seq = NextSeq(u[i].seq)
    <3>1. u[i] = q[i]
      BY <1>4
    <3>2. CASE i = n
      <4>1. q # <<>>
        BY <1>9
      <4>2. QED BY <3>1, <3>2, <4>1, <1>4, <1>9
    <3>3. CASE i # n
      <4>1. i \in 1..(n - 1) /\ i + 1 \in 1..n
        BY <3>3
      <4>2. u[i + 1] = q[i + 1]
        BY <4>1, <1>4
      <4>3. QED BY <3>1, <4>1, <4>2, <1>9
    <3>4. QED BY <3>2, <3>3
  <2>3. u[n + 1].seq = z
    BY <1>4
  <2>4. ASSUME NEW i \in 1..(n + 1) PROVE u[i].cmd = c
    <3>1. CASE i = n + 1
      BY <3>1, <1>4
    <3>2. CASE i # n + 1
      <4>1. i \in 1..n
        BY <3>2
      <4>2. QED BY <4>1, <1>4, <1>9
    <3>3. QED BY <3>1, <3>2
  <2>5. (n + 1) - 1 = n
    OBVIOUS
  <2>6. QED BY <1>4, <2>1, <2>2, <2>3, <2>4, <2>5 DEF Chained
<1>11. QED BY <1>8, <1>10 DEF u, v

\* The caller reads a packet.
LEMMA CallerReads ==
  ASSUME NEW o, NEW d, NEW S, NEW q \in Seq(S), q # <<>>, NEW T, NEW t \in Seq(T), NEW gone,
         NEW e, Coming(o, d, q, t, gone, e), NEW c, NEW s, NEW z, Chained(q, t, c, s, z)
  PROVE  /\ q[1].seq = s /\ q[1].cmd = c
         /\ \E f \in Expectations : Follows(o, d, e, q[1], f) /\ Coming(o, d, Tail(q), t, gone, f)
         /\ Chained(Tail(q), t, c, NextSeq(s), z)
<1>1. PICK r : Run(o, d, q, t, gone, r) /\ r[1] = e
  BY DEF Coming
<1> DEFINE u == Tail(q)
<1>2. PICK n \in Nat : n + 1 = Len(q)
  <2>1. Len(q) \in Nat /\ Len(q) # 0
    BY EmptySeq
  <2>2. Len(q) - 1 \in Nat /\ (Len(q) - 1) + 1 = Len(q)
    BY <2>1
  <2>3. QED BY <2>2
<1>3. PICK m \in Nat : m = Len(t)
  OBVIOUS
<1>4. Len(u) = n /\ (\A i \in 1..n : u[i] = q[i + 1]) /\ (u # <<>> => n # 0) /\ (u = <<>> => n = 0)
  <2>1. u \in Seq(S) /\ Len(u) = Len(q) - 1 /\ \A i \in 1..(Len(q) - 1) : u[i] = q[i + 1]
    BY EmptySeq
  <2>2. Len(u) = n
    BY <1>2, <2>1
  <2>3. (u # <<>> => n # 0) /\ (u = <<>> => n = 0)
    BY <2>1, <2>2, EmptySeq
  <2>4. Len(q) - 1 = n
    BY <1>2
  <2>5. QED BY <2>1, <2>2, <2>3, <2>4
<1> HIDE DEF u
<1>5. /\ r \in [Nat -> Expectations]
      /\ \A i \in 1..(n + 1) : Follows(o, d, r[i], q[i], r[i + 1])
      /\ \A i \in 1..m : Follows(o, d, r[(n + 1) + i], t[i], r[(n + 1) + i + 1])
      /\ ~gone => r[(n + 1) + m + 1] = Done
  BY <1>1, <1>2, <1>3 DEF Run
<1> DEFINE w == [i \in Nat |-> r[i + 1]]
<1>6. /\ w \in [Nat -> Expectations]
      /\ \A i \in Nat : w[i] = r[i + 1]
  BY <1>5
<1> HIDE DEF w
<1>7. Run(o, d, u, t, gone, w)
  <2>1. ASSUME NEW i \in 1..n PROVE Follows(o, d, w[i], u[i], w[i + 1])
    <3>1. i \in Nat /\ i + 1 \in Nat /\ i + 1 \in 1..(n + 1)
      OBVIOUS
    <3>2. Follows(o, d, r[i + 1], q[i + 1], r[(i + 1) + 1])
      BY <3>1, <1>5
    <3>3. QED BY <3>1, <3>2, <1>4, <1>6
  <2>2. ASSUME NEW i \in 1..m PROVE Follows(o, d, w[n + i], t[i], w[n + i + 1])
    <3>1. n + i \in Nat /\ n + i + 1 \in Nat /\ (n + 1) + i = (n + i) + 1 /\ (n + 1) + i + 1 = (n + i + 1) + 1
      OBVIOUS
    <3>2. Follows(o, d, r[(n + 1) + i], t[i], r[(n + 1) + i + 1])
      BY <1>5
    <3>3. w[n + i] = r[(n + 1) + i] /\ w[n + i + 1] = r[(n + 1) + i + 1]
      <4>1. w[n + i] = r[(n + i) + 1] /\ w[n + i + 1] = r[(n + i + 1) + 1]
        BY <3>1, <1>6
      <4>2. QED BY <3>1, <4>1
    <3>4. QED BY <3>2, <3>3
  <2>3. ~gone => w[n + m + 1] = Done
    <3>1. n + m + 1 \in Nat /\ (n + m + 1) + 1 = (n + 1) + m + 1
      OBVIOUS
    <3>2. QED BY <3>1, <1>5, <1>6
  <2>4. QED BY <1>3, <1>4, <1>6, <2>1, <2>2, <2>3 DEF Run
<1>8. 1 \in 1..(n + 1) /\ 1 \in Nat /\ 1 + 1 = 2 /\ 2 \in Nat
  OBVIOUS
<1>9. Follows(o, d, e, q[1], r[2]) /\ r[2] \in Expectations /\ w[1] = r[2]
  BY <1>1, <1>5, <1>6, <1>8
<1>10. Coming(o, d, u, t, gone, r[2])
  BY <1>7, <1>9 DEF Coming
<1>11. /\ q[1].seq = s
       /\ \A i \in 1..n : q[i + 1].seq = NextSeq(q[i].seq)
       /\ t # <<>> => z = NextSeq(q[n + 1].seq)
       /\ \A i \in 1..(n + 1) : q[i].cmd = c
  <2>1. (n + 1) - 1 = n
    OBVIOUS
  <2>2. QED BY <1>2, <2>1 DEF Chained
<1>12. Chained(u, t, c, NextSeq(s), z)
  <2>1. u # <<>> => u[1].seq = NextSeq(s)
    <3>1. SUFFICES ASSUME u # <<>> PROVE u[1].seq = NextSeq(s)
      OBVIOUS
    <3>2. 1 \in 1..n
      BY <3>1, <1>4
    <3>3. u[1] = q[1 + 1] /\ q[1 + 1].seq = NextSeq(q[1].seq)
      BY <3>2, <1>4, <1>11
    <3>4. QED BY <3>3, <1>11
  <2>2. ASSUME NEW i \in 1..(n - 1) PROVE u[i + 1].seq = NextSeq(u[i].seq)
    <3>1. i \in 1..n /\ i + 1 \in 1..n
      OBVIOUS
    <3>2. u[i] = q[i + 1] /\ u[i + 1] = q[(i + 1) + 1] /\ q[(i + 1) + 1].seq = NextSeq(q[i + 1].seq)
      BY <3>1, <1>4, <1>11
    <3>3. QED BY <3>2
  <2>3. t # <<>> => z = IF u = <<>> THEN NextSeq(s) ELSE NextSeq(u[n].seq)
    <3>1. CASE u = <<>>
      <4>1. n + 1 = 1
        BY <3>1, <1>4
      <4>2. QED BY <3>1, <4>1, <1>11
    <3>2. CASE u # <<>>
      <4>1. n \in 1..n
        BY <3>2, <1>4
      <4>2. QED BY <3>2, <4>1, <1>4, <1>11
    <3>3. QED BY <3>1, <3>2
  <2>4. ASSUME NEW i \in 1..n PROVE u[i].cmd = c
    <3>1. i + 1 \in 1..(n + 1)
      OBVIOUS
    <3>2. QED BY <3>1, <1>4, <1>11
  <2>5. QED BY <1>4, <2>1, <2>2, <2>3, <2>4 DEF Chained
<1>13. q[1].seq = s /\ q[1].cmd = c
  BY <1>8, <1>11
<1>14. QED BY <1>9, <1>10, <1>12, <1>13 DEF u

-----------------------------------------------------------------------------
(* The invariant.                                                            *)

Numbers == 0..(SeqCount - 1)
OnWire == [kind : Kinds, more : BOOLEAN, n : Nat, seq : Numbers, cmd : Nat]
Command == [op : AllOps, cmd : Nat, frags : Nat]

\* TypeOK, and what is on the wire and with the server, of a connection to which
\* nothing has happened that the code does not bear.
Typed ==
  /\ TypeOK /\ ~astray /\ s2c \in Seq(OnWire) /\ c2s \in Seq(Command)
  /\ srv \in [cmd : Nat, seq : Numbers, todo : Seq(Contents)]

\* The commands on the way are the next that the server takes, and none is
\* missing while the server is there. A caller never expects a reply the code
\* cannot read.
Counting ==
  /\ \A i \in 1..Len(c2s) : c2s[i].cmd = srv.cmd + i
  /\ srv.cmd + Len(c2s) <= cmd
  /\ ~peer_closed /\ pc \notin {"flush", "closed"} => srv.cmd + Len(c2s) = cmd
  /\ ~peer_closed /\ pc = "flush" => srv.cmd + Len(c2s) + 1 = cmd
  /\ pc = "flush" \/ more => cmd >= 1
  /\ op \in Plain \/ deprecate_eof \/ pc = "closed" \/ (pc = "ready" /\ rc = "MAX_PACKET_EXCEEDED")
  /\ \A i \in 1..Len(c2s) : c2s[i].op \in Plain \/ deprecate_eof

\* next_result would read on.
MoreToRead == more /\ op \in ResultOps /\ rc \in {"OK", "EOF"}

\* The first n commands on the way are of the kind nobody waits for.
AllSilent(n) == \A i \in 1..n : c2s[i].op \in Silent

\* The command that is being sent, or was sent last, will be answered from the
\* number on that the caller expects.
WellNumbered == op \notin Silent => sequence_number = frags % SeqCount

\* The command the caller waits for is the last on the way.
InLine ==
  /\ c2s # <<>> /\ AllSilent(Len(c2s) - 1)
  /\ c2s[Len(c2s)] = [op |-> op, cmd |-> cmd, frags |-> frags]
  /\ op \notin Silent /\ WellNumbered

\* No reply is on the way: the caller may send, is sending, or waits for a reply
\* that has not begun, if it comes at all.
Waiting ==
  /\ s2c = <<>> /\ srv.todo = <<>>
  /\ \/ pc = "ready" /\ AllSilent(Len(c2s)) /\ ~MoreToRead /\ (op \in ResultOps => c2s = <<>>)
     \/ pc = "flush" /\ AllSilent(Len(c2s)) /\ WellNumbered
     \/ pc = "recv" /\ (peer_closed \/ InLine)

\* What the caller expects next, where it is.
Now(e) ==
  \/ pc = "recv" /\ e = Start
  \/ pc = "ready" /\ e = Start /\ MoreToRead
  \/ /\ pc = "columns" /\ e = At("cols", columns, FALSE) /\ columns >= 1
     /\ op \in ResultOps \cup {"prepare"}
     /\ op = "query" => ~started_reading_rows
     /\ op # "prepare" => rows = 0
  \/ pc = "rows" /\ op \in ResultOps /\ EofDue /\ rows = 0 /\ e = At("coleof", 0, FALSE)
  \/ /\ pc = "rows" /\ op \in ResultOps /\ ~EofDue
     /\ \E m \in BOOLEAN : e = At("rows", rows, m) /\ (~deprecate_eof => m = more)
  \/ /\ pc = "drain" /\ op = "query" /\ ~deprecate_eof
     /\ \/ ~started_reading_rows /\ e = At("coleof", 0, FALSE)
        \/ started_reading_rows /\ e = Done
        \/ started_reading_rows /\ \E k \in Nat : e = At("rows", k, more)

\* The server answers the last command, and the caller is where it should be.
Replying ==
  /\ c2s = <<>> /\ srv.cmd = cmd /\ cmd >= 1
  /\ Chained(s2c, srv.todo, cmd, sequence_number, srv.seq)
  /\ \E e \in Expectations : Now(e) /\ Coming(op, deprecate_eof, s2c, srv.todo, peer_closed, e)

\* The caller tried to send a command that was too large, and may have been told
\* of another result before.
TooLarge ==
  /\ pc = "ready" /\ rc = "MAX_PACKET_EXCEEDED" /\ AllSilent(Len(c2s))
  /\ Pending => more

Good ==
  /\ Typed /\ Counting /\ rc \notin Refusals
  /\ pc = "closed" \/ Waiting \/ Replying \/ TooLarge

\* The inductive invariant. Once something has happened that the code does not
\* bear nothing is claimed.
IInv == ~astray => Good

-----------------------------------------------------------------------------
(* Reading.                                                                  *)

\* A packet that is read belongs to the reply, and there it is expected.
LEMMA Accepted ==
  ASSUME ConnAssumption, Good, pc \in Reading, Accept
  PROVE  /\ Head(s2c) \in OnWire /\ Head(s2c).cmd = cmd
         /\ s2c' \in Seq(OnWire) /\ sequence_number' \in Numbers
         /\ c2s = <<>> /\ srv.cmd = cmd /\ cmd >= 1
         /\ Chained(s2c', srv.todo, cmd, sequence_number', srv.seq)
         /\ \E e, f \in Expectations :
              /\ Now(e) /\ Follows(op, deprecate_eof, e, Head(s2c), f)
              /\ Coming(op, deprecate_eof, s2c', srv.todo, peer_closed, f)
<1>1. Typed /\ (pc = "closed" \/ Waiting \/ Replying \/ TooLarge)
  BY DEF Good
<1>2. /\ s2c # <<>> /\ Head(s2c).seq = sequence_number
      /\ s2c' = Tail(s2c) /\ sequence_number' = NextSeq(sequence_number)
  BY DEF Accept
<1>3. s2c \in Seq(OnWire) /\ srv.todo \in Seq(Contents) /\ sequence_number \in Numbers
  BY <1>1 DEF Typed, TypeOK, Numbers
<1>4. Head(s2c) = s2c[1] /\ Head(s2c) \in OnWire /\ s2c' \in Seq(OnWire)
  BY <1>2, <1>3
<1>5. sequence_number' \in Numbers
  <2>1. SeqCount \in Nat \ {0, 1}
    BY DEF ConnAssumption
  <2>2. (sequence_number + 1) % SeqCount \in 0..(SeqCount - 1)
    BY <1>3, <2>1 DEF Numbers
  <2>3. QED BY <1>2, <2>2 DEF NextSeq, Numbers
<1>6. Replying
  <2>1. ~Waiting
    BY <1>2 DEF Waiting
  <2>2. pc # "closed" /\ ~TooLarge
    BY DEF Reading, TooLarge
  <2>3. QED BY <1>1, <2>1, <2>2
<1>7. PICK e \in Expectations : Now(e) /\ Coming(op, deprecate_eof, s2c, srv.todo, peer_closed, e)
  BY <1>6 DEF Replying
<1>8. /\ c2s = <<>> /\ srv.cmd = cmd /\ cmd >= 1
      /\ Chained(s2c, srv.todo, cmd, sequence_number, srv.seq)
  BY <1>6 DEF Replying
<1>9. /\ s2c[1].cmd = cmd
      /\ \E f \in Expectations :
           /\ Follows(op, deprecate_eof, e, s2c[1], f)
           /\ Coming(op, deprecate_eof, Tail(s2c), srv.todo, peer_closed, f)
      /\ Chained(Tail(s2c), srv.todo, cmd, NextSeq(sequence_number), srv.seq)
  BY <1>2, <1>3, <1>7, <1>8, CallerReads
<1>10. QED BY <1>2, <1>4, <1>5, <1>7, <1>8, <1>9

\* The receiving call agrees with the reply before and after it has read f's
\* predecessor.
LEMMA ReplyGoesOn ==
  ASSUME ConnAssumption, Good, pc \in Reading, Accept,
         NEW f \in Expectations, Coming(op, deprecate_eof, s2c', srv.todo, peer_closed, f),
         TypeOK', ~astray', rc' \notin Refusals,
         Now(f)' \/ (f = Done /\ pc' = "ready" /\ ~MoreToRead')
  PROVE  Good'
<1>1. /\ s2c' \in Seq(OnWire)
      /\ c2s = <<>> /\ srv.cmd = cmd /\ cmd >= 1
      /\ Chained(s2c', srv.todo, cmd, sequence_number', srv.seq)
  BY Accepted
<1>2. UNCHANGED <<op, cmd, c2s, srv, peer_closed, deprecate_eof>>
  BY DEF Accept
<1>3. Typed /\ Counting
  BY DEF Good
<1>4. Typed'
  BY <1>1, <1>2, <1>3 DEF Typed
<1>5. pc' \notin {"flush", "closed"}
  BY DEF Now
<1>6. cmd \in Nat /\ srv.cmd \in Nat
  BY <1>3 DEF Typed, TypeOK
<1>7. Counting'
  <2>1. Len(c2s') = 0 /\ 1..0 = {} /\ srv'.cmd = cmd' /\ cmd' >= 1 /\ cmd' \in Nat
    BY <1>1, <1>2, <1>6
  <2>2. op' \in Plain \/ deprecate_eof'
    <3>1. op \in Plain \/ deprecate_eof
      BY <1>3 DEF Counting, Reading
    <3>2. op' = op /\ deprecate_eof' = deprecate_eof
      BY <1>2
    <3>3. QED BY <3>1, <3>2, Zenon
  <2>3. srv'.cmd + Len(c2s') = cmd' /\ srv'.cmd + Len(c2s') <= cmd'
    <3>1. PICK y \in Nat : y = cmd'
      BY <2>1
    <3>2. srv'.cmd = y /\ Len(c2s') = 0
      BY <2>1, <3>1
    <3>3. y + 0 = y /\ y + 0 <= y
      OBVIOUS
    <3>4. QED BY <3>1, <3>2, <3>3
  <2>4. \A i \in 1..Len(c2s') : c2s'[i].cmd = srv'.cmd + i
    BY <2>1
  <2> DEFINE l == srv'.cmd + Len(c2s')
  <2> HIDE DEF l
  <2>5. l = cmd' /\ l <= cmd'
    BY <2>3 DEF l
  <2>6. /\ ~peer_closed' /\ pc' \notin {"flush", "closed"} => l = cmd'
        /\ ~peer_closed' /\ pc' = "flush" => l + 1 = cmd'
        /\ pc' = "flush" \/ more' => cmd' >= 1
    BY <1>5, <2>1, <2>5
  <2>8. \A i \in 1..Len(c2s') : c2s'[i].op \in Plain \/ deprecate_eof'
    BY <2>1
  <2>7. QED BY <2>2, <2>4, <2>5, <2>6, <2>8 DEF Counting, l
<1>8. CASE Now(f)'
  <2>1. Replying'
    BY <1>1, <1>2, <1>8 DEF Replying
  <2>2. QED BY <1>4, <1>7, <2>1 DEF Good
<1>9. CASE f = Done /\ pc' = "ready" /\ ~MoreToRead'
  <2>1. s2c' = <<>> /\ srv.todo = <<>>
    <3>1. srv.todo \in Seq(Contents)
      BY <1>3 DEF Typed
    <3>2. QED BY <1>1, <1>9, <3>1, NothingComes
  <2>2. AllSilent(Len(c2s))'
    <3>1. Len(c2s') = 0 /\ 1..0 = {}
      BY <1>1, <1>2
    <3>2. QED BY <3>1 DEF AllSilent
  <2>3. c2s' = <<>>
    BY <1>1, <1>2
  <2>5. Waiting'
    BY <1>2, <1>9, <2>1, <2>2, <2>3 DEF Waiting
  <2>6. QED BY <1>4, <1>7, <2>5 DEF Good
<1>10. QED BY <1>8, <1>9

\* What a receiving call changes keeps its type.
LEMMA ReadsTyped ==
  ASSUME ConnAssumption, Good, pc \in Reading, Accept,
         pc' \in PCs, rc' \in Errors \cup {"OK", "EOF"}, more' \in BOOLEAN, started_reading_rows' \in BOOLEAN,
         columns' \in 0..(2 * MaxCols), rows' \in 0..MaxRows, ~astray'
  PROVE  TypeOK'
<1>1. s2c' \in Seq(OnWire) /\ sequence_number' \in Numbers
  BY Accepted
<1>2. UNCHANGED <<op, cmd, frags, unsent, peer_closed, deprecate_eof>>
  BY DEF Accept
<1>6. rows' \in Nat /\ rows' <= MaxRows /\ astray' \in BOOLEAN
  BY DEF ConnAssumption, Accept
<1>3. TypeOK
  BY DEF Good, Typed
<1>4. \A i \in 1..Len(s2c') : s2c'[i].kind \in Kinds /\ s2c'[i].seq \in 0..(SeqCount - 1)
  <2>1. \A i \in 1..Len(s2c') : s2c'[i] \in OnWire
    BY <1>1
  <2>2. \A x \in OnWire : x.kind \in Kinds /\ x.seq \in 0..(SeqCount - 1)
    BY DEF OnWire, Numbers
  <2>3. QED BY <2>1, <2>2
<1>5. QED BY <1>1, <1>2, <1>3, <1>4, <1>6 DEF TypeOK, Numbers

\* What follows where.
LEMMA FollowsWhere ==
  ASSUME NEW o, NEW d, NEW p, NEW f
  PROVE  /\ Follows(o, d, Start, p, f) => First(o, p, f)
         /\ \A k \in Nat : k >= 1 /\ Follows(o, d, At("cols", k, FALSE), p, f) =>
              /\ p.kind = "col"
              /\ k > 1 => f = At("cols", k - 1, FALSE)
              /\ k = 1 => Behind(o, d, f)
         /\ Follows(o, d, At("coleof", 0, FALSE), p, f) => p.kind = "coleof" /\ f = At("rows", 0, p.more)
         /\ \A k, m : Follows(o, d, At("rows", k, m), p, f) => AmongRows(o, k, m, p, f)
<1>1. Follows(o, d, Start, p, f) => First(o, p, f)
  <2>1. Start.at = "start"
    BY DEF Start, At
  <2> HIDE DEF Start
  <2>2. QED BY <2>1 DEF Follows
<1>2. ASSUME NEW k \in Nat, k >= 1, Follows(o, d, At("cols", k, FALSE), p, f)
      PROVE  /\ p.kind = "col"
             /\ k > 1 => f = At("cols", k - 1, FALSE)
             /\ k = 1 => Behind(o, d, f)
  <2> DEFINE e == At("cols", k, FALSE)
  <2>1. e.at = "cols" /\ e.k = k
    BY DEF At
  <2>2. Follows(o, d, e, p, f)
    BY <1>2
  <2> HIDE DEF e
  <2>3. p.kind = "col"
    BY <2>1, <2>2 DEF Follows
  <2>4. (e.k > 1 /\ f = At("cols", e.k - 1, FALSE)) \/ (e.k = 1 /\ Behind(o, d, f))
    BY <2>1, <2>2 DEF Follows
  <2>5. (k > 1 /\ f = At("cols", k - 1, FALSE)) \/ (k = 1 /\ Behind(o, d, f))
    BY <2>1, <2>4
  <2> DEFINE g == At("cols", k - 1, FALSE)
             b == Behind(o, d, f)
  <2> HIDE DEF g, b
  <2>6. (k > 1 /\ f = g) \/ (k = 1 /\ b)
    BY <2>5 DEF g, b
  <2>8. (k > 1 => f = g) /\ (k = 1 => b)
    BY <2>6
  <2>7. QED BY <2>3, <2>8 DEF g, b
<1>3. Follows(o, d, At("coleof", 0, FALSE), p, f) => p.kind = "coleof" /\ f = At("rows", 0, p.more)
  <2> DEFINE e == At("coleof", 0, FALSE)
  <2>1. e.at = "coleof"
    BY DEF At
  <2> HIDE DEF e
  <2>2. Follows(o, d, e, p, f) => p.kind = "coleof" /\ f = At("rows", 0, p.more)
    BY <2>1 DEF Follows
  <2>3. QED BY <2>2 DEF e
<1>4. ASSUME NEW k, NEW m, Follows(o, d, At("rows", k, m), p, f) PROVE AmongRows(o, k, m, p, f)
  <2> DEFINE e == At("rows", k, m)
  <2>1. e.at = "rows" /\ e.k = k /\ e.m = m
    BY DEF At
  <2>2. Follows(o, d, e, p, f)
    BY <1>4
  <2> HIDE DEF e
  <2>3. AmongRows(o, e.k, e.m, p, f)
    BY <2>1, <2>2 DEF Follows
  <2>4. QED BY <2>1, <2>3
<1>5. QED BY <1>1, <1>2, <1>3, <1>4

\* What Errors and Refusals hold.
LEMMA Codes ==
  /\ {"ERR", "MAX_PACKET_EXCEEDED", "SYSERR", "TIMEOUT", "CLOSED_CONNECTION"} \subseteq Errors
  /\ Refusals \subseteq Errors
  /\ {"OK", "EOF", "ERR", "MAX_PACKET_EXCEEDED", "SYSERR", "TIMEOUT", "CLOSED_CONNECTION"} \cap Refusals = {}
  BY DEF Errors, Refusals

\* Where the caller is when a result starts, trilogy_query_recv or
\* trilogy_stmt_execute_recv.
LEMMA StartResultStep ==
  ASSUME ConnAssumption, Good, pc = "recv", op \in ResultOps, Accept, StartResult(Head(s2c)), ~astray',
         started_reading_rows' \in BOOLEAN,
         op = "query" /\ Head(s2c).kind = "head" => ~started_reading_rows'
  PROVE  Good'
<1> DEFINE p == Head(s2c)
<1>1. pc \in Reading
  BY DEF Reading
<1>2. PICK e \in Expectations, f \in Expectations :
        /\ Now(e) /\ Follows(op, deprecate_eof, e, p, f)
        /\ Coming(op, deprecate_eof, s2c', srv.todo, peer_closed, f)
  BY <1>1, Accepted
<1>3. p \in OnWire
  BY <1>1, Accepted
<1> HIDE DEF p
<1>4. First(op, p, f)
  <2>1. e = Start
    BY <1>2 DEF Now
  <2>2. QED BY <1>2, <2>1, FollowsWhere
<1>5. op # "prepare" /\ op \notin Generic /\ op' = op
  BY DEF ResultOps, Generic, Accept
<1>6. \/ p.kind = "ok" /\ f = IF p.more THEN Start ELSE Done
      \/ p.kind = "err" /\ f = Done
      \/ p.kind = "head" /\ p.n \in 1..MaxCols /\ f = At("cols", p.n, FALSE)
  BY <1>4, <1>5 DEF First
<1>7. /\ pc \in PCs /\ rc \in Errors \cup {"OK", "EOF"} /\ rc \notin Refusals /\ more \in BOOLEAN
      /\ columns \in 0..(2 * MaxCols) /\ rows \in 0..MaxRows
  BY DEF Good, Typed, TypeOK, ConnAssumption
<1>8. p.more \in BOOLEAN
  BY <1>3 DEF OnWire
<1>9. CASE p.kind = "ok"
  <2>1. rc' = "OK" /\ pc' = "ready" /\ more' = p.more /\ columns' = columns /\ rows' = rows
    BY <1>9 DEF StartResult, Finish, ServerStatus, p
  <2>2. TypeOK'
    BY <1>1, <1>7, <1>8, <2>1, ReadsTyped DEF PCs
  <2>3. f = IF p.more THEN Start ELSE Done
    BY <1>6, <1>9
  <2>4. Now(f)' \/ (f = Done /\ pc' = "ready" /\ ~MoreToRead')
    <3>1. CASE p.more = TRUE
      <4>1. MoreToRead' /\ f = Start
        BY <1>5, <2>1, <2>3, <3>1 DEF MoreToRead
      <4>2. QED BY <2>1, <4>1 DEF Now
    <3>2. CASE p.more = FALSE
      <4>1. ~MoreToRead' /\ f = Done
        BY <2>1, <2>3, <3>2 DEF MoreToRead
      <4>2. QED BY <2>1, <4>1
    <3>3. QED BY <1>8, <3>1, <3>2
  <2>5. rc' \notin Refusals
    BY <2>1, Codes
  <2>6. QED BY <1>1, <1>2, <2>2, <2>4, <2>5, ReplyGoesOn
<1>10. CASE p.kind = "err"
  <2>1. rc' = "ERR" /\ pc' = "ready" /\ columns' = columns /\ rows' = rows /\ more' = more
    BY <1>10 DEF StartResult, ReadErr, HandleError, Recoverable, p
  <2>2. TypeOK'
    BY <1>1, <1>7, <2>1, ReadsTyped, Codes DEF PCs
  <2>3. f = Done /\ ~MoreToRead'
    BY <1>6, <1>10, <2>1 DEF MoreToRead
  <2>4. rc' \notin Refusals
    BY <2>1, Codes
  <2>5. QED BY <1>1, <1>2, <2>1, <2>2, <2>3, <2>4, ReplyGoesOn
<1>11. CASE p.kind = "head"
  <2>1. pc' = "columns" /\ columns' = p.n /\ rows' = 0 /\ rc' = rc /\ more' = more
    BY <1>11 DEF StartResult, p
  <2>2. p.n \in 1..MaxCols /\ f = At("cols", p.n, FALSE)
    BY <1>6, <1>11
  <2>3. columns' \in 0..(2 * MaxCols) /\ columns' >= 1 /\ rows' \in 0..MaxRows
    BY <2>1, <2>2 DEF ConnAssumption
  <2>4. TypeOK'
    BY <1>1, <1>7, <2>1, <2>3, ReadsTyped DEF PCs, Reading
  <2>5. Now(f)'
    <3>1. op' = "query" => ~started_reading_rows'
      BY <1>5, <1>11 DEF p
    <3>2. QED BY <1>5, <2>1, <2>2, <2>3, <3>1 DEF Now
  <2>6. QED BY <1>1, <1>2, <1>7, <2>1, <2>4, <2>5, ReplyGoesOn
<1>12. QED BY <1>6, <1>9, <1>10, <1>11

\* The types of what the caller keeps.
LEMMA CallerTypes ==
  ASSUME ConnAssumption, Good
  PROVE  /\ pc \in PCs /\ rc \in Errors \cup {"OK", "EOF"} /\ rc \notin Refusals /\ more \in BOOLEAN
         /\ columns \in 0..(2 * MaxCols) /\ rows \in 0..MaxRows /\ started_reading_rows \in BOOLEAN
         /\ deprecate_eof \in BOOLEAN /\ op \in AllOps
  BY DEF Good, Typed, TypeOK, ConnAssumption

\* current_packet_type of each kind of packet.
LEMMA PacketTypes ==
  ASSUME NEW p
  PROVE  /\ p.kind \in {"ok", "stmt_ok"} => PacketType(p) = "OK" /\ ~IsEof(p)
         /\ p.kind = "err" => PacketType(p) = "ERR" /\ ~IsEof(p)
         /\ p.kind \in {"eof", "coleof"} => PacketType(p) = "EOF" /\ IsEof(p)
         /\ p.kind \in {"bigrow", "longeof"} => PacketType(p) = "EOF" /\ ~IsEof(p)
         /\ p.kind \in {"head", "col", "row"} => PacketType(p) = "OTHER" /\ ~IsEof(p)
  BY DEF PacketType, IsEof

\* trilogy_query_recv: the first packet of a result to a query.
LEMMA QueryRecvStep ==
  ASSUME ConnAssumption, Good, QueryRecv, ~astray'
  PROVE  Good'
<1>1. started_reading_rows' = (started_reading_rows /\ Head(s2c).kind # "head") /\ started_reading_rows \in BOOLEAN
  BY CallerTypes DEF QueryRecv
<1>2. started_reading_rows' \in BOOLEAN /\ (Head(s2c).kind = "head" => ~started_reading_rows')
  BY <1>1
<1>3. pc = "recv" /\ op \in ResultOps /\ Accept /\ StartResult(Head(s2c))
  BY DEF QueryRecv, ResultOps
<1>4. QED BY <1>2, <1>3, StartResultStep

\* trilogy_stmt_execute_recv: the first packet of a result of a statement.
LEMMA StmtExecuteRecvStep ==
  ASSUME ConnAssumption, Good, StmtExecuteRecv, ~astray'
  PROVE  Good'
<1>1. started_reading_rows' = started_reading_rows /\ started_reading_rows \in BOOLEAN
  BY CallerTypes DEF StmtExecuteRecv
<1>2. pc = "recv" /\ op \in ResultOps /\ op # "query" /\ Accept /\ StartResult(Head(s2c))
  BY DEF StmtExecuteRecv, ResultOps
<1>3. QED BY <1>1, <1>2, StartResultStep

\* trilogy_stmt_prepare_recv: the counts of the definitions to come.
LEMMA PrepareRecvStep ==
  ASSUME ConnAssumption, Good, PrepareRecv, ~astray'
  PROVE  Good'
<1> DEFINE p == Head(s2c)
<1>1. pc \in Reading /\ pc = "recv" /\ op = "prepare" /\ Accept /\ UNCHANGED <<rows, started_reading_rows>>
  BY DEF Reading, PrepareRecv
<1>2. PICK e \in Expectations, f \in Expectations :
        /\ Now(e) /\ Follows(op, deprecate_eof, e, p, f)
        /\ Coming(op, deprecate_eof, s2c', srv.todo, peer_closed, f)
  BY <1>1, Accepted
<1>3. (CASE PacketType(p) = "OK" -> /\ columns' = p.n /\ rc' = "OK" /\ UNCHANGED more
                                    /\ pc' = IF p.n = 0 THEN "ready" ELSE "columns"
         [] PacketType(p) = "ERR" -> ReadErr /\ UNCHANGED columns
         [] OTHER -> Malformed("UNEXPECTED_PACKET") /\ UNCHANGED columns)
  BY DEF PrepareRecv
<1> HIDE DEF p
<1>4. First(op, p, f)
  <2>1. e = Start
    BY <1>1, <1>2 DEF Now
  <2>2. QED BY <1>2, <2>1, FollowsWhere
<1>5. op \notin ResultOps /\ op \notin Generic /\ op' = op
  BY <1>1 DEF ResultOps, Generic, Accept
<1>6. \/ p.kind = "err" /\ f = Done
      \/ p.kind = "stmt_ok" /\ p.n \in 0..(2 * MaxCols) /\ f = Cols(p.n, Done)
  BY <1>4, <1>5 DEF First
<1>7. ~MoreToRead'
  BY <1>5 DEF MoreToRead
<1>8. CASE p.kind = "err"
  <2>1. PacketType(p) = "ERR"
    BY <1>8, PacketTypes
  <2>2. rc' = "ERR" /\ pc' = "ready" /\ more' = more /\ columns' = columns
    BY <1>3, <2>1 DEF ReadErr, HandleError, Recoverable
  <2>3. TypeOK'
    BY <1>1, <2>2, ReadsTyped, Codes, CallerTypes DEF PCs
  <2>4. f = Done /\ rc' \notin Refusals
    BY <1>6, <1>8, <2>2, Codes
  <2>5. QED BY <1>1, <1>2, <1>7, <2>2, <2>3, <2>4, ReplyGoesOn
<1>9. CASE p.kind = "stmt_ok"
  <2>1. PacketType(p) = "OK"
    BY <1>9, PacketTypes
  <2>2. columns' = p.n /\ rc' = "OK" /\ more' = more /\ pc' = IF p.n = 0 THEN "ready" ELSE "columns"
    BY <1>3, <2>1
  <2>3. p.n \in 0..(2 * MaxCols) /\ f = Cols(p.n, Done)
    BY <1>6, <1>9
  <2>4. TypeOK'
    BY <1>1, <2>2, <2>3, ReadsTyped, CallerTypes DEF PCs, Reading
  <2>5. rc' \notin Refusals
    BY <2>2, Codes
  <2>6. CASE p.n = 0
    <3>1. f = Done /\ pc' = "ready"
      BY <2>2, <2>3, <2>6 DEF Cols
    <3>2. QED BY <1>1, <1>2, <1>7, <2>4, <2>5, <3>1, ReplyGoesOn
  <2>7. CASE p.n # 0
    <3>1. f = At("cols", columns', FALSE) /\ pc' = "columns"
      BY <2>2, <2>3, <2>7 DEF Cols
    <3>2. columns' >= 1
      BY <2>2, <2>3, <2>7
    <3>3. Now(f)'
      BY <1>1, <1>5, <3>1, <3>2 DEF Now
    <3>4. QED BY <1>1, <1>2, <2>4, <2>5, <3>3, ReplyGoesOn
  <2>8. QED BY <2>6, <2>7
<1>10. QED BY <1>6, <1>8, <1>9

\* The receive functions of a reply of one packet.
LEMMA GenericRecvStep ==
  ASSUME ConnAssumption, Good, GenericRecv, ~astray'
  PROVE  Good'
<1> DEFINE p == Head(s2c)
<1>1. pc \in Reading /\ pc = "recv" /\ op \in Generic /\ Accept
      /\ UNCHANGED <<columns, rows, started_reading_rows>>
  BY DEF Reading, GenericRecv
<1>2. PICK e \in Expectations, f \in Expectations :
        /\ Now(e) /\ Follows(op, deprecate_eof, e, p, f)
        /\ Coming(op, deprecate_eof, s2c', srv.todo, peer_closed, f)
  BY <1>1, Accepted
<1>3. (CASE PacketType(p) = "OK" -> Finish("OK") /\ more' = ServerStatus(p)
         [] PacketType(p) = "ERR" -> ReadErr
         [] PacketType(p) = "EOF" /\ op = "set_option" ->
              IF deprecate_eof THEN Finish("OK") /\ more' = ServerStatus(p) ELSE Malformed("TRUNCATED_PACKET")
         [] OTHER -> Malformed("UNEXPECTED_PACKET"))
  BY DEF GenericRecv
<1>4. p \in OnWire
  BY <1>1, Accepted
<1> HIDE DEF p
<1>5. First(op, p, f)
  <2>1. e = Start
    BY <1>1, <1>2 DEF Now
  <2>2. QED BY <1>2, <2>1, FollowsWhere
<1>6. op \notin ResultOps /\ op # "prepare" /\ op' = op
  BY <1>1 DEF ResultOps, Generic, Accept
<1>7. f = Done /\ (p.kind = "ok" \/ p.kind = "err" \/ (op = "set_option" /\ p.kind = "eof"))
  BY <1>5, <1>6 DEF First
<1>8. op = "set_option" => deprecate_eof
  <2>1. op \in Plain \/ deprecate_eof
    BY <1>1 DEF Good, Counting
  <2>2. QED BY <2>1 DEF Plain
<1>9. p.more \in BOOLEAN
  BY <1>4 DEF OnWire
<1>10. pc' = "ready" /\ rc' \in {"OK", "ERR"} /\ more' \in BOOLEAN
  <2>1. CASE p.kind = "ok"
    <3>1. PacketType(p) = "OK"
      BY <2>1, PacketTypes
    <3>2. QED BY <1>3, <1>9, <3>1 DEF Finish, ServerStatus
  <2>2. CASE p.kind = "err"
    <3>1. PacketType(p) = "ERR"
      BY <2>2, PacketTypes
    <3>2. QED BY <1>3, <3>1, CallerTypes DEF ReadErr, HandleError, Recoverable
  <2>3. CASE op = "set_option" /\ p.kind = "eof"
    <3>1. PacketType(p) = "EOF" /\ deprecate_eof
      BY <1>8, <2>3, PacketTypes
    <3>2. Finish("OK") /\ more' = ServerStatus(p)
      BY <1>3, <2>3, <3>1
    <3>3. QED BY <1>9, <3>2 DEF Finish, ServerStatus
  <2>4. QED BY <1>7, <2>1, <2>2, <2>3
<1>11. TypeOK'
  BY <1>1, <1>10, ReadsTyped, Codes, CallerTypes DEF PCs
<1>12. ~MoreToRead' /\ rc' \notin Refusals
  BY <1>6, <1>10, Codes DEF MoreToRead
<1>13. QED BY <1>1, <1>2, <1>7, <1>10, <1>11, <1>12, ReplyGoesOn

\* trilogy_read_column
LEMMA ReadColumnStep ==
  ASSUME ConnAssumption, Good, ReadColumn, ~astray'
  PROVE  Good'
<1> DEFINE p == Head(s2c)
<1>1. pc \in Reading /\ pc = "columns" /\ Accept /\ UNCHANGED <<rows, started_reading_rows>>
  BY DEF Reading, ReadColumn
<1>2. PICK e \in Expectations, f \in Expectations :
        /\ Now(e) /\ Follows(op, deprecate_eof, e, p, f)
        /\ Coming(op, deprecate_eof, s2c', srv.todo, peer_closed, f)
  BY <1>1, Accepted
<1>3. e = At("cols", columns, FALSE) /\ columns >= 1 /\ op \in ResultOps \cup {"prepare"}
      /\ (op = "query" => ~started_reading_rows) /\ (op # "prepare" => rows = 0)
  BY <1>1, <1>2 DEF Now
<1>4. op' = op /\ deprecate_eof' = deprecate_eof
  BY <1>1 DEF Accept
<1>5. columns \in 0..(2 * MaxCols) /\ columns \in Nat /\ MaxCols \in Nat
  BY CallerTypes DEF ConnAssumption
<1>6. /\ p.kind = "col"
      /\ columns > 1 => f = At("cols", columns - 1, FALSE)
      /\ columns = 1 => Behind(op, deprecate_eof, f)
  BY <1>2, <1>3, <1>5, FollowsWhere
<1>7. /\ columns' = columns - 1 /\ rc' = "OK" /\ more' = more
      /\ pc' = CASE columns > 1 -> "columns"
                 [] columns = 1 /\ op = "prepare" -> "ready"
                 [] OTHER -> "rows"
  BY <1>6 DEF ReadColumn
<1> HIDE DEF p
<1>8. pc' \in {"columns", "ready", "rows"}
  BY <1>7
<1>9. TypeOK'
  <2>1. columns' \in 0..(2 * MaxCols)
    BY <1>3, <1>5, <1>7
  <2>2. QED BY <1>1, <1>7, <1>8, <2>1, ReadsTyped, CallerTypes DEF PCs, Reading
<1>10. rc' \notin Refusals
  BY <1>7, Codes
<1>11. CASE columns > 1
  <2>1. pc' = "columns" /\ columns' >= 1 /\ f = At("cols", columns', FALSE)
    BY <1>5, <1>6, <1>7, <1>11
  <2>2. Now(f)'
    BY <1>1, <1>3, <1>4, <2>1 DEF Now
  <2>3. QED BY <1>1, <1>2, <1>9, <1>10, <2>2, ReplyGoesOn
<1>12. CASE columns = 1 /\ op = "prepare"
  <2>1. pc' = "ready" /\ f = Done
    BY <1>6, <1>7, <1>12 DEF Behind
  <2>2. ~MoreToRead'
    BY <1>4, <1>12 DEF MoreToRead, ResultOps
  <2>3. QED BY <1>1, <1>2, <1>9, <1>10, <2>1, <2>2, ReplyGoesOn
<1>13. CASE columns = 1 /\ op # "prepare"
  <2>1. pc' = "rows" /\ op \in ResultOps /\ rows' = 0
    BY <1>1, <1>3, <1>7, <1>13
  <2>2. CASE deprecate_eof
    <3>1. \E m \in BOOLEAN : f = At("rows", 0, m)
      BY <1>6, <1>13, <2>2 DEF Behind
    <3>2. ~EofDue'
      BY <1>4, <2>2 DEF EofDue
    <3>3. Now(f)'
      BY <1>4, <2>1, <2>2, <3>1, <3>2 DEF Now
    <3>4. QED BY <1>1, <1>2, <1>9, <1>10, <3>3, ReplyGoesOn
  <2>3. CASE ~deprecate_eof
    <3>1. f = At("coleof", 0, FALSE)
      BY <1>6, <1>13, <2>3 DEF Behind
    <3>2. op = "query"
      <4>1. op \in Plain
        BY <1>1, <2>3 DEF Good, Counting
      <4>2. QED BY <2>1, <4>1 DEF Plain, ResultOps
    <3>3. EofDue'
      BY <1>1, <1>3, <1>4, <2>3, <3>2 DEF EofDue
    <3>4. Now(f)'
      BY <1>4, <2>1, <3>1, <3>3 DEF Now
    <3>5. QED BY <1>1, <1>2, <1>9, <1>10, <3>4, ReplyGoesOn
  <2>4. QED BY <2>2, <2>3
<1>14. QED BY <1>3, <1>5, <1>11, <1>12, <1>13

\* read_eof, from trilogy_read_row
LEMMA SkipEofStep ==
  ASSUME ConnAssumption, Good, SkipEof, ~astray'
  PROVE  Good'
<1> DEFINE p == Head(s2c)
<1>1. pc \in Reading /\ pc = "rows" /\ EofDue /\ Accept /\ UNCHANGED <<columns, rows>>
  BY DEF Reading, SkipEof
<1>2. PICK e \in Expectations, f \in Expectations :
        /\ Now(e) /\ Follows(op, deprecate_eof, e, p, f)
        /\ Coming(op, deprecate_eof, s2c', srv.todo, peer_closed, f)
  BY <1>1, Accepted
<1>3. e = At("coleof", 0, FALSE) /\ rows = 0 /\ op \in ResultOps
  BY <1>1, <1>2 DEF Now
<1>4. p.kind = "coleof" /\ f = At("rows", 0, p.more)
  BY <1>2, <1>3, FollowsWhere
<1>5. p \in OnWire
  BY <1>1, Accepted
<1>6. p.more \in BOOLEAN
  BY <1>5 DEF OnWire
<1>7. IsEof(p)
  BY <1>4, PacketTypes
<1>8. more' = p.more /\ started_reading_rows' = TRUE /\ pc' = pc /\ rc' = rc
  BY <1>7 DEF SkipEof, ServerStatus
<1> HIDE DEF p
<1>9. op' = op /\ ~EofDue'
  BY <1>1, <1>8 DEF Accept, EofDue
<1>10. TypeOK' /\ rc' \notin Refusals
  BY <1>1, <1>6, <1>8, ReadsTyped, CallerTypes
<1>11. Now(f)'
  BY <1>1, <1>3, <1>4, <1>6, <1>8, <1>9 DEF Now
<1>12. QED BY <1>1, <1>2, <1>10, <1>11, ReplyGoesOn

\* What trilogy_read_row and trilogy_stmt_read_row do among the rows.
LEMMA RowPacketStep ==
  ASSUME ConnAssumption, Good, pc = "rows", op \in ResultOps, ~EofDue, Accept, RowPacket(Head(s2c)), ~astray',
         started_reading_rows' \in BOOLEAN, ~EofDue', UNCHANGED columns
  PROVE  Good'
<1> DEFINE p == Head(s2c)
<1>1. pc \in Reading /\ op' = op /\ deprecate_eof' = deprecate_eof
  BY DEF Reading, Accept
<1>2. PICK e \in Expectations, f \in Expectations :
        /\ Now(e) /\ Follows(op, deprecate_eof, e, p, f)
        /\ Coming(op, deprecate_eof, s2c', srv.todo, peer_closed, f)
  BY <1>1, Accepted
<1>3. PICK m \in BOOLEAN : e = At("rows", rows, m) /\ (~deprecate_eof => m = more)
  BY <1>2 DEF Now
<1>4. AmongRows(op, rows, m, p, f)
  BY <1>2, <1>3, FollowsWhere
<1>5. RowPacket(p) /\ p.kind # "longeof"
  BY DEF Accept
<1> HIDE DEF p
<1>6. rows \in 0..MaxRows /\ MaxRows \in Nat
  BY CallerTypes DEF ConnAssumption
<1>7. CASE p.kind = "row" \/ p.kind = "bigrow"
  <2>1. ~IsEof(p) /\ PacketType(p) # "ERR"
    BY <1>7, PacketTypes
  <2>2. rc' = "OK" /\ rows' = rows + 1 /\ pc' = pc /\ more' = more
    BY <1>5, <2>1 DEF RowPacket, ARow
  <2>3. rows < MaxRows /\ f = At("rows", rows + 1, m)
    BY <1>4, <1>7 DEF AmongRows
  <2>4. rows' \in 0..MaxRows
    BY <1>6, <2>2, <2>3
  <2>5. TypeOK' /\ rc' \notin Refusals
    BY <1>1, <2>2, <2>4, ReadsTyped, CallerTypes, Codes
  <2>6. Now(f)'
    BY <1>1, <1>3, <2>2, <2>3 DEF Now
  <2>7. QED BY <1>1, <1>2, <2>5, <2>6, ReplyGoesOn
<1>8. CASE p.kind = "eof"
  <2>1. IsEof(p) /\ PacketType(p) # "ERR"
    BY <1>8, PacketTypes
  <2>2. rc' = "EOF" /\ pc' = "ready" /\ more' = p.more /\ rows' = rows
    BY <1>5, <2>1 DEF RowPacket, Finish, ServerStatus
  <2>3. p.more = m /\ f = IF m THEN Start ELSE Done
    BY <1>4, <1>8 DEF AmongRows
  <2>4. TypeOK' /\ rc' \notin Refusals
    BY <1>1, <2>2, <2>3, ReadsTyped, CallerTypes, Codes DEF PCs
  <2>5. CASE m = TRUE
    <3>1. Now(f)'
      BY <1>1, <2>2, <2>3, <2>5 DEF Now, MoreToRead
    <3>2. QED BY <1>1, <1>2, <2>4, <3>1, ReplyGoesOn
  <2>6. CASE m = FALSE
    <3>1. f = Done /\ ~MoreToRead'
      BY <2>2, <2>3, <2>6 DEF MoreToRead
    <3>2. QED BY <1>1, <1>2, <2>2, <2>4, <3>1, ReplyGoesOn
  <2>7. QED BY <2>5, <2>6
<1>9. CASE p.kind = "err"
  <2>1. ~IsEof(p) /\ PacketType(p) = "ERR"
    BY <1>9, PacketTypes
  <2>2. rc' = "ERR" /\ pc' = "ready" /\ more' = more /\ rows' = rows
    BY <1>5, <2>1 DEF RowPacket, ReadErr, HandleError, Recoverable
  <2>3. f = Done /\ ~MoreToRead'
    BY <1>4, <1>9, <2>2 DEF AmongRows, MoreToRead
  <2>4. TypeOK' /\ rc' \notin Refusals
    BY <1>1, <2>2, ReadsTyped, CallerTypes, Codes DEF PCs
  <2>5. QED BY <1>1, <1>2, <2>2, <2>3, <2>4, ReplyGoesOn
<1>10. QED BY <1>4, <1>5, <1>7, <1>8, <1>9 DEF AmongRows

\* trilogy_read_row past the EOF behind the columns
LEMMA ReadRowStep ==
  ASSUME ConnAssumption, Good, ReadRow, ~astray'
  PROVE  Good'
<1>1. pc = "rows" /\ op \in ResultOps /\ ~EofDue /\ Accept /\ RowPacket(Head(s2c)) /\ UNCHANGED columns
      /\ started_reading_rows' = TRUE
  BY DEF ReadRow, ResultOps
<1>2. ~EofDue'
  BY <1>1 DEF EofDue
<1>3. QED BY <1>1, <1>2, RowPacketStep

\* trilogy_stmt_read_row
LEMMA StmtReadRowStep ==
  ASSUME ConnAssumption, Good, StmtReadRow, ~astray'
  PROVE  Good'
<1>1. pc = "rows" /\ op = "execute" /\ op \in ResultOps /\ Accept /\ RowPacket(Head(s2c)) /\ UNCHANGED columns
      /\ started_reading_rows' = started_reading_rows
  BY DEF StmtReadRow, ResultOps
<1>2. ~EofDue /\ ~EofDue'
  BY <1>1 DEF EofDue, Accept
<1>3. QED BY <1>1, <1>2, RowPacketStep, CallerTypes

\* trilogy_drain_results, of a server without DEPRECATE_EOF
LEMMA DrainPacketStep ==
  ASSUME ConnAssumption, Good, DrainPacket, ~astray'
  PROVE  Good'
<1> DEFINE p == Head(s2c)
<1>1. pc \in Reading /\ pc = "drain" /\ Accept /\ UNCHANGED <<columns, rows>>
  BY DEF Reading, DrainPacket
<1>2. PICK e \in Expectations, f \in Expectations :
        /\ Now(e) /\ Follows(op, deprecate_eof, e, p, f)
        /\ Coming(op, deprecate_eof, s2c', srv.todo, peer_closed, f)
  BY <1>1, Accepted
<1>3. (CASE started_reading_rows /\ IsEof(p) -> Finish("OK") /\ UNCHANGED <<more, started_reading_rows>>
         [] started_reading_rows /\ ~IsEof(p) -> UNCHANGED <<pc, rc, more, started_reading_rows>>
         [] ~started_reading_rows /\ p.kind \in {"eof", "longeof", "coleof"} ->
              started_reading_rows' = TRUE /\ more' = ServerStatus(p) /\ UNCHANGED <<pc, rc>>
         [] OTHER -> \/ started_reading_rows' = TRUE /\ more' \in BOOLEAN /\ UNCHANGED <<pc, rc>>
                     \/ Malformed("PROTOCOL_VIOLATION") /\ UNCHANGED started_reading_rows)
  BY DEF DrainPacket
<1>4. p \in OnWire
  BY <1>1, Accepted
<1>12. p.kind # "longeof"
  BY <1>1 DEF Accept
<1> HIDE DEF p
<1>5. op = "query" /\ ~deprecate_eof /\ op' = op /\ deprecate_eof' = deprecate_eof /\ op \in ResultOps
  BY <1>1, <1>2 DEF Now, Accept, ResultOps
<1>6. \/ ~started_reading_rows /\ e = At("coleof", 0, FALSE)
      \/ started_reading_rows /\ e = Done
      \/ started_reading_rows /\ \E k \in Nat : e = At("rows", k, more)
  BY <1>1, <1>2 DEF Now
<1>7. p.more \in BOOLEAN
  BY <1>4 DEF OnWire
<1>8. CASE ~started_reading_rows /\ e = At("coleof", 0, FALSE)
  <2>1. p.kind = "coleof" /\ f = At("rows", 0, p.more)
    BY <1>2, <1>8, FollowsWhere
  <2>3. started_reading_rows' = TRUE /\ more' = p.more /\ pc' = pc /\ rc' = rc
    BY <1>3, <1>8, <2>1 DEF ServerStatus
  <2>4. TypeOK' /\ rc' \notin Refusals
    BY <1>1, <1>7, <2>3, ReadsTyped, CallerTypes
  <2>5. Now(f)'
    BY <1>1, <1>5, <2>1, <2>3 DEF Now
  <2>6. QED BY <1>1, <1>2, <2>4, <2>5, ReplyGoesOn
<1>9. CASE started_reading_rows /\ e = Done
  BY <1>2, <1>9, NothingFollows
<1>10. ASSUME started_reading_rows, NEW k \in Nat, e = At("rows", k, more) PROVE Good'
  <2>1. AmongRows(op, k, more, p, f)
    BY <1>2, <1>10, FollowsWhere
  <2>2. CASE p.kind \in {"row", "bigrow"}
    <3>1. ~IsEof(p)
      BY <2>2, PacketTypes
    <3>2. UNCHANGED <<pc, rc, more, started_reading_rows>>
      BY <1>3, <1>10, <3>1
    <3>3. f = At("rows", k + 1, more) /\ k + 1 \in Nat
      BY <2>1, <2>2 DEF AmongRows
    <3>4. TypeOK' /\ rc' \notin Refusals
      BY <1>1, <3>2, ReadsTyped, CallerTypes
    <3>5. Now(f)'
      BY <1>1, <1>5, <1>10, <3>2, <3>3 DEF Now
    <3>6. QED BY <1>1, <1>2, <3>4, <3>5, ReplyGoesOn
  <2>3. CASE p.kind = "eof"
    <3>1. IsEof(p)
      BY <2>3, PacketTypes
    <3>2. rc' = "OK" /\ pc' = "ready" /\ UNCHANGED <<more, started_reading_rows>>
      BY <1>3, <1>10, <3>1 DEF Finish
    <3>3. f = IF more THEN Start ELSE Done
      BY <2>1, <2>3 DEF AmongRows
    <3>4. TypeOK' /\ rc' \notin Refusals
      BY <1>1, <3>2, ReadsTyped, CallerTypes, Codes DEF PCs
    <3>5. CASE more = TRUE
      <4>1. Now(f)'
        BY <1>5, <3>2, <3>3, <3>5 DEF Now, MoreToRead
      <4>2. QED BY <1>1, <1>2, <3>4, <4>1, ReplyGoesOn
    <3>6. CASE more = FALSE
      <4>1. f = Done /\ ~MoreToRead'
        BY <3>2, <3>3, <3>6 DEF MoreToRead
      <4>2. QED BY <1>1, <1>2, <3>2, <3>4, <4>1, ReplyGoesOn
    <3>7. QED BY <3>5, <3>6, CallerTypes
  <2>4. CASE p.kind = "err"
    <3>1. ~IsEof(p)
      BY <2>4, PacketTypes
    <3>2. UNCHANGED <<pc, rc, more, started_reading_rows>>
      BY <1>3, <1>10, <3>1
    <3>3. f = Done
      BY <2>1, <2>4 DEF AmongRows
    <3>4. TypeOK' /\ rc' \notin Refusals
      BY <1>1, <3>2, ReadsTyped, CallerTypes
    <3>5. Now(f)'
      BY <1>1, <1>5, <1>10, <3>2, <3>3 DEF Now
    <3>6. QED BY <1>1, <1>2, <3>4, <3>5, ReplyGoesOn
  <2>5. QED BY <1>12, <2>1, <2>2, <2>3, <2>4 DEF AmongRows
<1>11. QED BY <1>6, <1>8, <1>9, <1>10

-----------------------------------------------------------------------------
(* Closing, and what the caller does between packets.                        *)

\* The connection is closed.
LEMMA ClosingStep ==
  ASSUME ConnAssumption, Good, pc' = "closed", rc' \in Errors \cup {"OK", "EOF"}, rc' \notin Refusals,
         op' \in AllOps, sequence_number' \in Numbers,
         UNCHANGED <<cmd, frags, unsent, more, started_reading_rows, columns, rows, astray, wireVars>>
  PROVE  Good'
<1>1. Typed /\ Counting
  BY DEF Good
<1>2. UNCHANGED <<c2s, s2c, srv, peer_closed, deprecate_eof>>
  BY DEF wireVars
<1>3. TypeOK'
  BY <1>1, <1>2 DEF Typed, TypeOK, PCs, Numbers
<1>4. Typed'
  BY <1>1, <1>2, <1>3 DEF Typed
<1>5. Counting'
  <2>1. /\ \A i \in 1..Len(c2s') : c2s'[i].cmd = srv'.cmd + i
        /\ srv'.cmd + Len(c2s') <= cmd'
        /\ more' => cmd' >= 1
        /\ \A i \in 1..Len(c2s') : c2s'[i].op \in Plain \/ deprecate_eof'
    BY <1>1, <1>2 DEF Counting
  <2>2. pc' \in {"flush", "closed"} /\ pc' # "flush"
    OBVIOUS
  <2>3. QED BY <2>1, <2>2 DEF Counting
<1>6. QED BY <1>4, <1>5 DEF Good

\* Only pc, rc and started_reading_rows change, while a reply is coming.
LEMMA CallerMoves ==
  ASSUME ConnAssumption, Good, pc \in {"ready", "rows"}, pc' \in {"recv", "rows", "drain"}, rc' = rc,
         started_reading_rows' \in BOOLEAN,
         pc = "rows" \/ rc # "MAX_PACKET_EXCEEDED",
         astray' \in BOOLEAN, ~astray',
         UNCHANGED <<op, cmd, frags, unsent, sequence_number, more, columns, rows, wireVars>>
  PROVE  /\ Typed' /\ Counting' /\ rc' \notin Refusals
         /\ \A e \in Expectations : Replying /\ Coming(op, deprecate_eof, s2c, srv.todo, peer_closed, e) /\ Now(e)' => Good'
<1>1. Typed /\ Counting /\ rc \notin Refusals
  BY DEF Good
<1>2. UNCHANGED <<c2s, s2c, srv, peer_closed, deprecate_eof>>
  BY DEF wireVars
<1>3. TypeOK'
  BY <1>1, <1>2 DEF Typed, TypeOK, PCs, Reading
<1>4. Typed'
  BY <1>1, <1>2, <1>3 DEF Typed
<1>5. Counting'
  <2>1. /\ \A i \in 1..Len(c2s') : c2s'[i].cmd = srv'.cmd + i
        /\ srv'.cmd + Len(c2s') <= cmd'
        /\ more' => cmd' >= 1
        /\ \A i \in 1..Len(c2s') : c2s'[i].op \in Plain \/ deprecate_eof'
    BY <1>1, <1>2 DEF Counting
  <2>2. pc' \notin {"flush", "closed"} /\ pc' # "flush" /\ pc \notin {"flush", "closed"} /\ pc # "flush"
    OBVIOUS
  <2>3. ~peer_closed' => srv'.cmd + Len(c2s') = cmd'
    BY <1>1, <1>2, <2>2 DEF Counting
  <2>4. op' \in Plain \/ deprecate_eof'
    <3>1. op \in Plain \/ deprecate_eof
      BY <1>1 DEF Counting
    <3>2. op' = op /\ deprecate_eof' = deprecate_eof
      BY <1>2
    <3>3. QED BY <3>1, <3>2, Zenon
  <2>5. QED BY <2>1, <2>2, <2>3, <2>4 DEF Counting
<1>6. ASSUME NEW e \in Expectations, Replying, Coming(op, deprecate_eof, s2c, srv.todo, peer_closed, e), Now(e)'
      PROVE  Good'
  <2>1. Replying'
    BY <1>2, <1>6 DEF Replying
  <2>2. QED BY <1>1, <1>4, <1>5, <2>1 DEF Good
<1>7. QED BY <1>1, <1>4, <1>5, <1>6

\* In a call that reads a result, a reply is coming.
LEMMA RowsComing ==
  ASSUME Good, pc \in {"columns", "rows", "drain"}
  PROVE  Replying /\ \E e \in Expectations :
           Now(e) /\ Coming(op, deprecate_eof, s2c, srv.todo, peer_closed, e)
<1>1. Replying
  BY DEF Good, Waiting, TooLarge
<1>2. QED BY <1>1 DEF Replying

\* A read_row that returns TRILOGY_AGAIN.
LEMMA ReadRowAgainStep ==
  ASSUME ConnAssumption, Good, ReadRowAgain
  PROVE  Good'
<1>1. /\ pc = "rows" /\ op = "query" /\ deprecate_eof /\ started_reading_rows' = TRUE
      /\ UNCHANGED <<pc, op, cmd, rc, frags, unsent, sequence_number, more, columns, rows, wireVars>>
      /\ ~astray' /\ astray' \in BOOLEAN
  BY DEF ReadRowAgain, Good, Typed, TypeOK
<1>2. PICK e \in Expectations : Now(e) /\ Coming(op, deprecate_eof, s2c, srv.todo, peer_closed, e)
  BY <1>1, RowsComing
<1>3. ~EofDue /\ ~EofDue' /\ deprecate_eof'
  BY <1>1 DEF EofDue, wireVars
<1>4. op \in ResultOps /\ \E m \in BOOLEAN : e = At("rows", rows, m)
  BY <1>1, <1>2, <1>3 DEF Now
<1>5. Now(e)'
  BY <1>1, <1>3, <1>4 DEF Now
<1>6. QED BY <1>1, <1>2, <1>5, RowsComing, CallerMoves

\* The caller starts to drain.
LEMMA StartDrainStep ==
  ASSUME ConnAssumption, Good, StartDrain, ~astray'
  PROVE  Good'
<1>1. /\ pc = "rows" /\ op = "query" /\ pc' = "drain" /\ ~deprecate_eof
      /\ UNCHANGED <<op, cmd, rc, frags, unsent, sequence_number, more, started_reading_rows, columns, rows,
                     wireVars>>
      /\ astray' \in BOOLEAN
  BY DEF StartDrain
<1>2. PICK e \in Expectations : Now(e) /\ Coming(op, deprecate_eof, s2c, srv.todo, peer_closed, e)
  BY <1>1, RowsComing
<1>3. deprecate_eof' = deprecate_eof /\ rows \in Nat
  BY <1>1, CallerTypes DEF wireVars, ConnAssumption
<1>4. \/ ~started_reading_rows /\ e = At("coleof", 0, FALSE)
      \/ started_reading_rows /\ e = At("rows", rows, more)
  BY <1>1, <1>2 DEF Now, EofDue
<1>5. Now(e)'
  BY <1>1, <1>3, <1>4 DEF Now
<1>6. started_reading_rows' \in BOOLEAN
  BY <1>1, CallerTypes
<1>7. QED BY <1>1, <1>2, <1>5, <1>6, RowsComing, CallerMoves

\* next_result
LEMMA NextResultStep ==
  ASSUME ConnAssumption, Good, NextResult, ~astray'
  PROVE  Good'
<1>1. /\ pc = "ready" /\ more /\ op \in ResultOps /\ pc' = "recv"
      /\ UNCHANGED <<op, cmd, rc, frags, unsent, sequence_number, more, started_reading_rows, columns, rows,
                     wireVars>>
      /\ rc \in {"OK", "EOF"} /\ astray' \in BOOLEAN
  BY DEF NextResult
<1>2. ~TooLarge /\ started_reading_rows' \in BOOLEAN
  BY <1>1, CallerTypes DEF TooLarge
<1>5. CASE Replying
  <2>1. PICK e \in Expectations : Now(e) /\ Coming(op, deprecate_eof, s2c, srv.todo, peer_closed, e)
    BY <1>5 DEF Replying
  <2>2. e = Start
    BY <1>1, <2>1 DEF Now
  <2>3. Now(e)'
    BY <1>1, <2>2 DEF Now
  <2>4. QED BY <1>1, <1>2, <1>5, <2>1, <2>3, CallerMoves
<1>6. ~Waiting
  BY <1>1 DEF Waiting, MoreToRead
<1>7. QED BY <1>1, <1>2, <1>5, <1>6 DEF Good

\* No packet has a number the caller does not expect.
LEMMA RefuseStep ==
  ASSUME Good, Refuse
  PROVE  FALSE
<1>1. pc \in Reading /\ s2c # <<>> /\ Head(s2c).seq # sequence_number
  BY DEF Refuse
<1>2. Replying /\ s2c \in Seq(OnWire)
  BY <1>1 DEF Good, Waiting, TooLarge, Reading, Typed
<1>3. s2c[1].seq = sequence_number
  BY <1>1, <1>2 DEF Replying, Chained
<1>4. Head(s2c) = s2c[1]
  BY <1>1, <1>2
<1>5. QED BY <1>1, <1>3, <1>4

\* trilogy_close_recv finds no packet: the server does not answer it.
LEMMA CloseRecvStep ==
  ASSUME ConnAssumption, Good, CloseRecv
  PROVE  Good'
<1>1. /\ pc = "recv" /\ op = "quit" /\ pc' = "closed"
      /\ UNCHANGED <<op, cmd, frags, unsent, sequence_number, more, started_reading_rows, columns, rows,
                     astray, wireVars>>
  BY DEF CloseRecv
<1>2. s2c = <<>>
  <2>1. SUFFICES ASSUME s2c # <<>> PROVE FALSE
    OBVIOUS
  <2>2. Replying /\ Typed
    BY <1>1, <2>1 DEF Good, Waiting, TooLarge
  <2>3. s2c \in Seq(OnWire) /\ srv.todo \in Seq(Contents)
    BY <2>2 DEF Typed
  <2>4. PICK e \in Expectations : Now(e) /\ Coming(op, deprecate_eof, s2c, srv.todo, peer_closed, e)
    BY <2>2 DEF Replying
  <2>5. e = Start
    BY <1>1, <2>4 DEF Now
  <2>6. PICK r : Run(op, deprecate_eof, s2c, srv.todo, peer_closed, r) /\ r[1] = e
    BY <2>4 DEF Coming
  <2>7. 1 \in 1..Len(s2c)
    BY <2>1, <2>3, EmptySeq
  <2>8. Follows(op, deprecate_eof, Start, s2c[1], r[1 + 1])
    BY <2>5, <2>6, <2>7 DEF Run
  <2>9. First("quit", s2c[1], r[1 + 1])
    BY <1>1, <2>8, FollowsWhere
  <2>10. QED BY <2>9 DEF First, ResultOps, Generic
<1>3. rc' = "OK"
  BY <1>2 DEF CloseRecv
<1>4. op' \in AllOps /\ sequence_number' \in Numbers
  BY <1>1 DEF Good, Typed, TypeOK, Numbers
<1>5. QED BY <1>1, <1>3, <1>4, ClosingStep, Codes

\* An error that the connection does not survive, or a discard.
LEMMA BreakStep ==
  ASSUME ConnAssumption, Good, FlushFails \/ Timeout \/ PeerGone \/ Discard
  PROVE  Good'
<1>1. /\ pc' = "closed" /\ rc' \in {"SYSERR", "TIMEOUT", "CLOSED_CONNECTION", "OK"}
      /\ UNCHANGED <<op, cmd, frags, unsent, sequence_number, more, started_reading_rows, columns, rows,
                     astray, wireVars>>
  BY DEF FlushFails, Timeout, PeerGone, Discard, HandleError, Recoverable
<1>2. op' \in AllOps /\ sequence_number' \in Numbers
  BY <1>1 DEF Good, Typed, TypeOK, Numbers
<1>3. QED BY <1>1, <1>2, ClosingStep, Codes

-----------------------------------------------------------------------------
(* Sending.                                                                  *)

\* A command is appended to those on the way.
LEMMA Appended ==
  ASSUME NEW x \in Command, c2s \in Seq(Command), NEW n \in Nat, n = Len(c2s), NEW q, q = Append(c2s, x)
  PROVE  /\ q \in Seq(Command) /\ Len(q) = n + 1 /\ q[n + 1] = x /\ \A i \in 1..n : q[i] = c2s[i]
         /\ n + 1 >= 1 /\ n + 1 \in Nat /\ (n + 1) - 1 = n /\ \A i \in 1..(n + 1) : i \in 1..n \/ i = n + 1
         /\ q # <<>>
<1>1. q \in Seq(Command) /\ Len(q) = n + 1 /\ q[n + 1] = x /\ \A i \in 1..n : q[i] = c2s[i]
  OBVIOUS
<1>2. n + 1 >= 1 /\ n + 1 \in Nat /\ (n + 1) - 1 = n /\ \A i \in 1..(n + 1) : i \in 1..n \/ i = n + 1
  OBVIOUS
<1>3. Len(q) # 0
  BY <1>1
<1>4. QED BY <1>1, <1>2, <1>3, EmptySeq

\* When no reply is on the way, the socket takes a part of the next command or
\* the last of it.
LEMMA HandOverStep ==
  ASSUME ConnAssumption, Typed, NEW o \in AllOps, NEW f \in 1..MaxFrags, NEW left \in 0..f, NEW y \in 1..MaxCommands,
         HandOver(o, y, left, f), op' = o, cmd' = y, frags' = f, rc' = "OK", astray' \in BOOLEAN, ~astray',
         sequence_number' \in Numbers, o \notin Silent => sequence_number' = f % SeqCount,
         o \in Plain \/ deprecate_eof, \A i \in 1..Len(c2s) : c2s[i].op \in Plain \/ deprecate_eof,
         s2c = <<>>, srv.todo = <<>>, AllSilent(Len(c2s)),
         \A i \in 1..Len(c2s) : c2s[i].cmd = srv.cmd + i,
         srv.cmd + Len(c2s) <= y, ~peer_closed => srv.cmd + Len(c2s) + 1 = y,
         UNCHANGED <<more, started_reading_rows, columns, rows, s2c, srv, peer_closed, deprecate_eof>>
  PROVE  Good'
<1> DEFINE x == [op |-> o, cmd |-> y, frags |-> f]
<1>1. y \in Nat /\ y >= 1 /\ f \in Nat /\ f >= 1 /\ f <= MaxFrags /\ MaxFrags \in Nat /\ left \in 0..f /\ y <= MaxCommands
  BY DEF ConnAssumption
<1>2. c2s \in Seq(Command) /\ x \in Command
  BY <1>1 DEF Typed, Command
<1>3. PICK n \in Nat : n = Len(c2s)
  BY <1>2
<1>4. PICK c \in Nat : c = srv.cmd
  BY DEF Typed
<1>5. /\ c + n <= y /\ (~peer_closed => c + n + 1 = y) /\ \A i \in 1..n : c2s[i].cmd = c + i
      /\ \A i \in 1..n : c2s[i].op \in Silent
      /\ \A i \in 1..n : c2s[i].op \in Plain \/ deprecate_eof
  BY <1>3, <1>4 DEF AllSilent
<1>6. c + n <= y /\ c + (n + 1) = c + n + 1
  BY <1>1, <1>5
<1>7. /\ unsent' = left
      /\ left > 0 => pc' = "flush" /\ c2s' = c2s
      /\ left = 0 => /\ pc' = IF o \in Silent THEN "ready" ELSE "recv"
                     /\ c2s' = IF peer_closed THEN c2s ELSE Append(c2s, x)
  BY <1>1 DEF HandOver
<1>8. left > 0 \/ left = 0
  BY <1>1
<1>9. pc' \in {"flush", "ready", "recv"}
  BY <1>7, <1>8
<1> HIDE DEF x
<1>10. c2s' \in Seq(Command)
  <2>1. Append(c2s, x) \in Seq(Command)
    BY <1>2
  <2>2. c2s' = c2s \/ c2s' = Append(c2s, x)
    BY <1>7, <1>8
  <2>3. QED BY <1>2, <2>1, <2>2
<1>11. TypeOK'
  <2>1. frags' \in 0..MaxFrags /\ unsent' \in 0..frags' /\ cmd' \in 0..MaxCommands
    BY <1>1, <1>7 DEF ConnAssumption
  <2>2. pc' \in PCs /\ rc' \in Errors \cup {"OK", "EOF"}
    BY <1>9 DEF PCs, Reading
  <2>3. /\ more' \in BOOLEAN /\ started_reading_rows' \in BOOLEAN /\ columns' \in 0..(2 * MaxCols)
        /\ rows' \in Nat /\ rows' <= MaxRows /\ deprecate_eof' \in BOOLEAN /\ peer_closed' \in BOOLEAN
        /\ \A i \in 1..Len(s2c') : s2c'[i].kind \in Kinds /\ s2c'[i].seq \in 0..(SeqCount - 1)
    BY DEF Typed, TypeOK
  <2>4. QED BY <2>1, <2>2, <2>3 DEF TypeOK, Numbers
<1>12. Typed'
  BY <1>10, <1>11 DEF Typed
<1>13. rc' \notin Refusals /\ (o \in Silent => o \notin ResultOps)
  BY Codes DEF Silent, ResultOps
<1>14. srv'.cmd = c /\ s2c' = <<>> /\ srv'.todo = <<>> /\ peer_closed' = peer_closed /\ deprecate_eof' = deprecate_eof
  BY <1>4
<1>15. o \notin Silent => sequence_number' = frags' % SeqCount
  OBVIOUS
<1>16. op' \in Plain \/ deprecate_eof'
  BY <1>14
<1>17. CASE c2s' = c2s /\ (left > 0 \/ peer_closed)
  <2>1. Len(c2s') = n /\ AllSilent(Len(c2s))'
    BY <1>3, <1>5, <1>17 DEF AllSilent
  <2>2. Counting'
    <3>1. \A i \in 1..Len(c2s') : c2s'[i].cmd = srv'.cmd + i
      BY <1>5, <1>14, <1>17, <2>1
    <3>2. \A i \in 1..Len(c2s') : c2s'[i].op \in Plain \/ deprecate_eof'
      BY <1>5, <1>14, <1>17, <2>1
    <3>3. srv'.cmd + Len(c2s') <= cmd' /\ cmd' >= 1
      BY <1>1, <1>6, <1>14, <2>1
    <3>4. left > 0 => pc' = "flush"
      BY <1>7
    <3>5. ~peer_closed' /\ pc' \notin {"flush", "closed"} => srv'.cmd + Len(c2s') = cmd'
      BY <1>14, <1>17, <3>4
    <3>6. ~peer_closed' /\ pc' = "flush" => srv'.cmd + Len(c2s') + 1 = cmd'
      BY <1>5, <1>14, <2>1
    <3>7. QED BY <1>16, <3>1, <3>2, <3>3, <3>5, <3>6 DEF Counting
  <2>3. Waiting'
    <3>1. CASE left > 0
      <4>1. pc' = "flush" /\ WellNumbered'
        BY <1>7, <1>15, <3>1 DEF WellNumbered
      <4>2. QED BY <1>14, <2>1, <4>1 DEF Waiting
    <3>2. CASE left = 0
      <4>1. peer_closed' /\ pc' = IF o \in Silent THEN "ready" ELSE "recv"
        BY <1>7, <1>14, <1>17, <3>2
      <4>2. CASE o \in Silent
        BY <1>13, <1>14, <2>1, <4>1, <4>2 DEF Waiting, MoreToRead
      <4>3. CASE o \notin Silent
        BY <1>14, <4>1, <4>3 DEF Waiting
      <4>4. QED BY <4>2, <4>3
    <3>3. QED BY <1>8, <3>1, <3>2
  <2>4. QED BY <1>12, <1>13, <2>2, <2>3 DEF Good
<1>18. CASE left = 0 /\ ~peer_closed /\ c2s' = Append(c2s, x)
  <2>1. pc' = IF o \in Silent THEN "ready" ELSE "recv"
    BY <1>7, <1>18
  <2>2. /\ Len(c2s') = n + 1 /\ c2s'[n + 1] = x /\ \A i \in 1..n : c2s'[i] = c2s[i]
        /\ n + 1 >= 1 /\ n + 1 \in Nat /\ (n + 1) - 1 = n /\ \A i \in 1..(n + 1) : i \in 1..n \/ i = n + 1
        /\ c2s' # <<>>
    BY <1>2, <1>3, <1>18, Appended
  <2>3. x.op = o /\ x.cmd = y /\ x = [op |-> o, cmd |-> y, frags |-> f]
    BY DEF x
  <2>4. c + (n + 1) = y
    BY <1>5, <1>6, <1>18
  <2>5. Counting'
    <3>1. \A i \in 1..(n + 1) : c2s'[i].cmd = c + i
      BY <1>5, <2>2, <2>3, <2>4
    <3>2. \A i \in 1..(n + 1) : c2s'[i].op \in Plain \/ deprecate_eof
      BY <1>5, <2>2, <2>3
    <3>3. pc' # "flush"
      BY <2>1
    <3>4. y <= y
      BY <1>1
    <3>5. QED BY <1>1, <1>14, <1>16, <2>2, <2>4, <3>1, <3>2, <3>3, <3>4 DEF Counting
  <2>6. Waiting'
    <3>1. CASE o \in Silent
      <4>1. AllSilent(Len(c2s))'
        BY <1>5, <2>2, <2>3, <3>1 DEF AllSilent
      <4>2. QED BY <1>13, <1>14, <2>1, <3>1, <4>1 DEF Waiting, MoreToRead
    <3>2. CASE o \notin Silent
      <4>1. AllSilent(Len(c2s) - 1)'
        BY <1>5, <2>2 DEF AllSilent
      <4>2. c2s'[Len(c2s')] = [op |-> op', cmd |-> cmd', frags |-> frags']
        BY <2>2, <2>3
      <4>3. InLine'
        BY <1>15, <2>2, <3>2, <4>1, <4>2 DEF InLine, WellNumbered
      <4>4. QED BY <1>14, <2>1, <3>2, <4>3 DEF Waiting
    <3>3. QED BY <3>1, <3>2
  <2>7. QED BY <1>12, <1>13, <2>5, <2>6 DEF Good
<1>19. QED BY <1>7, <1>8, <1>17, <1>18 DEF x

\* When the caller may send, nobody waits for what is on the way.
LEMMA ReadySilent ==
  ASSUME Good, pc = "ready"
  PROVE  AllSilent(Len(c2s))
<1>1. CASE Replying
  <2>1. Len(c2s) = 0 /\ 1..0 = {}
    BY <1>1 DEF Replying
  <2>2. QED BY <2>1 DEF AllSilent
<1>2. CASE Waiting \/ TooLarge
  BY <1>2 DEF Waiting, TooLarge
<1>3. QED BY <1>1, <1>2 DEF Good

\* The *_send functions, with nothing left to be read.
LEMMA SendStep ==
  ASSUME ConnAssumption, Good, NEW o \in Ops, NEW f \in 1..MaxFrags, Send(o, f), ~astray'
  PROVE  Good'
<1>1. /\ pc = "ready" /\ cmd < MaxCommands
      /\ op' = o /\ cmd' = cmd + 1 /\ rc' = "OK" /\ frags' = f
      /\ sequence_number' = ReplySeq(o, f)
      /\ UNCHANGED <<more, started_reading_rows, columns, rows, s2c, srv, peer_closed, deprecate_eof>>
  BY DEF Send
<1>2. /\ f > 1 => o \in ResultOps \cup Silent
      /\ o \in {"prepare", "execute", "set_option"} => deprecate_eof
      /\ ~(more /\ Pending)
  <2>1. Beyond(o, f) = {}
    BY DEF Send
  <2>2. \A h \in {"abandon", "large", "legacy"} : h \notin Beyond(o, f)
    BY <2>1
  <2>3. QED BY <2>2 DEF Beyond
<1>3. Typed /\ Counting
  BY DEF Good
<1>4. s2c = <<>> /\ srv.todo = <<>>
  <2>1. Pending => more
    BY <1>1 DEF Good, Waiting, Replying, Now, MoreToRead, TooLarge, Pending
  <2>2. QED BY <1>2, <2>1 DEF Pending
<1>5. o \in AllOps /\ SeqCount \in Nat /\ SeqCount >= 2 /\ f \in Nat /\ f >= 1
  BY DEF ConnAssumption
<1>6. o \in Plain \/ deprecate_eof
  BY <1>2, <1>5 DEF Plain
<1>7. f % SeqCount \in Numbers /\ 1 \in Numbers /\ 1 % SeqCount = 1
  <2>1. f % SeqCount \in 0..(SeqCount - 1)
    BY <1>5
  <2>2. 1 \in 0..(SeqCount - 1)
    BY <1>5
  <2>3. 1 % SeqCount = 1
    BY <1>5
  <2>4. QED BY <2>1, <2>2, <2>3 DEF Numbers
<1>8. sequence_number' \in Numbers /\ (o \notin Silent => sequence_number' = f % SeqCount)
  <2>1. CASE o \in ResultOps
    BY <1>1, <1>7, <2>1 DEF ReplySeq
  <2>2. CASE o \notin ResultOps
    <3>1. sequence_number' = 1
      BY <1>1, <2>2 DEF ReplySeq
    <3>2. o \in Silent \/ f = 1
      BY <1>2, <1>5, <2>2
    <3>3. QED BY <1>7, <3>1, <3>2
  <2>3. QED BY <2>1, <2>2
<1>9. PICK y \in 1..MaxCommands : y = cmd + 1
  <2>1. cmd \in 0..MaxCommands /\ MaxCommands \in Nat
    BY <1>3 DEF Typed, TypeOK, ConnAssumption
  <2>2. cmd + 1 \in 1..MaxCommands
    BY <1>1, <2>1
  <2>3. QED BY <2>2
<1>10. cmd' = y
  BY <1>1, <1>9
<1>11. PICK left \in 0..f : HandOver(o, y, left, f)
  <2>1. \E left \in 0..f : HandOver(o, cmd', left, f)
    BY DEF Send
  <2>2. QED BY <1>10, <2>1
<1>12. srv.cmd + Len(c2s) <= y /\ (~peer_closed => srv.cmd + Len(c2s) + 1 = y)
  <2>1. PICK n \in Nat : n = Len(c2s)
    BY <1>3 DEF Typed
  <2>2. PICK c \in Nat : c = srv.cmd
    BY <1>3 DEF Typed
  <2>3. c + n <= cmd /\ (~peer_closed => c + n = cmd) /\ cmd \in Nat
    BY <1>1, <1>3, <2>1, <2>2 DEF Counting, Typed, TypeOK
  <2>4. c + n <= y /\ (~peer_closed => c + n + 1 = y)
    BY <1>9, <2>3
  <2>5. QED BY <2>1, <2>2, <2>4
<1>13. /\ \A i \in 1..Len(c2s) : c2s[i].op \in Plain \/ deprecate_eof
       /\ \A i \in 1..Len(c2s) : c2s[i].cmd = srv.cmd + i
  BY <1>3 DEF Counting
<1>14. AllSilent(Len(c2s)) /\ astray' \in BOOLEAN
  BY <1>1, ReadySilent DEF Send
<1>15. QED BY <1>1, <1>3, <1>4, <1>5, <1>6, <1>8, <1>10, <1>11, <1>12, <1>13, <1>14, HandOverStep

\* flush_full and flush_writes
LEMMA FlushWritesStep ==
  ASSUME ConnAssumption, Good, FlushWrites
  PROVE  Good'
<1>1. /\ pc = "flush" /\ rc' = "OK"
      /\ UNCHANGED <<op, cmd, frags, sequence_number, more, started_reading_rows, columns, rows, astray,
                     s2c, srv, peer_closed, deprecate_eof>>
  BY DEF FlushWrites
<1>2. Typed /\ Counting
  BY DEF Good
<1>3. Waiting
  BY <1>1 DEF Good, Replying, Now, TooLarge
<1>4. s2c = <<>> /\ srv.todo = <<>> /\ AllSilent(Len(c2s)) /\ WellNumbered
  BY <1>1, <1>3 DEF Waiting
<1>5. /\ op \in AllOps /\ cmd \in 0..MaxCommands /\ frags \in 0..MaxFrags /\ unsent \in 0..frags
      /\ astray \in BOOLEAN /\ ~astray /\ sequence_number \in Numbers
  BY <1>2 DEF Typed, TypeOK, Numbers
<1>6. PICK left \in 0..(unsent - 1) : HandOver(op, cmd, left, frags)
  BY DEF FlushWrites
<1>7. left \in 0..frags /\ frags \in 1..MaxFrags
  BY <1>5, <1>6 DEF ConnAssumption
<1>8. cmd >= 1 /\ (op \in Plain \/ deprecate_eof)
  BY <1>1, <1>2 DEF Counting
<1>9. cmd \in 1..MaxCommands
  BY <1>5, <1>8 DEF ConnAssumption
<1>10. srv.cmd + Len(c2s) <= cmd /\ (~peer_closed => srv.cmd + Len(c2s) + 1 = cmd)
  BY <1>1, <1>2 DEF Counting
<1>11. /\ \A i \in 1..Len(c2s) : c2s[i].op \in Plain \/ deprecate_eof
       /\ \A i \in 1..Len(c2s) : c2s[i].cmd = srv.cmd + i
  BY <1>2 DEF Counting
<1>12. /\ op' = op /\ cmd' = cmd /\ frags' = frags /\ astray' \in BOOLEAN /\ ~astray' /\ sequence_number' \in Numbers
       /\ op \notin Silent => sequence_number' = frags % SeqCount
  BY <1>1, <1>4, <1>5 DEF WellNumbered
<1>13. UNCHANGED <<more, started_reading_rows, columns, rows, s2c, srv, peer_closed, deprecate_eof>>
  BY <1>1
<1>14. QED BY <1>1, <1>2, <1>4, <1>5, <1>6, <1>7, <1>8, <1>9, <1>10, <1>11, <1>12, <1>13, HandOverStep

\* A command that cannot be built.
LEMMA SendFailsStep ==
  ASSUME ConnAssumption, Good, NEW o \in Ops, NEW code \in {"MAX_PACKET_EXCEEDED", "SYSERR"}, SendFails(o, code)
  PROVE  Good'
<1>1. /\ pc = "ready" /\ op' = o /\ sequence_number' = 1 /\ rc' = code
      /\ pc' = IF Recoverable(code) THEN "ready" ELSE "closed"
      /\ UNCHANGED <<cmd, frags, unsent, more, started_reading_rows, columns, rows, astray, wireVars>>
  BY DEF SendFails, HandleError
<1>2. op' \in AllOps /\ sequence_number' \in Numbers
  BY <1>1 DEF ConnAssumption, Numbers
<1>3. Typed /\ Counting
  BY DEF Good
<1>4. CASE code = "SYSERR"
  <2>1. pc' = "closed"
    BY <1>1, <1>4 DEF Recoverable
  <2>2. QED BY <1>1, <1>2, <1>4, <2>1, ClosingStep, Codes
<1>5. CASE code = "MAX_PACKET_EXCEEDED"
  <2>1. pc' = "ready"
    BY <1>1, <1>5 DEF Recoverable
  <2>2. UNCHANGED <<c2s, s2c, srv, peer_closed, deprecate_eof>>
    BY <1>1 DEF wireVars
  <2>3. TypeOK'
    <3>1. rc' \in Errors
      BY <1>1, <1>5, Codes
    <3>2. /\ cmd' \in 0..MaxCommands /\ frags' \in 0..MaxFrags /\ unsent' \in 0..frags' /\ pc' \in PCs
      BY <1>1, <1>3, <2>1 DEF Typed, TypeOK, PCs
    <3>3. QED BY <1>1, <1>2, <1>3, <2>2, <3>1, <3>2 DEF Typed, TypeOK, Numbers
  <2>4. Typed'
    BY <1>1, <1>3, <2>2, <2>3 DEF Typed
  <2>5. Counting'
    <3>1. /\ \A i \in 1..Len(c2s') : c2s'[i].cmd = srv'.cmd + i
          /\ srv'.cmd + Len(c2s') <= cmd'
          /\ \A i \in 1..Len(c2s') : c2s'[i].op \in Plain \/ deprecate_eof'
      BY <1>1, <1>3, <2>2 DEF Counting
    <3>2. ~peer_closed' => srv'.cmd + Len(c2s') = cmd'
      BY <1>1, <1>3, <2>2 DEF Counting
    <3>3. more' => cmd' >= 1
      BY <1>1, <1>3 DEF Counting
    <3>4. pc' = "ready" /\ rc' = "MAX_PACKET_EXCEEDED"
      BY <1>1, <1>5, <2>1
    <3>5. QED BY <3>1, <3>2, <3>3, <3>4 DEF Counting
  <2>6. TooLarge'
    <3>1. AllSilent(Len(c2s))'
      BY <1>1, <2>2, ReadySilent DEF AllSilent
    <3>2. Pending => more
      BY <1>1 DEF Good, Waiting, Replying, Now, MoreToRead, TooLarge, Pending
    <3>3. Pending' => more'
      BY <1>1, <2>2, <3>2 DEF Pending
    <3>4. QED BY <1>1, <1>5, <2>1, <3>1, <3>3 DEF TooLarge
  <2>7. rc' \notin Refusals
    BY <1>1, <1>5, Codes
  <2>8. QED BY <2>4, <2>5, <2>6, <2>7 DEF Good
<1>6. QED BY <1>4, <1>5

-----------------------------------------------------------------------------
(* The server.                                                               *)

\* The server takes a command and makes up its reply.
LEMMA ServerTakesStep ==
  ASSUME ConnAssumption, Good, ServerTakes
  PROVE  Good'
<1> DEFINE c == Head(c2s)
<1>1. /\ c2s # <<>> /\ srv.todo = <<>> /\ ~peer_closed
      /\ peer_closed' = (c.op = "quit") /\ c2s' = Tail(c2s)
      /\ UNCHANGED <<clientVars, s2c, deprecate_eof>>
  BY DEF ServerTakes
<1>2. PICK reply \in Replies(c.op) : srv' = [cmd |-> c.cmd, seq |-> c.frags % SeqCount, todo |-> reply]
  BY DEF ServerTakes
<1>3. Typed /\ Counting
  BY DEF Good
<1>4. c2s \in Seq(Command) /\ c2s' \in Seq(Command) /\ c \in Command /\ c = c2s[1]
  BY <1>1, <1>3 DEF Typed
<1>5. PICK n \in Nat : n + 1 = Len(c2s)
  <2>1. Len(c2s) \in Nat /\ Len(c2s) # 0
    BY <1>1, <1>4, EmptySeq
  <2>2. Len(c2s) - 1 \in Nat /\ (Len(c2s) - 1) + 1 = Len(c2s)
    BY <2>1
  <2>3. QED BY <2>2
<1>6. Len(c2s') = n /\ \A i \in 1..n : c2s'[i] = c2s[i + 1] /\ i + 1 \in 1..(n + 1)
  BY <1>1, <1>4, <1>5
<1>7. c.op \in AllOps /\ c.cmd \in Nat /\ c.frags \in Nat /\ (c.op \in Plain \/ deprecate_eof)
  <2>1. 1 \in 1..Len(c2s)
    BY <1>5
  <2>2. c2s[1].op \in Plain \/ deprecate_eof
    BY <1>3, <2>1 DEF Counting
  <2>3. QED BY <1>4, <2>2 DEF Command
<1>8. c.cmd = srv.cmd + 1
  <2>1. 1 \in 1..Len(c2s)
    BY <1>5
  <2>2. c2s[1].cmd = srv.cmd + 1
    BY <1>3, <2>1 DEF Counting
  <2>3. QED BY <1>4, <2>2
<1> HIDE DEF c
<1>9. /\ reply \in Seq(Contents)
      /\ c.op \in Silent \/ c.op = "quit" => reply = <<>>
      /\ c.op \notin Silent /\ c.op # "quit" => Serves(c.op, deprecate_eof, Start, reply, Done)
  <2>1. deprecate_eof \in BOOLEAN
    BY CallerTypes
  <2>2. QED BY <1>2, <1>7, <2>1, RepliesServe
<1>10. /\ srv'.cmd = c.cmd /\ srv'.seq = c.frags % SeqCount /\ srv'.todo = reply
       /\ UNCHANGED <<pc, op, cmd, rc, frags, unsent, sequence_number, more, started_reading_rows, columns, rows,
                      astray, s2c, deprecate_eof>>
  BY <1>1, <1>2 DEF clientVars
<1>11. c.frags % SeqCount \in Numbers
  BY <1>7 DEF ConnAssumption, Numbers
<1>12. peer_closed' \in BOOLEAN
  BY <1>1
<1>13. Typed'
  <2>1. TypeOK'
    BY <1>3, <1>10, <1>12 DEF Typed, TypeOK
  <2>2. srv' \in [cmd : Nat, seq : Numbers, todo : Seq(Contents)]
    BY <1>2, <1>7, <1>9, <1>11
  <2>3. QED BY <1>3, <1>4, <1>10, <2>1, <2>2 DEF Typed
<1>14. Counting'
  <2>1. PICK s \in Nat : s = srv.cmd
    BY <1>3 DEF Typed
  <2>2. \A i \in 1..n : c2s'[i].cmd = c.cmd + i
    <3>1. SUFFICES ASSUME NEW i \in 1..n PROVE c2s'[i].cmd = c.cmd + i
      OBVIOUS
    <3>2. c2s[i + 1].cmd = s + (i + 1)
      BY <1>3, <1>5, <1>6, <2>1 DEF Counting
    <3>3. s + (i + 1) = (s + 1) + i
      OBVIOUS
    <3>4. QED BY <1>6, <1>8, <2>1, <3>2, <3>3
  <2>3. \A i \in 1..n : c2s'[i].op \in Plain \/ deprecate_eof
    BY <1>3, <1>5, <1>6 DEF Counting
  <2>4. /\ s + (n + 1) <= cmd /\ cmd \in Nat
        /\ pc \notin {"flush", "closed"} => s + (n + 1) = cmd
        /\ pc = "flush" => s + (n + 1) + 1 = cmd
    BY <1>1, <1>3, <1>5, <2>1 DEF Counting, Typed, TypeOK
  <2>5. c.cmd + n = s + (n + 1)
    BY <1>8, <2>1
  <2>6. /\ pc = "flush" \/ more => cmd >= 1
        /\ op \in Plain \/ deprecate_eof \/ pc = "closed" \/ (pc = "ready" /\ rc = "MAX_PACKET_EXCEEDED")
    BY <1>3 DEF Counting
  <2> DEFINE y == c.cmd + n
  <2> HIDE DEF y
  <2>7. y <= cmd /\ (pc \notin {"flush", "closed"} => y = cmd) /\ (pc = "flush" => y + 1 = cmd)
    BY <2>4, <2>5 DEF y
  <2>8. srv'.cmd + Len(c2s') = y
    BY <1>6, <1>10 DEF y
  <2>9. \A i \in 1..Len(c2s') : c2s'[i].cmd = srv'.cmd + i
    BY <1>6, <1>10, <2>2
  <2>10. \A i \in 1..Len(c2s') : c2s'[i].op \in Plain \/ deprecate_eof'
    BY <1>6, <1>10, <2>3
  <2>11. QED BY <1>10, <2>6, <2>7, <2>8, <2>9, <2>10 DEF Counting
<1>15. rc' \notin Refusals
  BY <1>10, CallerTypes
<1>16. ASSUME c.op \in Silent, AllSilent(n + 1) PROVE srv'.todo = <<>> /\ AllSilent(Len(c2s))' /\ ~peer_closed'
  BY <1>1, <1>6, <1>9, <1>10, <1>16 DEF AllSilent, Silent
<1>17. AllSilent(n + 1) => c.op \in Silent
  BY <1>4 DEF AllSilent
<1>18. CASE pc = "closed"
  BY <1>10, <1>13, <1>14, <1>15, <1>18 DEF Good
<1>19. CASE TooLarge
  <2>1. TooLarge'
    <3>1. pc = "ready" /\ rc = "MAX_PACKET_EXCEEDED" /\ AllSilent(n + 1) /\ (Pending => more)
      BY <1>5, <1>19 DEF TooLarge
    <3>2. srv'.todo = <<>> /\ AllSilent(Len(c2s))'
      BY <1>16, <1>17, <3>1
    <3>3. Pending' => more'
      BY <1>10, <3>1, <3>2 DEF Pending
    <3>4. QED BY <1>10, <3>1, <3>2, <3>3 DEF TooLarge
  <2>2. QED BY <1>13, <1>14, <1>15, <2>1 DEF Good
<1>20. CASE Waiting
  <2>1. s2c = <<>>
    BY <1>20 DEF Waiting
  <2>2. CASE pc = "ready"
    <3>1. AllSilent(n + 1) /\ ~MoreToRead /\ op \notin ResultOps
      BY <1>1, <1>5, <1>20, <2>2 DEF Waiting
    <3>2. srv'.todo = <<>> /\ AllSilent(Len(c2s))'
      BY <1>16, <1>17, <3>1
    <3>3. Waiting'
      BY <1>10, <2>1, <2>2, <3>1, <3>2 DEF Waiting, MoreToRead
    <3>4. QED BY <1>13, <1>14, <1>15, <3>3 DEF Good
  <2>3. CASE pc = "flush"
    <3>1. AllSilent(n + 1) /\ WellNumbered
      BY <1>5, <1>20, <2>3 DEF Waiting
    <3>2. srv'.todo = <<>> /\ AllSilent(Len(c2s))'
      BY <1>16, <1>17, <3>1
    <3>3. Waiting'
      BY <1>10, <2>1, <2>3, <3>1, <3>2 DEF Waiting, WellNumbered
    <3>4. QED BY <1>13, <1>14, <1>15, <3>3 DEF Good
  <2>4. CASE pc = "recv"
    <3>1. InLine
      BY <1>1, <1>20, <2>4 DEF Waiting
    <3>2. /\ \A i \in 1..n : c2s[i].op \in Silent
          /\ c2s[n + 1] = [op |-> op, cmd |-> cmd, frags |-> frags] /\ op \notin Silent /\ WellNumbered
      <4>1. (n + 1) - 1 = n
        OBVIOUS
      <4>2. QED BY <1>5, <3>1, <4>1 DEF InLine, AllSilent
    <3>3. CASE n = 0
      <4>1. c.op = op /\ c.cmd = cmd /\ c.frags = frags
        BY <1>4, <3>2, <3>3
      <4>2. c2s' = <<>>
        BY <1>4, <1>6, <3>3, EmptySeq
      <4>3. CASE op = "quit"
        <5>1. srv'.todo = <<>> /\ peer_closed'
          BY <1>1, <1>9, <1>10, <4>1, <4>3
        <5>2. Waiting'
          BY <1>10, <2>1, <2>4, <5>1 DEF Waiting
        <5>3. QED BY <1>13, <1>14, <1>15, <5>2 DEF Good
      <4>4. CASE op # "quit"
        <5>1. Serves(op, deprecate_eof, Start, reply, Done)
          BY <1>9, <3>2, <4>1, <4>4
        <5>2. PICK k \in Nat : k = Len(reply)
          BY <1>9
        <5>3. /\ Coming(op, deprecate_eof, <<>>, reply, peer_closed', Start)
              /\ Chained(<<>>, reply, cmd, sequence_number, sequence_number)
          BY <5>1, <5>2, ReplyBegins
        <5>4. srv'.seq = sequence_number
          BY <1>10, <3>2, <4>1 DEF WellNumbered
        <5>5. cmd >= 1 /\ Start \in Expectations
          <6>1. srv.cmd \in Nat
            BY <1>3 DEF Typed
          <6>2. QED BY <1>8, <4>1, <6>1, ExpectationFacts
        <5>6. Now(Start)'
          BY <1>10, <2>4 DEF Now
        <5>7. Coming(op', deprecate_eof', s2c', srv'.todo, peer_closed', Start)
          BY <1>10, <2>1, <5>3
        <5>8. Chained(s2c', srv'.todo, cmd', sequence_number', srv'.seq)
          BY <1>10, <2>1, <5>3, <5>4
        <5>9. srv'.cmd = cmd' /\ cmd' >= 1
          BY <1>10, <4>1, <5>5
        <5>10. Replying'
          BY <4>2, <5>5, <5>6, <5>7, <5>8, <5>9 DEF Replying
        <5>11. QED BY <1>13, <1>14, <1>15, <5>10 DEF Good
      <4>5. QED BY <4>3, <4>4
    <3>4. CASE n # 0
      <4>1. PICK k \in Nat : k + 1 = n
        <5>1. n - 1 \in Nat /\ (n - 1) + 1 = n
          BY <3>4
        <5>2. QED BY <5>1
      <4>2. 1 \in 1..n /\ n \in 1..n
        BY <4>1
      <4>3. c.op \in Silent
        BY <1>4, <3>2, <4>2
      <4>4. reply = <<>> /\ srv'.todo = <<>>
        BY <1>9, <1>10, <4>3
      <4>5. c2s'[Len(c2s')] = [op |-> op', cmd |-> cmd', frags |-> frags']
        BY <1>6, <1>10, <3>2, <4>2
      <4>6. AllSilent(Len(c2s) - 1)'
        <5>1. Len(c2s') - 1 = k
          BY <1>6, <4>1
        <5>2. \A i \in 1..k : i \in 1..n /\ i + 1 \in 1..n
          BY <4>1
        <5>3. \A i \in 1..k : c2s'[i].op \in Silent
          BY <1>6, <3>2, <5>2
        <5>4. QED BY <5>1, <5>3 DEF AllSilent
      <4>7. c2s' # <<>>
        BY <1>6, <3>4
      <4>8. InLine'
        BY <1>10, <3>2, <4>5, <4>6, <4>7 DEF InLine, WellNumbered
      <4>9. Waiting'
        BY <1>10, <2>1, <2>4, <4>4, <4>8 DEF Waiting
      <4>10. QED BY <1>13, <1>14, <1>15, <4>9 DEF Good
    <3>5. QED BY <3>3, <3>4
  <2>5. QED BY <1>20, <2>2, <2>3, <2>4 DEF Waiting
<1>21. ~Replying
  BY <1>1 DEF Replying
<1>22. QED BY <1>18, <1>19, <1>20, <1>21 DEF Good

\* The server sends the next packet of its reply.
LEMMA ServerSendsStep ==
  ASSUME ConnAssumption, Good, ServerSends
  PROVE  Good'
<1> DEFINE p == Head(srv.todo)
           x == [kind |-> p.kind, more |-> p.more, n |-> p.n, seq |-> srv.seq, cmd |-> srv.cmd]
<1>1. /\ srv.todo # <<>> /\ s2c' = Append(s2c, x)
      /\ srv' = [srv EXCEPT !.seq = NextSeq(@), !.todo = Tail(@)]
      /\ UNCHANGED <<clientVars, c2s, peer_closed, deprecate_eof>>
  BY DEF ServerSends
<1>2. Typed /\ Counting
  BY DEF Good
<1>3. /\ srv \in [cmd : Nat, seq : Numbers, todo : Seq(Contents)] /\ s2c \in Seq(OnWire)
  BY <1>2 DEF Typed
<1>4. p \in Contents /\ p = srv.todo[1] /\ Tail(srv.todo) \in Seq(Contents)
  BY <1>1, <1>3
<1>5. x \in OnWire
  BY <1>3, <1>4 DEF Contents, OnWire
<1>6. NextSeq(srv.seq) \in Numbers
  <2>1. srv.seq \in Numbers /\ SeqCount \in Nat \ {0, 1}
    BY <1>3 DEF ConnAssumption
  <2>2. (srv.seq + 1) % SeqCount \in 0..(SeqCount - 1)
    BY <2>1 DEF Numbers
  <2>3. QED BY <2>2 DEF NextSeq, Numbers
<1>7. srv' \in [cmd : Nat, seq : Numbers, todo : Seq(Contents)]
      /\ srv'.cmd = srv.cmd /\ srv'.seq = NextSeq(srv.seq) /\ srv'.todo = Tail(srv.todo)
  BY <1>1, <1>3, <1>4, <1>6
<1>8. x.kind = srv.todo[1].kind /\ x.more = srv.todo[1].more /\ x.n = srv.todo[1].n /\ x.seq = srv.seq /\ x.cmd = srv.cmd
  BY <1>4
<1> HIDE DEF p, x
<1>9. UNCHANGED <<pc, op, cmd, rc, frags, unsent, sequence_number, more, started_reading_rows, columns, rows,
                  astray, c2s, peer_closed, deprecate_eof>>
  BY <1>1 DEF clientVars
<1>10. s2c' \in Seq(OnWire)
  BY <1>1, <1>3, <1>5
<1>11. TypeOK'
  <2>1. \A i \in 1..Len(s2c') : s2c'[i] \in OnWire
    BY <1>10
  <2>2. \A y \in OnWire : y.kind \in Kinds /\ y.seq \in 0..(SeqCount - 1)
    BY DEF OnWire, Numbers
  <2>3. QED BY <1>2, <1>9, <2>1, <2>2 DEF Typed, TypeOK
<1>12. Typed'
  BY <1>2, <1>7, <1>9, <1>10, <1>11 DEF Typed
<1>13. Counting'
  BY <1>2, <1>7, <1>9 DEF Counting
<1>14. rc' \notin Refusals
  BY <1>9, CallerTypes
<1>15. CASE pc = "closed"
  BY <1>9, <1>12, <1>13, <1>14, <1>15 DEF Good
<1>16. CASE TooLarge
  <2>1. TooLarge'
    BY <1>1, <1>9, <1>16 DEF TooLarge, AllSilent, Pending
  <2>2. QED BY <1>12, <1>13, <1>14, <2>1 DEF Good
<1>17. CASE Replying
  <2>1. /\ c2s = <<>> /\ srv.cmd = cmd /\ cmd >= 1
        /\ Chained(s2c, srv.todo, cmd, sequence_number, srv.seq)
    BY <1>17 DEF Replying
  <2>2. PICK e \in Expectations : Now(e) /\ Coming(op, deprecate_eof, s2c, srv.todo, peer_closed, e)
    BY <1>17 DEF Replying
  <2>3. srv.todo \in Seq(Contents) /\ x.cmd = cmd
    BY <1>3, <1>8, <2>1
  <2>4. /\ Coming(op, deprecate_eof, Append(s2c, x), Tail(srv.todo), peer_closed, e)
        /\ Chained(Append(s2c, x), Tail(srv.todo), cmd, sequence_number, NextSeq(srv.seq))
    BY <1>1, <1>3, <1>5, <1>8, <2>1, <2>2, <2>3, ServerGoesOn
  <2>5. Now(e)'
    BY <1>9, <2>2 DEF Now, EofDue, MoreToRead
  <2>6. Coming(op', deprecate_eof', s2c', srv'.todo, peer_closed', e)
    BY <1>1, <1>7, <1>9, <2>4
  <2>7. Chained(s2c', srv'.todo, cmd', sequence_number', srv'.seq)
    BY <1>1, <1>7, <1>9, <2>4
  <2>8. c2s' = <<>> /\ srv'.cmd = cmd' /\ cmd' >= 1
    BY <1>7, <1>9, <2>1
  <2>9. Replying'
    BY <2>5, <2>6, <2>7, <2>8 DEF Replying
  <2>10. QED BY <1>12, <1>13, <1>14, <2>9 DEF Good
<1>18. ~Waiting
  BY <1>1 DEF Waiting
<1>19. QED BY <1>15, <1>16, <1>17, <1>18 DEF Good

\* The server goes away.
LEMMA ServerClosesStep ==
  ASSUME ConnAssumption, Good, ServerCloses
  PROVE  Good'
<1>1. /\ peer_closed' = TRUE /\ c2s' = <<>> /\ srv' = [srv EXCEPT !.todo = <<>>]
      /\ UNCHANGED <<clientVars, s2c, deprecate_eof>>
  BY DEF ServerCloses
<1>2. Typed /\ Counting
  BY DEF Good
<1>3. srv \in [cmd : Nat, seq : Numbers, todo : Seq(Contents)] /\ s2c \in Seq(OnWire)
  BY <1>2 DEF Typed
<1>4. srv' \in [cmd : Nat, seq : Numbers, todo : Seq(Contents)]
      /\ srv'.cmd = srv.cmd /\ srv'.seq = srv.seq /\ srv'.todo = <<>>
  <2>1. <<>> \in Seq(Contents)
    OBVIOUS
  <2> DEFINE nothing == <<>>
  <2> HIDE DEF nothing
  <2>2. nothing \in Seq(Contents) /\ srv' = [srv EXCEPT !.todo = nothing]
    BY <1>1, <2>1 DEF nothing
  <2>3. srv' \in [cmd : Nat, seq : Numbers, todo : Seq(Contents)]
    BY <1>3, <2>2
  <2>4. srv'.cmd = srv.cmd /\ srv'.seq = srv.seq /\ srv'.todo = nothing
    BY <1>3, <2>2
  <2>5. QED BY <2>3, <2>4 DEF nothing
<1>5. UNCHANGED <<pc, op, cmd, rc, frags, unsent, sequence_number, more, started_reading_rows, columns, rows,
                  astray, s2c, deprecate_eof>>
  BY <1>1 DEF clientVars
<1>6. Len(c2s') = 0 /\ 1..0 = {} /\ c2s' \in Seq(Command) /\ AllSilent(Len(c2s))'
  <2>1. Len(c2s') = 0 /\ 1..0 = {} /\ c2s' \in Seq(Command)
    BY <1>1
  <2>2. QED BY <2>1 DEF AllSilent
<1>7. Typed'
  <2>1. TypeOK'
    BY <1>1, <1>2, <1>5 DEF Typed, TypeOK
  <2>2. QED BY <1>2, <1>4, <1>5, <1>6, <2>1 DEF Typed
<1>8. Counting'
  <2>1. srv.cmd \in Nat /\ Len(c2s) \in Nat /\ srv.cmd + Len(c2s) <= cmd /\ cmd \in Nat
    BY <1>2, <1>3 DEF Typed, Counting, TypeOK
  <2>2. PICK s \in Nat : s = srv.cmd
    BY <2>1
  <2>3. s + 0 <= cmd
    BY <2>1, <2>2
  <2>4. srv'.cmd + Len(c2s') <= cmd'
    BY <1>4, <1>5, <1>6, <2>2, <2>3
  <2>5. /\ pc' = "flush" \/ more' => cmd' >= 1
        /\ op' \in Plain \/ deprecate_eof' \/ pc' = "closed" \/ (pc' = "ready" /\ rc' = "MAX_PACKET_EXCEEDED")
    BY <1>2, <1>5 DEF Counting
  <2>6. QED BY <1>1, <1>6, <2>4, <2>5 DEF Counting
<1>9. rc' \notin Refusals
  BY <1>5, CallerTypes
<1>10. CASE pc = "closed"
  BY <1>5, <1>7, <1>8, <1>9, <1>10 DEF Good
<1>11. CASE TooLarge
  <2>1. TooLarge'
    BY <1>4, <1>5, <1>6, <1>11 DEF TooLarge, Pending
  <2>2. QED BY <1>7, <1>8, <1>9, <2>1 DEF Good
<1>12. CASE Waiting
  <2>1. s2c' = <<>> /\ srv'.todo = <<>>
    BY <1>4, <1>5, <1>12 DEF Waiting
  <2>2. \/ pc = "ready" /\ ~MoreToRead
        \/ pc = "flush" /\ WellNumbered
        \/ pc = "recv"
    BY <1>12 DEF Waiting
  <2>3. /\ ~MoreToRead => ~MoreToRead'
        /\ WellNumbered => WellNumbered'
    BY <1>5 DEF MoreToRead, WellNumbered
  <2>4. Waiting'
    BY <1>1, <1>5, <1>6, <2>1, <2>2, <2>3 DEF Waiting
  <2>5. QED BY <1>7, <1>8, <1>9, <2>4 DEF Good
<1>13. CASE Replying
  <2>1. /\ srv.cmd = cmd /\ cmd >= 1
        /\ Chained(s2c, srv.todo, cmd, sequence_number, srv.seq)
    BY <1>13 DEF Replying
  <2>2. PICK e \in Expectations : Now(e) /\ Coming(op, deprecate_eof, s2c, srv.todo, peer_closed, e)
    BY <1>13 DEF Replying
  <2>3. /\ Coming(op, deprecate_eof, s2c, <<>>, TRUE, e)
        /\ Chained(s2c, <<>>, cmd, sequence_number, srv.seq)
    BY <1>3, <2>1, <2>2, ServerGone
  <2>4. Now(e)'
    BY <1>5, <2>2 DEF Now, EofDue, MoreToRead
  <2>5. Coming(op', deprecate_eof', s2c', srv'.todo, peer_closed', e)
    BY <1>1, <1>4, <1>5, <2>3
  <2>6. Chained(s2c', srv'.todo, cmd', sequence_number', srv'.seq)
    BY <1>4, <1>5, <2>3
  <2>7. Replying'
    BY <1>1, <1>4, <1>5, <2>1, <2>4, <2>5, <2>6 DEF Replying
  <2>8. QED BY <1>7, <1>8, <1>9, <2>7 DEF Good
<1>14. QED BY <1>10, <1>11, <1>12, <1>13 DEF Good

-----------------------------------------------------------------------------
(* The invariant holds.                                                      *)

\* A new connection.
LEMMA InitGood ==
  ASSUME ConnAssumption, Init
  PROVE  IInv
<1>1. /\ pc = "ready" /\ op = "ping" /\ cmd = 0 /\ rc = "OK" /\ frags = 0 /\ unsent = 0
      /\ sequence_number = 0 /\ more = FALSE /\ started_reading_rows = FALSE
      /\ columns = 0 /\ rows = 0 /\ astray = FALSE /\ deprecate_eof \in Servers
      /\ c2s = <<>> /\ s2c = <<>> /\ srv = [cmd |-> 0, seq |-> 0, todo |-> <<>>] /\ peer_closed = FALSE
  BY DEF Init
<1>2. Len(c2s) = 0 /\ Len(s2c) = 0 /\ 1..0 = {}
  BY <1>1
<1>3. 0 \in Numbers /\ deprecate_eof \in BOOLEAN
  BY <1>1 DEF Numbers, ConnAssumption
<1>4. TypeOK
  <2>1. pc \in PCs /\ op \in AllOps /\ rc \in Errors \cup {"OK", "EOF"}
    BY <1>1 DEF PCs, AllOps, Generic
  <2>2. /\ cmd \in 0..MaxCommands /\ frags \in 0..MaxFrags /\ unsent \in 0..frags
        /\ columns \in 0..(2 * MaxCols) /\ rows \in Nat /\ rows <= MaxRows
    BY <1>1 DEF ConnAssumption
  <2>3. QED BY <1>1, <1>2, <1>3, <2>1, <2>2 DEF TypeOK, Numbers
<1>5. Typed
  <2>1. c2s \in Seq(Command) /\ s2c \in Seq(OnWire)
    BY <1>1
  <2>2. srv \in [cmd : Nat, seq : Numbers, todo : Seq(Contents)]
    BY <1>1, <1>3
  <2>3. QED BY <1>1, <1>4, <2>1, <2>2 DEF Typed
<1>6. Counting
  BY <1>1, <1>2 DEF Counting, Plain, AllOps, Generic
<1>7. Waiting
  BY <1>1, <1>2 DEF Waiting, AllSilent, MoreToRead
<1>8. QED BY <1>1, <1>5, <1>6, <1>7, Codes DEF Good, IInv

\* What has happened is not taken back.
LEMMA StaysAstray ==
  ASSUME [Next]_vars, ~astray'
  PROVE  ~astray
<1>9. CASE UNCHANGED vars
  BY <1>9 DEF vars, clientVars
<1>1. \A o \in Ops, f \in 1..MaxFrags : Send(o, f) => ~astray
  BY DEF Send
<1>2. \A o \in Ops, code \in {"MAX_PACKET_EXCEEDED", "SYSERR"} : SendFails(o, code) => ~astray
  BY DEF SendFails
<1>3. FlushWrites \/ FlushFails => ~astray
  BY DEF FlushWrites, FlushFails
<1>4. Receive => ~astray
  BY DEF Receive, QueryRecv, StmtExecuteRecv, PrepareRecv, GenericRecv, ReadColumn, SkipEof, ReadRow,
              StmtReadRow, Accept
<1>5. Refuse \/ ReadRowAgain \/ StartDrain \/ DrainPacket \/ NextResult => ~astray
  BY DEF Refuse, ReadRowAgain, StartDrain, DrainPacket, NextResult, Accept
<1>6. Timeout \/ PeerGone \/ CloseRecv \/ Discard => ~astray
  BY DEF Timeout, PeerGone, CloseRecv, Discard
<1>7. Server \/ ServerCloses => ~astray
  BY DEF Server, ServerTakes, ServerSends, ServerCloses, clientVars
<1>8. QED BY <1>9, <1>1, <1>2, <1>3, <1>4, <1>5, <1>6, <1>7 DEF Next

\* Every step keeps it: astray is never taken back.
LEMMA StepGood ==
  ASSUME ConnAssumption, IInv, [Next]_vars
  PROVE  IInv'
<1>1. CASE UNCHANGED vars
  <2>1. UNCHANGED <<pc, op, cmd, rc, frags, unsent, sequence_number, more, started_reading_rows, columns, rows,
                    astray, c2s, s2c, srv, peer_closed, deprecate_eof>>
    BY <1>1 DEF vars, clientVars, wireVars
  <2>2. Typed => Typed'
    BY <2>1 DEF Typed, TypeOK
  <2>3. Counting => Counting'
    BY <2>1 DEF Counting
  <2>4. AllSilent(Len(c2s)) => AllSilent(Len(c2s))'
    BY <2>1 DEF AllSilent
  <2>5. TooLarge => TooLarge'
    BY <2>1, <2>4 DEF TooLarge, Pending
  <2>6. WellNumbered => WellNumbered'
    BY <2>1 DEF WellNumbered
  <2>7. InLine => InLine'
    BY <2>1, <2>6 DEF InLine, AllSilent
  <2>8. MoreToRead' = MoreToRead
    BY <2>1 DEF MoreToRead
  <2>9. Waiting => Waiting'
    BY <2>1, <2>4, <2>6, <2>7, <2>8 DEF Waiting
  <2>10. \A e : Now(e) => Now(e)'
    BY <2>1, <2>8 DEF Now, EofDue
  <2>11. Replying => Replying'
    BY <2>1, <2>10 DEF Replying
  <2>12. QED BY <2>1, <2>2, <2>3, <2>5, <2>9, <2>11 DEF IInv, Good
<1>2. CASE Next
  <2>1. SUFFICES ASSUME ~astray' PROVE Good'
    BY DEF IInv
  <2>2. ~astray
    BY <2>1, StaysAstray
  <2>3. Good
    BY <2>2 DEF IInv
  <2>4. CASE \E o \in Ops, f \in 1..MaxFrags : Send(o, f)
    BY <2>1, <2>3, <2>4, SendStep
  <2>5. CASE \E o \in Ops, code \in {"MAX_PACKET_EXCEEDED", "SYSERR"} : SendFails(o, code)
    BY <2>3, <2>5, SendFailsStep
  <2>6. CASE FlushWrites
    BY <2>3, <2>6, FlushWritesStep
  <2>7. CASE FlushFails \/ Timeout \/ PeerGone \/ Discard
    BY <2>3, <2>7, BreakStep
  <2>8. CASE Receive
    BY <2>1, <2>3, <2>8, QueryRecvStep, StmtExecuteRecvStep, PrepareRecvStep, GenericRecvStep, ReadColumnStep,
       SkipEofStep, ReadRowStep, StmtReadRowStep DEF Receive
  <2>9. CASE Refuse
    BY <2>3, <2>9, RefuseStep
  <2>10. CASE ReadRowAgain
    BY <2>3, <2>10, ReadRowAgainStep
  <2>11. CASE StartDrain
    BY <2>1, <2>3, <2>11, StartDrainStep
  <2>12. CASE DrainPacket
    BY <2>1, <2>3, <2>12, DrainPacketStep
  <2>13. CASE NextResult
    BY <2>1, <2>3, <2>13, NextResultStep
  <2>14. CASE CloseRecv
    BY <2>3, <2>14, CloseRecvStep
  <2>15. CASE Server
    BY <2>3, <2>15, ServerTakesStep, ServerSendsStep DEF Server
  <2>16. CASE ServerCloses
    BY <2>3, <2>16, ServerClosesStep
  <2>17. QED BY <1>2, <2>4, <2>5, <2>6, <2>7, <2>8, <2>9, <2>10, <2>11, <2>12, <2>13, <2>14, <2>15, <2>16 DEF Next
<1>3. QED BY <1>1, <1>2

\* As long as nothing has happened that the code does not bear, the packets on the
\* way and those the server has still to send are what the call that the caller is
\* in expects (client.h:459).
THEOREM ConnInvariant == Spec => []IInv
<1>1. Init => IInv
  BY InitGood, ConnAssumption
<1>2. IInv /\ [Next]_vars => IInv'
  BY StepGood, ConnAssumption
<1>3. QED BY <1>1, <1>2, PTL DEF Spec

-----------------------------------------------------------------------------
(* What follows from it.                                                     *)

\* TypeOK, in particular that no reply makes the caller read more columns or
\* rows than there are.
THEOREM ConnTypes == Spec => [](~astray => TypeOK)
<1>1. IInv => (~astray => TypeOK)
  BY DEF IInv, Good, Typed
<1>2. QED BY <1>1, ConnInvariant, PTL

\* NeverRefused: as long as nothing has happened that the code does not bear, no
\* packet of a conforming server has a number, a type or a shape that the receiving
\* call refuses (read_packet, client.c:77-99).
THEOREM ServerIsNeverRefused == Spec => []NeverRefused
<1>1. IInv => NeverRefused
  BY DEF IInv, Good, NeverRefused, RepliesAccepted
<1>2. QED BY <1>1, ConnInvariant, PTL

\* ReadyMeansQuiet: all packets of a reply have been read when its last call
\* returns and tells of no more results (client.h:459), and a command that was too
\* large to be sent adds none.
THEOREM ReadyConnectionIsQuiet == Spec => []ReadyMeansQuiet
<1>1. IInv => ReadyMeansQuiet
  <2> SUFFICES ASSUME IInv, pc = "ready", ~astray, Pending
               PROVE  more /\ (op \in ResultOps \/ rc = "MAX_PACKET_EXCEEDED")
    BY DEF ReadyMeansQuiet
  <2>1. ~Waiting
    BY DEF Pending, Waiting
  <2>2. CASE TooLarge
    BY <2>2 DEF TooLarge
  <2>3. CASE Replying
    <3>1. MoreToRead
      BY <2>3 DEF Replying, Now
    <3>2. QED BY <3>1 DEF MoreToRead
  <2>4. QED BY <2>1, <2>2, <2>3 DEF IInv, Good
<1>2. QED BY <1>1, ConnInvariant, PTL

\* MoreIsTrue: when more results are announced, next_result finds one, unless the
\* server went away (more_results_exist, cext.c; SERVER_MORE_RESULTS_EXISTS).
THEOREM MoreResultsAreThere == Spec => []MoreIsTrue
<1>1. IInv => MoreIsTrue
  <2> SUFFICES ASSUME IInv, ~astray, pc = "ready", more, op \in ResultOps, rc \in {"OK", "EOF"}, ~peer_closed
               PROVE  Pending
    BY DEF MoreIsTrue
  <2>1. MoreToRead
    BY DEF MoreToRead
  <2>2. ~Waiting /\ ~TooLarge /\ Good
    BY <2>1 DEF Waiting, TooLarge, IInv
  <2>3. Replying /\ s2c \in Seq(OnWire) /\ srv.todo \in Seq(Contents)
    BY <2>2 DEF Good, Typed
  <2>4. PICK e \in Expectations : Now(e) /\ Coming(op, deprecate_eof, s2c, srv.todo, peer_closed, e)
    BY <2>3 DEF Replying
  <2>5. e = Start
    BY <2>4 DEF Now
  <2>6. Start # Done
    BY DEF Start, Done, At
  <2>7. s2c # <<>> \/ srv.todo # <<>>
    BY <2>3, <2>4, <2>5, <2>6, SomethingComes
  <2>8. QED BY <2>7 DEF Pending
<1>2. QED BY <1>1, ConnInvariant, PTL

\* A step that takes a packet off the wire is one of a receiving call.
LEMMA TakenOff ==
  ASSUME ConnAssumption, Good, [Next]_vars, s2c # <<>>, s2c' = Tail(s2c)
  PROVE  Accept /\ pc \in Reading
<1>1. s2c \in Seq(OnWire)
  BY DEF Good, Typed
<1>2. s2c' # s2c
  <2>1. Len(s2c) \in Nat /\ Len(s2c) # 0
    BY <1>1, EmptySeq
  <2>2. Len(Tail(s2c)) = Len(s2c) - 1
    BY <1>1
  <2>3. Len(s2c) - 1 # Len(s2c)
    BY <2>1
  <2>4. QED BY <2>2, <2>3
<1>3. ~ServerSends
  <2>1. SUFFICES ASSUME ServerSends PROVE FALSE
    OBVIOUS
  <2> DEFINE x == [kind |-> Head(srv.todo).kind, more |-> Head(srv.todo).more, n |-> Head(srv.todo).n,
                   seq |-> srv.seq, cmd |-> srv.cmd]
  <2>2. s2c' = Append(s2c, x)
    BY <2>1 DEF ServerSends
  <2> HIDE DEF x
  <2>3. PICK n \in Nat : n = Len(s2c)
    BY <1>1
  <2>4. n # 0
    BY <1>1, <2>3, EmptySeq
  <2>5. Len(Append(s2c, x)) = n + 1 /\ Len(Tail(s2c)) = n - 1
    BY <1>1, <2>3, <2>4
  <2>6. n + 1 # n - 1
    OBVIOUS
  <2>7. QED BY <2>2, <2>5, <2>6
<1>4. Next
  BY <1>2 DEF vars, wireVars
<1>5. CASE Receive
  BY <1>5 DEF Receive, QueryRecv, StmtExecuteRecv, PrepareRecv, GenericRecv, ReadColumn, SkipEof, ReadRow, StmtReadRow,
              Reading
<1>6. CASE DrainPacket
  BY <1>6 DEF DrainPacket, Reading
<1>7. ~(\E o \in Ops, f \in 1..MaxFrags : Send(o, f))
  BY <1>2 DEF Send
<1>8. ~(\E o \in Ops, code \in {"MAX_PACKET_EXCEEDED", "SYSERR"} : SendFails(o, code))
  BY <1>2 DEF SendFails, wireVars
<1>9. ~(FlushWrites \/ FlushFails \/ Refuse \/ ReadRowAgain \/ StartDrain \/ NextResult)
  BY <1>2 DEF FlushWrites, FlushFails, Refuse, ReadRowAgain, StartDrain, NextResult, wireVars
<1>10. ~(Timeout \/ PeerGone \/ CloseRecv \/ Discard)
  BY <1>2 DEF Timeout, PeerGone, CloseRecv, Discard, wireVars
<1>11. ~(ServerTakes \/ ServerCloses)
  BY <1>2 DEF ServerTakes, ServerCloses
<1>12. QED BY <1>3, <1>4, <1>5, <1>6, <1>7, <1>8, <1>9, <1>10, <1>11 DEF Next, Server

\* OwnReplies: as long as nothing has happened that the code does not bear, no
\* packet of another command's reply is taken for one's own (client.c:67, 613).
THEOREM RepliesAreOwn == Spec => OwnReplies
<1> DEFINE Own == ~astray /\ s2c # <<>> /\ s2c' = Tail(s2c) => Head(s2c).cmd = cmd
<1>1. IInv /\ [Next]_vars => Own
  <2> SUFFICES ASSUME Good, [Next]_vars, s2c # <<>>, s2c' = Tail(s2c) PROVE Head(s2c).cmd = cmd
    BY DEF IInv
  <2>1. Accept /\ pc \in Reading
    BY TakenOff, ConnAssumption
  <2>2. QED BY <2>1, Accepted, ConnAssumption
<1> HIDE DEF Own
<1>2. Spec => [][Own]_vars
  BY <1>1, ConnInvariant, PTL DEF Spec
<1>3. QED BY <1>2 DEF Own, OwnReplies

\* EofEndsResult: TRILOGY_EOF comes at the end of the result set, when every row
\* of it has been handed out (client.h:736), as long as nothing has happened that
\* the code does not bear.
THEOREM EofComesAtTheEnd == Spec => EofEndsResult
<1> DEFINE EofIsEnd == AllRowsRead \/ astray
<1>1. IInv /\ [Next]_vars => EofIsEnd
  <2> SUFFICES ASSUME Good, [Next]_vars, pc = "rows", pc' = "ready", rc' = "EOF"
               PROVE  Head(s2c).kind = "eof" /\ Head(s2c).n = rows
    BY DEF IInv, AllRowsRead
  <2>1. Next
    BY DEF vars, clientVars
  <2>2. ReadRow \/ StmtReadRow
    <3>1. ~(\E o \in Ops, f \in 1..MaxFrags : Send(o, f))
      BY DEF Send
    <3>2. ~(\E o \in Ops, code \in {"MAX_PACKET_EXCEEDED", "SYSERR"} : SendFails(o, code))
      BY DEF SendFails
    <3>3. ~(FlushWrites \/ FlushFails \/ ReadRowAgain \/ StartDrain \/ NextResult \/ CloseRecv \/ Discard)
      BY DEF FlushWrites, FlushFails, ReadRowAgain, StartDrain, NextResult, CloseRecv, Discard
    <3>4. ~(Refuse \/ Timeout \/ PeerGone)
      BY DEF Refuse, Timeout, PeerGone, HandleError, Recoverable
    <3>5. ~(QueryRecv \/ StmtExecuteRecv \/ PrepareRecv \/ GenericRecv \/ ReadColumn \/ DrainPacket)
      BY DEF QueryRecv, StmtExecuteRecv, PrepareRecv, GenericRecv, ReadColumn, DrainPacket
    <3>6. ~SkipEof
      BY DEF SkipEof, Malformed, HandleError, Recoverable
    <3>7. ~(Server \/ ServerCloses)
      BY DEF Server, ServerTakes, ServerSends, ServerCloses, clientVars
    <3>8. QED BY <2>1, <3>1, <3>2, <3>3, <3>4, <3>5, <3>6, <3>7 DEF Next, Receive
  <2> DEFINE p == Head(s2c)
  <2>3. Accept /\ RowPacket(p) /\ ~EofDue /\ pc \in Reading
    BY <2>2 DEF ReadRow, StmtReadRow, EofDue, Reading
  <2>4. PICK e \in Expectations, f \in Expectations : Now(e) /\ Follows(op, deprecate_eof, e, p, f)
    BY <2>3, Accepted, ConnAssumption
  <2> HIDE DEF p
  <2>5. PICK m \in BOOLEAN : e = At("rows", rows, m)
    BY <2>3, <2>4 DEF Now
  <2>6. AmongRows(op, rows, m, p, f)
    BY <2>4, <2>5, FollowsWhere
  <2>7. p.kind \notin {"row", "bigrow"}
    <3>1. SUFFICES ASSUME p.kind \in {"row", "bigrow"} PROVE FALSE
      OBVIOUS
    <3>2. ~IsEof(p) /\ PacketType(p) # "ERR"
      BY <3>1, PacketTypes
    <3>3. QED BY <2>3, <3>2 DEF RowPacket, ARow, NoRow, Malformed, HandleError
  <2>8. p.kind # "err"
    <3>1. SUFFICES ASSUME p.kind = "err" PROVE FALSE
      OBVIOUS
    <3>2. ~IsEof(p) /\ PacketType(p) = "ERR"
      BY <3>1, PacketTypes
    <3>3. ReadErr
      BY <2>3, <3>1, <3>2 DEF RowPacket
    <3>4. rc' = "ERR"
      BY <3>3 DEF ReadErr, HandleError
    <3>5. QED BY <3>4
  <2>11. p.kind # "longeof"
    <3>1. SUFFICES ASSUME p.kind = "longeof" PROVE FALSE
      OBVIOUS
    <3>2. ~IsEof(p) /\ PacketType(p) # "ERR"
      BY <3>1, PacketTypes
    <3>3. QED BY <2>3, <3>2 DEF RowPacket, ARow, NoRow, Malformed, HandleError
  <2>9. p.kind = "eof" /\ p.n = rows
    BY <2>6, <2>7, <2>8, <2>11 DEF AmongRows
  <2>10. QED BY <2>9 DEF p
<1> HIDE DEF EofIsEnd
<1>2. Spec => [][EofIsEnd]_vars
  BY <1>1, ConnInvariant, PTL DEF Spec
<1>3. QED BY <1>2 DEF EofIsEnd, EofEndsResult

-----------------------------------------------------------------------------
(* The connection implements the exchange of commands of module Exchange.    *)

\* What the exchange sees of the connection.
Awaited == IF pc \in Reading THEN cmd ELSE 0
Open == pc # "closed"

\* A step of which it sees nothing.
LEMMA Unseen ==
  ASSUME cmd' = cmd, srv'.cmd = srv.cmd, Open' = Open, Awaited' = Awaited
  PROVE  UNCHANGED Commands!vars
  BY DEF Commands!vars, Open, Awaited

\* A step that breaks the connection.
LEMMA Breaks ==
  ASSUME pc # "closed", pc' = "closed", cmd' = cmd, srv'.cmd = srv.cmd
  PROVE  Commands!Break
<1>1. "closed" \notin Reading
  BY DEF Reading
<1>2. QED BY <1>1 DEF Commands!Break

\* A packet is read: the call goes on, or it is through, or the connection broken.
LEMMA ReadsMap ==
  ASSUME ConnAssumption, Good, pc \in Reading, Accept, pc' \in Reading \cup {"ready", "closed"}
  PROVE  [Commands!Next]_(Commands!vars)
<1>1. cmd' = cmd /\ srv'.cmd = srv.cmd /\ srv.cmd = cmd /\ cmd >= 1 /\ cmd \in Nat
  BY Accepted DEF Accept, Good, Typed, TypeOK
<1>2. pc # "closed" /\ "ready" \notin Reading
  BY DEF Reading
<1>3. CASE pc' \in Reading
  <2>1. pc' # "closed"
    BY <1>3 DEF Reading
  <2>2. QED BY <1>1, <1>2, <1>3, <2>1, Unseen DEF Awaited, Open
<1>4. CASE pc' = "ready"
  <2>1. cmd > 0
    BY <1>1
  <2>2. Commands!Complete
    BY <1>1, <1>2, <1>4, <2>1 DEF Commands!Complete
  <2>3. QED BY <2>2 DEF Commands!Next
<1>5. CASE pc' = "closed"
  <2>1. Commands!Break
    BY <1>1, <1>2, <1>5, Breaks
  <2>2. QED BY <2>1 DEF Commands!Next
<1>6. QED BY <1>3, <1>4, <1>5

\* A command is handed to the socket, in part or to its end.
LEMMA HandOverPlaces ==
  ASSUME NEW o, NEW number, NEW f \in Nat, NEW left \in Nat, HandOver(o, number, left, f)
  PROVE  pc' \in {"flush", "ready", "recv"}
<1>1. left > 0 \/ ~(left > 0)
  OBVIOUS
<1>2. QED BY <1>1 DEF HandOver

\* Each step of the connection is one of the exchange, or none.
LEMMA StepMaps ==
  ASSUME ConnAssumption, ~astray', IInv, [Next]_vars
  PROVE  [Commands!Next]_(Commands!vars)
<1>1. Good /\ Typed /\ Counting
  BY StaysAstray DEF IInv, Good
<1>2. cmd \in Nat /\ srv.cmd \in Nat
  BY <1>1 DEF Typed, TypeOK
<1>3. "ready" \notin Reading /\ "flush" \notin Reading /\ "closed" \notin Reading /\ {"recv", "columns", "rows", "drain"} = Reading
  BY DEF Reading
<1>4. CASE UNCHANGED vars
  <2>1. cmd' = cmd /\ srv'.cmd = srv.cmd /\ pc' = pc
    BY <1>4 DEF vars, clientVars, wireVars
  <2>2. QED BY <2>1, Unseen DEF Open, Awaited
<1>5. ASSUME NEW o \in Ops, NEW f \in 1..MaxFrags, Send(o, f)
      PROVE  [Commands!Next]_(Commands!vars)
  <2>1. pc = "ready" /\ cmd' = cmd + 1 /\ srv' = srv
    BY <1>5 DEF Send
  <2>2. PICK left \in 0..f : HandOver(o, cmd', left, f)
    BY <1>5 DEF Send
  <2>3. pc' \in {"flush", "ready", "recv"}
    <3>1. f \in Nat /\ left \in Nat
      BY <2>2 DEF ConnAssumption
    <3>2. QED BY <2>2, <3>1, HandOverPlaces
  <2>4. Commands!Issue
    BY <1>3, <2>1, <2>3 DEF Commands!Issue
  <2>5. QED BY <2>4 DEF Commands!Next
<1>6. ASSUME NEW o \in Ops, NEW code \in {"MAX_PACKET_EXCEEDED", "SYSERR"}, SendFails(o, code)
      PROVE  [Commands!Next]_(Commands!vars)
  <2>1. pc = "ready" /\ pc' \in {"ready", "closed"} /\ cmd' = cmd /\ srv' = srv
    BY <1>6 DEF SendFails, HandleError, wireVars
  <2>2. CASE pc' = "ready"
    BY <1>3, <2>1, <2>2, Unseen DEF Open, Awaited
  <2>3. CASE pc' = "closed"
    <3>1. Commands!Break
      BY <2>1, <2>3, Breaks
    <3>2. QED BY <3>1 DEF Commands!Next
  <2>4. QED BY <2>1, <2>2, <2>3
<1>7. CASE FlushWrites
  <2>1. pc = "flush" /\ cmd' = cmd /\ srv' = srv
    BY <1>7 DEF FlushWrites
  <2>2. PICK left \in 0..(unsent - 1) : HandOver(op, cmd, left, frags)
    BY <1>7 DEF FlushWrites
  <2>3. pc' \in {"flush", "ready", "recv"}
    <3>1. frags \in Nat /\ left \in Nat
      BY <1>1, <2>2 DEF Typed, TypeOK, ConnAssumption
    <3>2. QED BY <2>2, <3>1, HandOverPlaces
  <2>4. CASE pc' # "recv"
    BY <1>3, <2>1, <2>3, <2>4, Unseen DEF Open, Awaited
  <2>5. CASE pc' = "recv"
    <3>1. cmd > 0
      BY <1>1, <1>2, <2>1 DEF Counting
    <3>2. Commands!Await
      BY <1>3, <2>1, <2>5, <3>1 DEF Commands!Await
    <3>3. QED BY <3>2 DEF Commands!Next
  <2>6. QED BY <2>4, <2>5
<1>8. CASE FlushFails \/ Timeout \/ PeerGone \/ CloseRecv \/ Discard
  <2>1. pc' = "closed" /\ cmd' = cmd /\ srv' = srv
    BY <1>8 DEF FlushFails, Timeout, PeerGone, CloseRecv, Discard, HandleError, Recoverable, wireVars
  <2>2. pc # "closed"
    BY <1>3, <1>8 DEF FlushFails, Timeout, PeerGone, CloseRecv, Discard
  <2>3. Commands!Break
    BY <2>1, <2>2, Breaks
  <2>4. QED BY <2>3 DEF Commands!Next
<1>9. CASE Refuse
  BY <1>1, <1>9, RefuseStep
<1>10. CASE ReadRowAgain \/ StartDrain
  <2>1. pc \in Reading /\ pc' \in Reading /\ cmd' = cmd /\ srv' = srv
    BY <1>3, <1>10 DEF ReadRowAgain, StartDrain, wireVars
  <2>2. QED BY <1>3, <2>1, Unseen DEF Open, Awaited
<1>11. CASE NextResult
  <2>1. pc = "ready" /\ pc' = "recv" /\ more /\ cmd' = cmd /\ srv' = srv
    BY <1>11 DEF NextResult, wireVars
  <2>2. cmd > 0
    BY <1>1, <1>2, <2>1 DEF Counting
  <2>3. Commands!Await
    BY <1>3, <2>1, <2>2 DEF Commands!Await
  <2>4. QED BY <2>3 DEF Commands!Next
<1>12. CASE Receive \/ DrainPacket
  <2>1. pc \in Reading /\ Accept
    BY <1>3, <1>12 DEF Receive, QueryRecv, StmtExecuteRecv, PrepareRecv, GenericRecv, ReadColumn, SkipEof, ReadRow,
                       StmtReadRow, DrainPacket
  <2> DEFINE p == Head(s2c)
  <2>2. \A code : HandleError(code) => pc' \in {"ready", "closed"}
    BY DEF HandleError
  <2>3. CASE QueryRecv \/ StmtExecuteRecv
    <3>1. StartResult(p)
      BY <2>3 DEF QueryRecv, StmtExecuteRecv
    <3>2. pc' \in {"ready", "closed", "columns"}
      BY <2>2, <3>1 DEF StartResult, Finish, ReadErr, Malformed
    <3>3. QED BY <1>1, <1>3, <2>1, <3>2, ReadsMap
  <2>4. CASE PrepareRecv
    <3>1. pc' \in {"ready", "closed", "columns"}
      BY <2>2, <2>4 DEF PrepareRecv, ReadErr, Malformed
    <3>2. QED BY <1>1, <1>3, <2>1, <3>1, ReadsMap
  <2>5. CASE GenericRecv
    <3>1. pc' \in {"ready", "closed"}
      BY <2>2, <2>5 DEF GenericRecv, Finish, ReadErr, Malformed
    <3>2. QED BY <1>1, <1>3, <2>1, <3>1, ReadsMap
  <2>6. CASE ReadColumn
    <3>1. pc' \in {"ready", "closed", "columns", "rows"}
      BY <2>2, <2>6 DEF ReadColumn, Malformed
    <3>2. QED BY <1>1, <1>3, <2>1, <3>1, ReadsMap
  <2>7. CASE SkipEof
    <3>1. pc' \in {"ready", "closed", "rows"}
      BY <2>2, <2>7 DEF SkipEof, Malformed
    <3>2. QED BY <1>1, <1>3, <2>1, <3>1, ReadsMap
  <2>8. CASE ReadRow \/ StmtReadRow
    <3>1. RowPacket(p) /\ pc = "rows"
      BY <2>8 DEF ReadRow, StmtReadRow
    <3>2. pc' \in {"ready", "closed", "rows"}
      BY <2>2, <3>1 DEF RowPacket, Finish, ReadErr, ARow, NoRow, Malformed
    <3>3. QED BY <1>1, <1>3, <2>1, <3>2, ReadsMap
  <2>9. CASE DrainPacket
    <3>1. pc' \in {"ready", "closed", "drain"}
      BY <2>2, <2>9 DEF DrainPacket, Finish, Malformed
    <3>2. QED BY <1>1, <1>3, <2>1, <3>1, ReadsMap
  <2>10. QED BY <1>12, <2>3, <2>4, <2>5, <2>6, <2>7, <2>8, <2>9 DEF Receive
<1>13. CASE ServerTakes
  <2>1. c2s # <<>> /\ srv'.cmd = Head(c2s).cmd /\ pc' = pc /\ cmd' = cmd
    <3>1. \E reply : srv' = [cmd |-> Head(c2s).cmd, seq |-> Head(c2s).frags % SeqCount, todo |-> reply]
      BY <1>13 DEF ServerTakes
    <3>2. c2s # <<>> /\ pc' = pc /\ cmd' = cmd
      BY <1>13 DEF ServerTakes, clientVars
    <3>3. QED BY <3>1, <3>2
  <2>2. c2s \in Seq(Command)
    BY <1>1 DEF Typed
  <2>3. Len(c2s) \in Nat /\ Len(c2s) # 0 /\ Head(c2s) = c2s[1]
    BY <2>1, <2>2, EmptySeq
  <2>4. c2s[1].cmd = srv.cmd + 1 /\ srv.cmd + Len(c2s) <= cmd
    BY <1>1, <2>3 DEF Counting
  <2>5. srv.cmd < cmd /\ srv'.cmd = srv.cmd + 1
    <3>1. PICK n \in Nat : n = Len(c2s)
      BY <2>3
    <3>2. PICK s \in Nat : s = srv.cmd
      BY <1>2
    <3>3. s + n <= cmd /\ n # 0
      BY <2>3, <2>4, <3>1, <3>2
    <3>4. s < cmd
      BY <1>2, <3>3
    <3>5. QED BY <2>1, <2>3, <2>4, <3>2, <3>4
  <2>6. Commands!Serve
    BY <2>1, <2>5 DEF Commands!Serve
  <2>7. QED BY <2>6 DEF Commands!Next
<1>14. CASE ServerSends \/ ServerCloses
  <2>1. pc' = pc /\ cmd' = cmd
    BY <1>14 DEF ServerSends, ServerCloses, clientVars
  <2>2. srv'.cmd = srv.cmd
    <3>1. srv \in [cmd : Nat, seq : Numbers, todo : Seq(Contents)]
      BY <1>1 DEF Typed
    <3>2. CASE ServerSends
      <4>1. srv' = [srv EXCEPT !.seq = NextSeq(@), !.todo = Tail(@)]
        BY <3>2 DEF ServerSends
      <4>2. QED BY <3>1, <4>1
    <3>3. CASE ServerCloses
      <4>1. srv' = [srv EXCEPT !.todo = <<>>]
        BY <3>3 DEF ServerCloses
      <4>2. QED BY <3>1, <4>1
    <3>4. QED BY <1>14, <3>2, <3>3
  <2>3. QED BY <2>1, <2>2, Unseen DEF Open, Awaited
<1>15. QED BY <1>4, <1>5, <1>6, <1>7, <1>8, <1>9, <1>10, <1>11, <1>12, <1>13, <1>14 DEF Next, Server

\* ImplementsExchange: the caller has an exchange of commands, one at a time,
\* through partial writes, silent commands, several results, recoverable errors,
\* timeouts and a server that goes away (client.h:459), until something happens
\* that the code does not bear.
THEOREM ConnectionIsExchange == Spec => ImplementsExchange
<1> DEFINE Exchanges == [Commands!Next \/ astray']_(Commands!vars)
<1>1. Init => Commands!Init
  BY DEF Init, Commands!Init, Reading
<1>2. IInv /\ [Next]_vars => Exchanges
  BY StepMaps, ConnAssumption
<1>3. Spec => Commands!Init /\ [][Commands!Next \/ astray']_(Commands!vars)
  BY <1>1, <1>2, ConnInvariant, PTL DEF Spec
<1>4. QED BY <1>3 DEF ImplementsExchange

=============================================================================
