--------------------------- MODULE Builder_proofs ---------------------------
(***************************************************************************)
(* Proofs about Builder, for every fragment size, sequence width, buffer   *)
(* capacity, limit and input.                                              *)
(***************************************************************************)
EXTENDS Builder, SequenceTheorems, TLAPS

Busy == {"open", "copy", "seam", "sealed"}

\* What ties the program counter, the counters and the fragments together.
\* packet_length is kept by its own additions; that it is the sum of the
\* fragments' lengths is what lets PayloadIntact survive an append.
Shape ==
  /\ pc \in Busy => HasPacket
  /\ pc \in {"uninit", "closed"} => frags = <<>>
  /\ HasPacket => packet_length = Offset(Len(frags)) + fragment_length
  /\ pc \in {"open", "sealed"} => todo = <<>>
  /\ pc = "sealed" => frags[Len(frags)].len = fragment_length
  /\ pc = "uninit" \/ alloc \/ cap = 0

IInv == TypeOK /\ Shape /\ InBounds /\ FragmentsCut /\ Numbered /\ PayloadIntact /\ UnderLimit

-----------------------------------------------------------------------------
\* Facts about the operators.

\* The uint8_t increment stays in range.
LEMMA NextSeqType == \A s \in 0..(SeqCount - 1) : NextSeq(s) \in 0..(SeqCount - 1)
  BY BuilderAssumption DEF NextSeq

\* Consecutive fragments start MaxLen bytes apart.
LEMMA OffsetFacts ==
  /\ Offset(1) = 0
  /\ \A n \in Nat \ {0} : Offset(n) \in Nat /\ Offset(n + 1) = Offset(n) + MaxLen
  <1>1. Offset(1) = 0
    BY BuilderAssumption DEF Offset
  <1>2. ASSUME NEW n \in Nat \ {0}
        PROVE  Offset(n) \in Nat /\ Offset(n + 1) = Offset(n) + MaxLen
    <2>1. PICK m \in Nat : n = m + 1
      <3>1. n - 1 \in Nat /\ n = (n - 1) + 1
        OBVIOUS
      <3>2. QED
        BY <3>1
    <2>2. m * MaxLen \in Nat /\ (m + 1) * MaxLen = m * MaxLen + MaxLen
      BY BuilderAssumption
    <2>3. n - 1 = m /\ (n + 1) - 1 = m + 1
      BY <2>1
    <2>4. QED
      BY <2>2, <2>3 DEF Offset
  <1>3. QED
    BY <1>1, <1>2

\* g is f with d appended to the last fragment, and nothing else changed.
ExtendsLast(f, g, d) ==
  /\ g \in Seq(Fragment) /\ Len(g) = Len(f) /\ Len(f) \in Nat \ {0} /\ g # <<>>
  /\ \A i \in 1..Len(f) : /\ g[i].len = f[i].len /\ g[i].seq = f[i].seq
                          /\ i # Len(f) => g[i] = f[i]
  /\ f[Len(f)].data \in Seq(Byte) /\ g[Len(f)].data = f[Len(f)].data \o d

\* That is what the builder's append does.
LEMMA ExtendLast ==
  ASSUME NEW f \in Seq(Fragment), f # <<>>, NEW d \in Seq(Byte),
         NEW g, g = [f EXCEPT ![Len(f)].data = @ \o d]
  PROVE  ExtendsLast(f, g, d)
  <1> DEFINE n == Len(f)
             x == [f[n] EXCEPT !.data = f[n].data \o d]
  <1>1. n \in Nat \ {0} /\ n \in 1..Len(f)
    BY EmptySeq
  <1>2. f[n] \in Fragment
    BY <1>1, ElementOfSeq
  <1>3. f[n].data \in Seq(Byte)
    BY <1>2 DEF Fragment
  <1>4. f[n].data \o d \in Seq(Byte)
    BY <1>3, ConcatProperties
  <1>5. /\ x \in Fragment /\ x.len = f[n].len /\ x.seq = f[n].seq
        /\ x.data = f[n].data \o d
    BY <1>2, <1>4 DEF Fragment
  <1>6. g = [f EXCEPT ![n] = x]
    OBVIOUS
  <1> HIDE DEF x
  <1>7. /\ g \in Seq(Fragment) /\ Len(g) = n
        /\ \A i \in 1..n : g[i] = IF i = n THEN x ELSE f[i]
    <2>1. /\ [f EXCEPT ![n] = x] \in Seq(Fragment) /\ Len([f EXCEPT ![n] = x]) = Len(f)
          /\ \A j \in 1..Len(f) : [f EXCEPT ![n] = x][j] = IF j = n THEN x ELSE f[j]
      <3> HIDE DEF n
      <3>1. QED
        BY <1>1, <1>5, ExceptSeq
    <2>2. QED
      BY <1>6, <2>1
  <1>8. g # <<>>
    BY <1>1, <1>7, EmptySeq
  <1>9. QED
    BY <1>1, <1>3, <1>5, <1>7, <1>8 DEF ExtendsLast

\* What a concatenation holds, read from both sides.
LEMMA ConcatFacts ==
  ASSUME NEW a \in Seq(Byte), NEW d \in Seq(Byte)
  PROVE  /\ a \o d \in Seq(Byte) /\ Len(a) \in Nat /\ Len(d) \in Nat
         /\ Len(a \o d) = Len(a) + Len(d)
         /\ \A j \in 1..Len(a) : (a \o d)[j] = a[j]
         /\ \A j \in 1..Len(d) : (a \o d)[Len(a) + j] = d[j]
  <1>1. /\ a \o d \in Seq(Byte) /\ Len(a \o d) = Len(a) + Len(d)
        /\ \A i \in 1..Len(a) + Len(d) : (a \o d)[i] = IF i <= Len(a) THEN a[i] ELSE d[i - Len(a)]
    BY ConcatProperties
  <1>2. Len(a) \in Nat /\ Len(d) \in Nat
    BY LenProperties
  <1>3. ASSUME NEW j \in 1..Len(a) PROVE (a \o d)[j] = a[j]
    <2>1. j \in 1..Len(a) + Len(d) /\ j <= Len(a)
      BY <1>2
    <2>2. QED
      BY <1>1, <2>1
  <1>4. ASSUME NEW j \in 1..Len(d) PROVE (a \o d)[Len(a) + j] = d[j]
    <2>1. /\ Len(a) + j \in 1..Len(a) + Len(d) /\ ~(Len(a) + j <= Len(a))
          /\ (Len(a) + j) - Len(a) = j
      BY <1>2
    <2>2. QED
      BY <1>1, <2>1
  <1>5. QED
    BY <1>1, <1>2, <1>3, <1>4

\* Full fragments before the n-th end where it starts or earlier.
LEMMA OffsetsApart ==
  ASSUME NEW n \in Nat \ {0}, NEW i \in 1..(n - 1)
  PROVE  Offset(i) \in Nat /\ Offset(n) \in Nat /\ Offset(i) + MaxLen <= Offset(n)
  <1>1. PICK k \in Nat : n = (i + 1) + k
    <2>1. n - (i + 1) \in Nat /\ n = (i + 1) + (n - (i + 1))
      OBVIOUS
    <2>2. QED
      BY <2>1
  <1>2. Offset(i + 1) = Offset(i) + MaxLen /\ Offset(i) \in Nat /\ Offset(n) \in Nat
    BY OffsetFacts
  <1>3. k * MaxLen \in Nat /\ (i + k) * MaxLen = i * MaxLen + k * MaxLen
    BY BuilderAssumption
  <1>4. Offset(n) = (i + k) * MaxLen /\ Offset(i + 1) = i * MaxLen
    <2>1. n - 1 = i + k /\ (i + 1) - 1 = i
      BY <1>1
    <2>2. QED
      BY <2>1 DEF Offset
  <1>5. i * MaxLen \in Nat
    BY BuilderAssumption
  <1>6. QED
    BY <1>2, <1>3, <1>4, <1>5, BuilderAssumption

\* trilogy_buffer_expand returns OK only with room for what was asked for, in a
\* buffer that is not NULL, and otherwise leaves the capacity alone.
LEMMA ExpandFacts ==
  ASSUME TypeOK, NEW l \in Nat, NEW n \in Nat, NEW e \in Expand(l, n)
  PROVE  /\ e.rc \in Failures \cup {"OK"} /\ e.cap \in 0..SizeMax /\ e.cap >= cap
         /\ e.rc = "OK" => l + n <= e.cap /\ (l + n <= cap \/ alloc)
         /\ e.cap # cap => alloc /\ e.rc = "OK"
  <1> DEFINE enough == {d \in Doublings(cap) : d >= l + n}
             least  == {d \in enough : \A x \in enough : d <= x}
  <1>1. \A d \in least : d \in cap..SizeMax /\ d >= l + n
    BY DEF Doublings
  <1>2. CASE l + n <= cap
    <2>1. e = [rc |-> "OK", cap |-> cap]
      BY <1>2 DEF Expand
    <2>2. QED
      BY <1>2, <2>1 DEF TypeOK
  <1>3. CASE ~(l + n <= cap)
    <2>1. \/ e = [rc |-> "MEM_ERROR", cap |-> cap]
          \/ e = [rc |-> "TYPE_OVERFLOW", cap |-> cap]
          \/ e = [rc |-> "SYSERR", cap |-> cap]
          \/ alloc /\ \E d \in least : e = [rc |-> "OK", cap |-> d]
      BY <1>3 DEF Expand
    <2>2. CASE e \in {[rc |-> "MEM_ERROR", cap |-> cap], [rc |-> "TYPE_OVERFLOW", cap |-> cap],
                      [rc |-> "SYSERR", cap |-> cap]}
      <3>1. e.cap = cap /\ e.rc \in Failures /\ e.rc # "OK"
        BY <2>2 DEF Failures
      <3>2. QED
        BY <3>1 DEF TypeOK
    <2>3. CASE alloc /\ \E d \in least : e = [rc |-> "OK", cap |-> d]
      <3>1. PICK d \in least : e = [rc |-> "OK", cap |-> d]
        BY <2>3
      <3>2. QED
        BY <1>1, <2>3, <3>1 DEF TypeOK
    <2>4. QED
      BY <2>1, <2>2, <2>3
  <1>4. QED
    BY <1>2, <1>3

-----------------------------------------------------------------------------
\* The actions.

\* A failed call leaves the packet as it is; nothing is claimed of it any more
\* except that its bytes are where they belong.
LEMMA FailKeeps ==
  ASSUME IInv, NEW c \in Failures, Fail(c),
         UNCHANGED <<frags, len, alloc, builderVars, first, written>>,
         todo' \in Seq(Byte), cap' = cap, pc # "uninit"
  PROVE  IInv'
  <1> USE DEF IInv, Fail, builderVars
  <1>1. TypeOK'
    BY DEF TypeOK, PCs, Failures
  <1>2. Shape'
    BY DEF Shape, Busy, HasPacket, Offset
  <1>3. InBounds'
    BY DEF InBounds, HasPacket, TypeOK
  <1>4. FragmentsCut'
    BY DEF FragmentsCut, HasPacket
  <1>5. Numbered' /\ PayloadIntact' /\ UnderLimit'
    BY DEF Numbered, PayloadIntact, UnderLimit, HasPacket, NextSeq, Offset
  <1>6. QED
    BY <1>1, <1>2, <1>3, <1>4, <1>5

\* Copying d, which fits into the current fragment and under the limit.
LEMMA AppendKeeps ==
  ASSUME IInv, pc \in {"open", "copy"},
         NEW d \in Seq(Byte), Len(d) <= MaxLen - fragment_length,
         NEW e \in Expand(len, Len(d)), AppendData(d, e),
         todo' \in Seq(Byte), packet_length + Len(d) + Len(todo') < packet_max_length,
         fragment_length + Len(d) < MaxLen => todo' = <<>>
  PROVE  IInv'
  <1>0. /\ e.rc \in Failures \cup {"OK"} /\ e.cap \in 0..SizeMax /\ e.cap >= cap
        /\ e.rc = "OK" => len + Len(d) <= e.cap /\ (len + Len(d) <= cap \/ alloc)
        /\ e.cap # cap => alloc /\ e.rc = "OK"
    <2>1. TypeOK /\ len \in Nat /\ Len(d) \in Nat
      BY DEF IInv, TypeOK
    <2>2. QED
      BY <2>1, ExpandFacts
  <1>1. CASE e.rc # "OK"
    <2>1. e.rc \in Failures /\ Fail(e.rc)
      BY <1>0, <1>1 DEF AppendData, IsFull
    <2>2. UNCHANGED <<frags, len, alloc, builderVars, first, written>> /\ cap' = e.cap
      BY <1>1 DEF AppendData, IsFull, builderVars
    <2>3. cap' = cap /\ pc # "uninit"
      BY <1>0, <1>1, <2>2
    <2>4. QED
      BY <2>1, <2>2, <2>3, FailKeeps
  <1>2. CASE e.rc = "OK"
    <2> DEFINE n == Len(frags)
               k == Len(d)
    <2>0. /\ TypeOK /\ Shape /\ InBounds /\ FragmentsCut /\ Numbered /\ PayloadIntact /\ UnderLimit
          /\ HasPacket
      BY DEF IInv, Shape, Busy
    <2>2. /\ pc' = IF fragment_length + k = MaxLen THEN "seam" ELSE "open"
          /\ rc' = "OK" /\ frags' = [frags EXCEPT ![Len(frags)].data = @ \o d] /\ len' = len + k
          /\ fragment_length' = fragment_length + k
          /\ packet_length' = packet_length + k
          /\ written' = written \o d
          /\ cap' = e.cap
          /\ UNCHANGED <<alloc, seq, packet_max_length, first>>
      BY <1>2 DEF AppendData, IsFull, Extended
    <2>3. /\ frags' \in Seq(Fragment) /\ Len(frags') = n /\ n \in Nat \ {0} /\ frags' # <<>>
          /\ \A i \in 1..n : /\ frags'[i].len = frags[i].len /\ frags'[i].seq = frags[i].seq
                             /\ i # n => frags'[i] = frags[i]
          /\ frags[n].data \in Seq(Byte) /\ frags'[n].data = frags[n].data \o d
      <3>1. frags \in Seq(Fragment) /\ frags # <<>> /\ frags' = [frags EXCEPT ![Len(frags)].data = @ \o d]
        BY <2>0, <2>2 DEF TypeOK, HasPacket
      <3>2. ExtendsLast(frags, frags', d)
        BY <3>1, ExtendLast
      <3>3. QED
        BY <3>2 DEF ExtendsLast
    <2>4. /\ Len(frags[n].data) = fragment_length /\ k \in Nat
          /\ Len(frags'[n].data) = fragment_length + k
          /\ \A j \in 1..fragment_length : frags'[n].data[j] = frags[n].data[j]
          /\ \A j \in 1..k : frags'[n].data[fragment_length + j] = d[j]
      <3>1. Len(frags[n].data) = fragment_length
        BY <2>0 DEF FragmentsCut
      <3>2. QED
        <4> DEFINE a == frags[n].data
        <4>1. a \in Seq(Byte) /\ Len(a) = fragment_length /\ frags'[n].data = a \o d
          BY <2>3, <3>1
        <4>2. /\ Len(d) \in Nat /\ Len(a \o d) = Len(a) + Len(d)
              /\ \A j \in 1..Len(a) : (a \o d)[j] = a[j]
              /\ \A j \in 1..Len(d) : (a \o d)[Len(a) + j] = d[j]
          BY <4>1, ConcatFacts
        <4>3. QED
          BY <4>1, <4>2
    <2>5. /\ Len(written) = packet_length
          /\ written' \in Seq(Byte) /\ Len(written') = packet_length + k
          /\ \A j \in 1..packet_length : written'[j] = written[j]
          /\ \A j \in 1..k : written'[packet_length + j] = d[j]
      <3>1. written \in Seq(Byte) /\ Len(written) = packet_length
        BY <2>0 DEF TypeOK, PayloadIntact
      <3>2. QED
        BY <2>2, <3>1, ConcatFacts
    <2>1. /\ fragment_length \in Nat /\ fragment_length < MaxLen
          /\ fragment_length + k \in 0..MaxLen /\ packet_length \in Nat
      BY <2>0, <2>4, BuilderAssumption DEF TypeOK, FragmentsCut
    <2>6. packet_length = Offset(n) + fragment_length /\ Offset(n) \in Nat
      BY <2>0, <2>3, OffsetFacts DEF Shape
    <2> HIDE DEF n, k
    <2>7. TypeOK'
      <3>1. pc' \in PCs /\ rc' \in Failures \cup {"OK"} /\ frags' \in Seq(Fragment) /\ cap' \in 0..SizeMax
        BY <2>2, <2>3, <1>0 DEF PCs
      <3>2. len' \in Nat /\ fragment_length' \in 0..MaxLen /\ packet_length' \in Nat
        <4>1. len \in Nat
          BY <2>0 DEF TypeOK
        <4>2. QED
          BY <4>1, <2>1, <2>2, <2>4
      <3>3. QED
        BY <2>0, <2>2, <2>5, <3>1, <3>2 DEF TypeOK
    <2>8. Shape'
      <3>2. packet_length' = Offset(n) + fragment_length'
        BY <2>1, <2>2, <2>4, <2>6
      <3>3. HasPacket' /\ pc' \in {"open", "seam"} /\ (pc' = "open" => todo' = <<>>)
        <4>1. fragment_length + k = MaxLen \/ fragment_length + k < MaxLen
          BY <2>1, BuilderAssumption
        <4>2. QED
          BY <4>1, <2>2, <2>3 DEF HasPacket, k
      <3>4. alloc' \/ cap' = 0
        BY <1>0, <2>0, <2>2 DEF Shape
      <3>5. QED
        BY <2>3, <3>2, <3>3, <3>4 DEF Shape, Offset
    <2>9. InBounds'
      <3>1. len \in Nat /\ len <= cap /\ (len > 0 => alloc) /\ len = 4 * n + packet_length /\ cap \in Nat
        BY <2>0 DEF InBounds, TypeOK, n
      <3>2. len + k <= e.cap /\ (len + k <= cap \/ alloc) /\ e.cap \in Nat
        BY <1>0, <1>2 DEF k
      <3>3. len' = 4 * n + packet_length' /\ len' <= cap' /\ (len' > 0 => alloc')
        <4>1. len' = len + k /\ packet_length' = packet_length + k /\ cap' = e.cap /\ alloc' = alloc
          BY <2>2
        <4>2. n \in Nat \ {0} /\ k \in Nat /\ packet_length \in Nat
          BY <2>1, <2>3, <2>4
        <4>3. alloc
          BY <3>1, <4>2
        <4>4. QED
          BY <3>1, <3>2, <4>1, <4>2, <4>3
      <3>4. QED
        BY <2>3, <3>3 DEF InBounds
    <2>10. FragmentsCut'
      <3>1. \A i \in 1..(n - 1) : Len(frags'[i].data) = MaxLen /\ frags'[i].len = MaxLen
        <4>1. \A i \in 1..(n - 1) : i \in 1..n /\ i # n
          BY <2>3
        <4>2. \A i \in 1..(n - 1) : Len(frags[i].data) = MaxLen /\ frags[i].len = MaxLen
          BY <2>0 DEF FragmentsCut, n
        <4>3. QED
          BY <4>1, <4>2, <2>3
      <3>2. pc' = "open" => fragment_length' < MaxLen
        BY <2>1, <2>2, BuilderAssumption
      <3>3. pc' = "seam" => fragment_length' = MaxLen
        BY <2>2
      <3>4. Len(frags'[Len(frags')].data) = fragment_length' /\ pc' \in {"open", "seam"}
        BY <2>2, <2>3, <2>4
      <3>5. QED
        BY <2>3, <3>1, <3>2, <3>3, <3>4 DEF FragmentsCut
    <2>11. Numbered'
      <3>1. /\ frags'[1].seq = first /\ seq = NextSeq(frags'[n].seq)
            /\ \A i \in 1..(n - 1) : frags'[i + 1].seq = NextSeq(frags'[i].seq)
        BY <2>0, <2>3 DEF Numbered, n
      <3>2. QED
        BY <2>2, <2>3, <3>1 DEF Numbered, HasPacket, NextSeq
    <2>12. PayloadIntact'
      <3>1. ASSUME NEW i \in 1..n, NEW j \in 1..Len(frags'[i].data)
            PROVE  frags'[i].data[j] = written'[Offset(i) + j]
        <4>1. CASE i # n
          <5>1. frags'[i] = frags[i] /\ Len(frags[i].data) = MaxLen
            BY <2>0, <2>3, <4>1 DEF FragmentsCut, n
          <5>2. frags[i].data[j] = written[Offset(i) + j]
            BY <5>1, <2>0 DEF PayloadIntact, n
          <5>3. Offset(i) + j \in 1..packet_length
            <6>1. i \in 1..(n - 1) /\ j \in 1..MaxLen
              BY <5>1, <2>3, <4>1
            <6>2. Offset(i) \in Nat /\ Offset(i) + MaxLen <= Offset(n)
              BY <6>1, <2>3, OffsetsApart
            <6>3. QED
              <7>1. MaxLen \in Nat
                BY BuilderAssumption
              <7>2. j \in Nat /\ 1 <= j /\ j <= MaxLen
                BY <6>1, <7>1
              <7>3. Offset(i) + j \in Nat /\ Offset(i) + j <= Offset(n) /\ Offset(i) + j >= 1
                <8> DEFINE from == Offset(i)
                           to == Offset(n)
                <8>1. from \in Nat /\ to \in Nat /\ from + MaxLen <= to
                  BY <6>2, <2>6
                <8> HIDE DEF from, to
                <8>2. from + j \in Nat /\ from + j <= to /\ from + j >= 1
                  BY <8>1, <7>1, <7>2
                <8>3. QED BY <8>2 DEF from, to
              <7>4. Offset(n) <= packet_length
                BY <2>1, <2>6
              <7> DEFINE at == Offset(i) + j
                         to == Offset(n)
              <7>5. at \in Nat /\ at <= to /\ at >= 1 /\ to \in Nat /\ to <= packet_length /\ packet_length \in Nat
                BY <7>3, <7>4, <2>1, <2>6
              <7> HIDE DEF at, to
              <7>6. at \in 1..packet_length
                BY <7>5
              <7>7. QED
                BY <7>6 DEF at
          <5>4. QED
            BY <5>1, <5>2, <5>3, <2>5
        <4>2. CASE i = n /\ j <= fragment_length
          <5>1. frags[n].data[j] = written[Offset(n) + j]
            BY <4>2, <2>0, <2>1, <2>3, <2>4 DEF PayloadIntact, n
          <5>2. Offset(n) + j \in 1..packet_length
            BY <4>2, <2>1, <2>4, <2>6
          <5>3. j \in 1..fragment_length
            BY <4>2, <2>1, <2>4
          <5>4. QED
            BY <4>2, <5>1, <5>2, <5>3, <2>4, <2>5
        <4>3. CASE i = n /\ ~(j <= fragment_length)
          <5>1. PICK m \in 1..k : j = fragment_length + m
            <6>1. j - fragment_length \in 1..k
              BY <4>3, <2>1, <2>4
            <6>2. j = fragment_length + (j - fragment_length)
              BY <4>3, <2>1, <2>4
            <6>3. QED
              BY <6>1, <6>2
          <5>2. Offset(i) + j = packet_length + m
            BY <4>3, <5>1, <2>6, <2>1
          <5>3. QED
            BY <4>3, <5>1, <5>2, <2>4, <2>5
        <4>4. QED
          BY <4>1, <4>2, <4>3
      <3>2. QED
        BY <3>1, <2>2, <2>3, <2>5 DEF PayloadIntact, HasPacket, Offset
    <2>13. UnderLimit'
      BY <2>2 DEF UnderLimit, k
    <2>14. QED
      BY <2>7, <2>8, <2>9, <2>10, <2>11, <2>12, <2>13 DEF IInv
  <1>3. QED
    BY <1>1, <1>2

\* A first header, alone in the buffer.
LEMMA OneHeader ==
  ASSUME NEW s \in 0..(SeqCount - 1)
  PROVE  /\ NewHeader(s) \in Fragment /\ NewHeader(s).seq = s /\ NewHeader(s).data = <<>>
         /\ <<NewHeader(s)>> \in Seq(Fragment) /\ Len(<<NewHeader(s)>>) = 1
         /\ <<NewHeader(s)>>[1] = NewHeader(s)
  <1>1. NewHeader(s) \in Fragment
    BY BuilderAssumption, EmptySeq DEF NewHeader, Fragment
  <1>2. QED
    BY <1>1 DEF NewHeader

LEMMA BeginPacketKeeps ==
  ASSUME IInv, NEW s \in Seqs, NEW limit \in Limits, BeginPacket(s, limit)
  PROVE  IInv'
  <1>0. TypeOK /\ s \in 0..(SeqCount - 1) /\ limit \in 0..SizeMax /\ SizeMax \in Nat \ {0}
    BY BuilderAssumption DEF IInv
  <1>1. PICK e \in Expand(0, 4) :
          /\ cap' = e.cap /\ alloc' = alloc
          /\ IF e.rc = "OK"
             THEN /\ pc' = "open" /\ rc' = "OK"
                  /\ len' = 4 /\ frags' = <<NewHeader(s)>>
                  /\ seq' = NextSeq(s)
                  /\ packet_max_length' = IF limit > 0 THEN limit ELSE SizeMax
             ELSE /\ Fail(e.rc)
                  /\ len' = 0 /\ frags' = <<>> /\ seq' = s
                  /\ packet_max_length' = SizeMax
    BY DEF BeginPacket
  <1>2. /\ e.rc \in Failures \cup {"OK"} /\ e.cap \in 0..SizeMax /\ e.cap >= cap
        /\ e.rc = "OK" => 4 <= e.cap /\ (4 <= cap \/ alloc)
        /\ e.cap # cap => alloc /\ e.rc = "OK"
    BY <1>0, ExpandFacts
  <1>3. /\ packet_length' = 0 /\ fragment_length' = 0
        /\ first' = s /\ written' = <<>> /\ todo' = <<>>
        /\ pc \in {"closed", "sealed", "failed"}
    BY DEF BeginPacket
  <1>4. <<>> \in Seq(Byte) /\ <<>> \in Seq(Fragment) /\ Len(<<>>) = 0
    BY EmptySeq
  <1>5. CASE e.rc # "OK"
    <2>1. /\ pc' = "failed" /\ rc' = e.rc /\ len' = 0 /\ frags' = <<>> /\ seq' = s
          /\ packet_max_length' = SizeMax
      BY <1>1, <1>5 DEF Fail
    <2>2. TypeOK'
      <3>1. 0 \in 0..MaxLen /\ SizeMax \in 1..SizeMax /\ alloc \in BOOLEAN /\ rc' \in Failures \cup {"OK"}
        BY <1>0, <1>2, <2>1, BuilderAssumption DEF TypeOK
      <3>2. QED
        BY <1>0, <1>1, <1>2, <1>3, <1>4, <2>1, <3>1 DEF TypeOK, PCs
    <2>3. InBounds'
      BY <1>1, <1>2, <2>1 DEF InBounds, HasPacket
    <2>4. ~HasPacket'
      BY <2>1 DEF HasPacket
    <2>5. alloc' \/ cap' = 0
      BY <1>1, <1>2, <1>3, <1>5 DEF IInv, Shape
    <2>6. QED
      BY <2>1, <2>2, <2>3, <2>4, <2>5
      DEF IInv, Shape, Busy, FragmentsCut, Numbered, PayloadIntact, UnderLimit
  <1>6. CASE e.rc = "OK"
    <2>0. 4 <= cap' /\ alloc'
      <3>1. alloc \/ cap = 0
        BY <1>3 DEF IInv, Shape
      <3>2. QED
        BY <1>1, <1>2, <1>6, <3>1
    <2>1. /\ pc' = "open" /\ rc' = "OK" /\ len' = 4 /\ frags' = <<NewHeader(s)>>
          /\ seq' = NextSeq(s) /\ packet_max_length' = IF limit > 0 THEN limit ELSE SizeMax
      BY <1>1, <1>6
    <2>2. /\ frags' \in Seq(Fragment) /\ Len(frags') = 1 /\ frags' # <<>>
          /\ frags'[1].seq = s /\ frags'[1].data = <<>>
      BY <1>0, <2>1, OneHeader
    <2>3. packet_max_length' \in 1..SizeMax
      BY <1>0, <2>1
    <2>4. TypeOK'
      <3>1. 0 \in 0..MaxLen /\ alloc \in BOOLEAN /\ NextSeq(s) \in 0..(SeqCount - 1)
        BY <1>0, BuilderAssumption, NextSeqType DEF TypeOK
      <3>2. QED
        BY <1>0, <1>1, <1>2, <1>3, <1>4, <2>1, <2>2, <2>3, <3>1 DEF TypeOK, PCs
    <2>5. Shape'
      <3>1. packet_length' = Offset(Len(frags')) + fragment_length'
        BY <1>3, <2>2, OffsetFacts
      <3>2. QED
        BY <1>3, <2>1, <2>2, <2>0, <3>1 DEF Shape, Busy, HasPacket, Offset
    <2>6. InBounds'
      BY <1>3, <2>1, <2>2, <2>0 DEF InBounds, HasPacket
    <2>7. FragmentsCut'
      BY <1>3, <1>4, <2>1, <2>2, BuilderAssumption DEF FragmentsCut, HasPacket
    <2>8. Numbered'
      BY <1>3, <2>1, <2>2 DEF Numbered, HasPacket, NextSeq
    <2>9. PayloadIntact'
      BY <1>3, <1>4, <2>2 DEF PayloadIntact, HasPacket
    <2>10. UnderLimit'
      BY <1>3, <1>4, <2>1, <2>3 DEF UnderLimit
    <2>11. QED
      BY <2>4, <2>5, <2>6, <2>7, <2>8, <2>9, <2>10 DEF IInv
  <1>7. QED
    BY <1>5, <1>6

LEMMA WriteUint8Keeps ==
  ASSUME IInv, NEW b \in Byte, WriteUint8(b)
  PROVE  IInv'
  <1>1. /\ TypeOK /\ pc = "open" /\ todo = <<>> /\ todo' = <<>> /\ fragment_length < MaxLen
    BY DEF IInv, WriteUint8, Shape, FragmentsCut, Busy
  <1>2. CASE packet_length >= packet_max_length - 1
    <2>1. Fail("MAX_PACKET_EXCEEDED") /\ UNCHANGED <<frags, bufVars, builderVars, first, written>>
      BY <1>2 DEF WriteUint8
    <2>2. QED
      BY <1>1, <2>1, FailKeeps DEF bufVars, Failures, TypeOK
  <1>3. CASE ~(packet_length >= packet_max_length - 1)
    <2>1. PICK e \in Expand(len, 1) : AppendData(<<b>>, e)
      BY <1>3 DEF WriteUint8
    <2>2. <<b>> \in Seq(Byte) /\ Len(<<b>>) = 1
      OBVIOUS
    <2>3. 1 <= MaxLen - fragment_length
      BY <1>1, BuilderAssumption DEF TypeOK
    <2>4. packet_length + 1 + 0 < packet_max_length
      BY <1>1, <1>3, BuilderAssumption DEF TypeOK
    <2>5. todo' \in Seq(Byte) /\ Len(todo') = 0
      BY <1>1, EmptySeq
    <2> DEFINE d == <<b>>
    <2>6. /\ pc \in {"open", "copy"} /\ d \in Seq(Byte) /\ Len(d) <= MaxLen - fragment_length
          /\ e \in Expand(len, Len(d)) /\ AppendData(d, e) /\ todo' \in Seq(Byte)
          /\ packet_length + Len(d) + Len(todo') < packet_max_length /\ todo' = <<>>
      BY <1>1, <2>1, <2>2, <2>3, <2>4, <2>5
    <2> HIDE DEF d
    <2>7. QED
      BY <2>6, AppendKeeps
  <1>4. QED
    BY <1>2, <1>3

LEMMA WriteBufferKeeps ==
  ASSUME IInv, NEW d \in Inputs, WriteBuffer(d)
  PROVE  IInv'
  <1>1. /\ TypeOK /\ pc = "open" /\ d \in Seq(Byte) /\ todo = <<>>
        /\ UNCHANGED <<frags, bufVars, builderVars, first, written>>
    BY BuilderAssumption DEF IInv, WriteBuffer, Shape
  <1>2. CASE packet_length + Len(d) >= packet_max_length
    <2>1. Fail("MAX_PACKET_EXCEEDED") /\ todo' = todo
      BY <1>2 DEF WriteBuffer
    <2>2. QED
      BY <1>1, <2>1, FailKeeps DEF bufVars, Failures, TypeOK
  <1>3. CASE ~(packet_length + Len(d) >= packet_max_length)
    <2>1. pc' = "copy" /\ todo' = d /\ rc' = rc
      BY <1>3 DEF WriteBuffer
    <2>2. TypeOK'
      BY <1>1, <2>1 DEF TypeOK, PCs, bufVars, builderVars
    <2>3. Shape'
      BY <1>1, <2>1 DEF IInv, Shape, Busy, HasPacket, Offset, bufVars, builderVars
    <2>4. InBounds' /\ Numbered' /\ PayloadIntact'
      BY <1>1 DEF IInv, InBounds, Numbered, PayloadIntact, HasPacket, NextSeq, Offset, bufVars, builderVars
    <2>5. FragmentsCut'
      BY <1>1, <2>1 DEF IInv, FragmentsCut, HasPacket, builderVars
    <2>6. UnderLimit'
      <3>1. Len(d) \in Nat /\ packet_length \in Nat /\ packet_max_length \in Nat
        BY <1>1, BuilderAssumption, LenProperties DEF TypeOK
      <3>2. QED
        BY <1>1, <1>3, <2>1, <3>1 DEF UnderLimit, builderVars
    <2>7. QED
      BY <2>2, <2>3, <2>4, <2>5, <2>6 DEF IInv
  <1>4. QED
    BY <1>2, <1>3

LEMMA CopyChunkKeeps ==
  ASSUME IInv, CopyChunk
  PROVE  IInv'
  <1> DEFINE room == MaxLen - fragment_length
             n == IF Len(todo) >= room THEN room ELSE Len(todo)
             d == SubSeq(todo, 1, n)
  <1>1. /\ TypeOK /\ pc = "copy" /\ fragment_length < MaxLen /\ todo \in Seq(Byte) /\ Len(todo) \in Nat
        /\ packet_length + Len(todo) < packet_max_length
    BY LenProperties DEF IInv, CopyChunk, TypeOK, FragmentsCut, UnderLimit, Shape, Busy
  <1>2. PICK e \in Expand(len, n) : AppendData(d, e)
    BY DEF CopyChunk
  <1>3. todo' = SubSeq(todo, n + 1, Len(todo))
    BY DEF CopyChunk
  <1>4. /\ room \in Nat /\ n \in Nat /\ n <= room /\ n <= Len(todo)
        /\ n < room => n = Len(todo)
        /\ fragment_length + n < MaxLen => n = Len(todo)
    BY <1>1, BuilderAssumption DEF TypeOK
  <1> HIDE DEF n, room
  <1>5. d \in Seq(Byte) /\ Len(d) = n
    <2>1. \A i \in 1..n : todo[i] \in Byte
      BY <1>1, <1>4, ElementOfSeq
    <2>2. /\ SubSeq(todo, 1, n) \in Seq(Byte)
          /\ Len(SubSeq(todo, 1, n)) = IF 1 <= n THEN n - 1 + 1 ELSE 0
      BY <2>1, <1>4, SubSeqProperties
    <2>3. QED
      BY <2>2, <1>4
  <1>6. todo' \in Seq(Byte) /\ Len(todo') = Len(todo) - n
    <2>1. \A i \in (n + 1)..Len(todo) : todo[i] \in Byte
      BY <1>1, <1>4, ElementOfSeq
    <2>2. /\ SubSeq(todo, n + 1, Len(todo)) \in Seq(Byte)
          /\ Len(SubSeq(todo, n + 1, Len(todo))) = IF n + 1 <= Len(todo) THEN Len(todo) - (n + 1) + 1 ELSE 0
      <3>1. n + 1 \in Int /\ Len(todo) \in Int
        BY <1>1, <1>4
      <3>2. QED
        BY <2>1, <3>1, SubSeqProperties
    <2>3. QED
      BY <2>2, <1>1, <1>3, <1>4
  <1>7. fragment_length + Len(d) < MaxLen => todo' = <<>>
    BY <1>1, <1>4, <1>5, <1>6, EmptySeq
  <1>8. /\ Len(d) <= MaxLen - fragment_length
        /\ packet_length + Len(d) + Len(todo') < packet_max_length
    BY <1>1, <1>4, <1>5, <1>6, BuilderAssumption DEF TypeOK, room
  <1>9. e \in Expand(len, Len(d)) /\ AppendData(d, e) /\ pc \in {"open", "copy"}
    BY <1>1, <1>2, <1>5
  <1> HIDE DEF d
  <1>10. QED
    BY <1>5, <1>6, <1>7, <1>8, <1>9, AppendKeeps

\* g is f with the length field of the last fragment set to v.
RelabelsLast(f, g, v) ==
  /\ g \in Seq(Fragment) /\ Len(g) = Len(f) /\ Len(f) \in Nat \ {0} /\ g # <<>>
  /\ \A i \in 1..Len(f) : /\ g[i].data = f[i].data /\ g[i].seq = f[i].seq
                          /\ i # Len(f) => g[i] = f[i]
  /\ g[Len(f)].len = v

\* That is what the builder's header rewrites do.
LEMMA RelabelLast ==
  ASSUME NEW f \in Seq(Fragment), f # <<>>, NEW v \in 0..MaxLen,
         NEW g, g = [f EXCEPT ![Len(f)].len = v]
  PROVE  RelabelsLast(f, g, v)
  <1> DEFINE n == Len(f)
             x == [f[n] EXCEPT !.len = v]
  <1>1. n \in Nat \ {0} /\ n \in 1..Len(f)
    BY EmptySeq
  <1>2. f[n] \in Fragment
    BY <1>1, ElementOfSeq
  <1>3. x \in Fragment /\ x.data = f[n].data /\ x.seq = f[n].seq /\ x.len = v
    BY <1>2 DEF Fragment
  <1>4. g = [f EXCEPT ![n] = x]
    OBVIOUS
  <1> HIDE DEF x
  <1>5. /\ g \in Seq(Fragment) /\ Len(g) = n
        /\ \A i \in 1..n : g[i] = IF i = n THEN x ELSE f[i]
    <2>1. /\ [f EXCEPT ![n] = x] \in Seq(Fragment) /\ Len([f EXCEPT ![n] = x]) = Len(f)
          /\ \A j \in 1..Len(f) : [f EXCEPT ![n] = x][j] = IF j = n THEN x ELSE f[j]
      <3> HIDE DEF n
      <3>1. QED
        BY <1>1, <1>3, ExceptSeq
    <2>2. QED
      BY <1>4, <2>1
  <1>6. g # <<>>
    BY <1>1, <1>5, EmptySeq
  <1>7. QED
    BY <1>1, <1>3, <1>5, <1>6 DEF RelabelsLast

LEMMA FinalizeKeeps ==
  ASSUME IInv, Finalize
  PROVE  IInv'
  <1> DEFINE n == Len(frags)
  <1>0. /\ TypeOK /\ Shape /\ InBounds /\ FragmentsCut /\ Numbered /\ PayloadIntact /\ UnderLimit
        /\ HasPacket /\ pc = "open" /\ pc' = "sealed" /\ todo = <<>>
        /\ UNCHANGED <<rc, bufVars, builderVars, todo, first, written>>
    BY DEF IInv, Shape, Busy, Finalize
  <1>1. RelabelsLast(frags, frags', fragment_length)
    <2>1. /\ frags \in Seq(Fragment) /\ frags # <<>> /\ fragment_length \in 0..MaxLen
          /\ frags' = [frags EXCEPT ![Len(frags)].len = fragment_length]
      BY <1>0 DEF TypeOK, HasPacket, Finalize
    <2>2. QED
      BY <2>1, RelabelLast
  <1>2. /\ frags' \in Seq(Fragment) /\ Len(frags') = n /\ n \in Nat \ {0} /\ frags' # <<>>
        /\ \A i \in 1..n : /\ frags'[i].data = frags[i].data /\ frags'[i].seq = frags[i].seq
                           /\ i # n => frags'[i] = frags[i]
        /\ frags'[n].len = fragment_length
    BY <1>1 DEF RelabelsLast
  <1>3. TypeOK'
    BY <1>0, <1>2 DEF TypeOK, PCs, bufVars, builderVars
  <1>4. Shape'
    BY <1>0, <1>2 DEF Shape, Busy, HasPacket, Offset, bufVars, builderVars
  <1>5. InBounds'
    BY <1>0, <1>2 DEF InBounds, HasPacket, bufVars, builderVars
  <1>6. FragmentsCut'
    <2>1. \A i \in 1..(n - 1) : i \in 1..n /\ i # n
      BY <1>2
    <2>2. QED
      BY <1>0, <1>2, <2>1 DEF FragmentsCut, HasPacket, builderVars
  <1>7. Numbered'
    <2>1. \A i \in 1..(n - 1) : i \in 1..n /\ i + 1 \in 1..n
      BY <1>2
    <2>2. 1 \in 1..n /\ n \in 1..n
      BY <1>2
    <2>3. /\ frags'[1].seq = first /\ seq = NextSeq(frags'[n].seq)
          /\ \A i \in 1..(n - 1) : frags'[i + 1].seq = NextSeq(frags'[i].seq)
      BY <1>0, <1>2, <2>1, <2>2 DEF Numbered
    <2>4. QED
      BY <1>0, <1>2, <2>3 DEF Numbered, HasPacket, NextSeq, builderVars
  <1>8. PayloadIntact'
    BY <1>0, <1>2 DEF PayloadIntact, HasPacket, Offset, builderVars
  <1>9. UnderLimit'
    BY <1>0 DEF UnderLimit, builderVars
  <1>10. QED
    BY <1>3, <1>4, <1>5, <1>6, <1>7, <1>8, <1>9 DEF IInv

\* h is g with a header numbered s after it.
LEMMA AppendHeader ==
  ASSUME NEW g \in Seq(Fragment), NEW s \in 0..(SeqCount - 1),
         NEW h, h = Append(g, NewHeader(s))
  PROVE  /\ h \in Seq(Fragment) /\ Len(h) = Len(g) + 1 /\ h # <<>> /\ Len(g) \in Nat
         /\ \A i \in 1..Len(g) : h[i] = g[i]
         /\ h[Len(g) + 1] = NewHeader(s)
  <1> DEFINE x == NewHeader(s)
  <1>1. x \in Fragment
    BY OneHeader
  <1> HIDE DEF x
  <1>2. /\ Append(g, x) \in Seq(Fragment) /\ Len(Append(g, x)) = Len(g) + 1
        /\ \A i \in 1..Len(g) : Append(g, x)[i] = g[i]
        /\ Append(g, x)[Len(g) + 1] = x
    BY <1>1, AppendProperties
  <1>3. Len(g) \in Nat
    BY LenProperties
  <1>4. h = Append(g, x)
    BY DEF x
  <1>5. h # <<>>
    BY <1>2, <1>3, <1>4, EmptySeq
  <1>6. QED
    BY <1>2, <1>3, <1>4, <1>5 DEF x

LEMMA ContinuationHeaderKeeps ==
  ASSUME IInv, ContinuationHeader
  PROVE  IInv'
  <1> DEFINE n == Len(frags)
             full == [frags EXCEPT ![Len(frags)].len = MaxLen]
  <1>0. /\ TypeOK /\ Shape /\ InBounds /\ FragmentsCut /\ Numbered /\ PayloadIntact /\ UnderLimit
        /\ HasPacket /\ pc = "seam" /\ fragment_length = MaxLen
        /\ UNCHANGED <<alloc, packet_length, packet_max_length, todo, first, written>>
    BY DEF IInv, Shape, Busy, ContinuationHeader, FragmentsCut
  <1>1. PICK e \in Expand(len, 4) :
          /\ cap' = e.cap
          /\ IF e.rc = "OK"
             THEN /\ pc' = IF todo = <<>> THEN "open" ELSE "copy"
                  /\ rc' = "OK" /\ frags' = Append(full, NewHeader(seq)) /\ len' = len + 4
                  /\ fragment_length' = 0 /\ seq' = NextSeq(seq)
             ELSE Fail(e.rc) /\ frags' = full /\ UNCHANGED <<len, fragment_length, seq>>
    BY DEF ContinuationHeader
  <1>2. /\ e.rc \in Failures \cup {"OK"} /\ e.cap \in 0..SizeMax /\ e.cap >= cap
        /\ e.rc = "OK" => len + 4 <= e.cap /\ (len + 4 <= cap \/ alloc)
        /\ e.cap # cap => alloc /\ e.rc = "OK"
    <2>1. len \in Nat /\ 4 \in Nat
      BY <1>0 DEF TypeOK
    <2>2. QED
      BY <1>0, <2>1, ExpandFacts
  <1>3. RelabelsLast(frags, full, MaxLen)
    <2>1. frags \in Seq(Fragment) /\ frags # <<>> /\ MaxLen \in 0..MaxLen
      BY <1>0, BuilderAssumption DEF TypeOK, HasPacket
    <2>2. QED
      BY <2>1, RelabelLast
  <1> HIDE DEF full
  <1>4. /\ full \in Seq(Fragment) /\ Len(full) = n /\ n \in Nat \ {0} /\ full # <<>>
        /\ \A i \in 1..n : /\ full[i].data = frags[i].data /\ full[i].seq = frags[i].seq
                           /\ i # n => full[i] = frags[i]
        /\ full[n].len = MaxLen
    BY <1>3 DEF RelabelsLast
  <1>5. /\ \A i \in 1..n : Len(full[i].data) = MaxLen /\ full[i].len = MaxLen
        /\ \A i \in 1..n : \A j \in 1..MaxLen : full[i].data[j] = written[Offset(i) + j]
    <2>1. ASSUME NEW i \in 1..n
          PROVE  Len(frags[i].data) = MaxLen /\ (i # n => frags[i].len = MaxLen)
      <3>1. i = n \/ i \in 1..(n - 1)
        BY <1>4
      <3>2. QED
        BY <1>0, <3>1 DEF FragmentsCut
    <2>2. QED
      BY <1>0, <1>4, <2>1 DEF PayloadIntact
  <1>6. /\ full[1].seq = first /\ seq = NextSeq(full[n].seq)
        /\ \A i \in 1..(n - 1) : full[i + 1].seq = NextSeq(full[i].seq)
    <2>1. \A i \in 1..(n - 1) : i \in 1..n /\ i + 1 \in 1..n
      BY <1>4
    <2>2. 1 \in 1..n /\ n \in 1..n
      BY <1>4
    <2>3. QED
      BY <1>0, <1>4, <2>1, <2>2 DEF Numbered
  <1>7. CASE e.rc # "OK"
    <2>1. /\ pc' = "failed" /\ rc' = e.rc /\ frags' = full /\ cap' = cap
          /\ UNCHANGED <<len, fragment_length, seq>>
      BY <1>1, <1>2, <1>7 DEF Fail
    <2>2. TypeOK'
      BY <1>0, <1>2, <1>4, <1>7, <2>1 DEF TypeOK, PCs
    <2>3. Shape'
      BY <1>0, <1>4, <2>1 DEF Shape, Busy, HasPacket, Offset
    <2>4. InBounds'
      BY <1>0, <1>4, <2>1 DEF InBounds, HasPacket
    <2>5. FragmentsCut'
      <3>1. /\ \A i \in 1..(n - 1) : i \in 1..n
            /\ n \in 1..n
        BY <1>4
      <3>2. QED
        BY <1>0, <1>4, <1>5, <2>1, <3>1 DEF FragmentsCut, HasPacket
    <2>6. Numbered'
      BY <1>0, <1>4, <1>6, <2>1 DEF Numbered, HasPacket, NextSeq
    <2>7. PayloadIntact'
      BY <1>0, <1>4, <2>1 DEF PayloadIntact, HasPacket, Offset
    <2>8. UnderLimit'
      BY <2>1 DEF UnderLimit
    <2>9. QED
      BY <2>2, <2>3, <2>4, <2>5, <2>6, <2>7, <2>8 DEF IInv
  <1>8. CASE e.rc = "OK"
    <2>1. /\ pc' = IF todo = <<>> THEN "open" ELSE "copy"
          /\ rc' = "OK" /\ frags' = Append(full, NewHeader(seq)) /\ len' = len + 4
          /\ fragment_length' = 0 /\ seq' = NextSeq(seq) /\ cap' = e.cap
      BY <1>1, <1>8
    <2>2. seq \in 0..(SeqCount - 1) /\ NextSeq(seq) \in 0..(SeqCount - 1)
      BY <1>0, NextSeqType DEF TypeOK
    <2> DEFINE h == Append(full, NewHeader(seq))
    <2>3. /\ frags' \in Seq(Fragment) /\ Len(frags') = n + 1 /\ frags' # <<>>
          /\ \A i \in 1..n : frags'[i] = full[i]
          /\ frags'[n + 1] = NewHeader(seq)
      <3>1. /\ h \in Seq(Fragment) /\ Len(h) = Len(full) + 1 /\ h # <<>>
            /\ \A i \in 1..Len(full) : h[i] = full[i]
            /\ h[Len(full) + 1] = NewHeader(seq)
        <4>1. full \in Seq(Fragment) /\ seq \in 0..(SeqCount - 1) /\ h = Append(full, NewHeader(seq))
          BY <1>4, <2>2
        <4> HIDE DEF h
        <4>2. QED
          BY <4>1, AppendHeader
      <3>2. QED
        BY <1>4, <2>1, <3>1
    <2>4. frags'[n + 1].seq = seq /\ frags'[n + 1].data = <<>> /\ Len(<<>>) = 0
      BY <2>2, <2>3, OneHeader, EmptySeq
    <2>5. TypeOK'
      <3>1. 0 \in 0..MaxLen /\ len + 4 \in Nat
        BY <1>0, BuilderAssumption DEF TypeOK
      <3>2. QED
        BY <1>0, <1>2, <2>1, <2>2, <2>3, <3>1 DEF TypeOK, PCs
    <2>6. Shape'
      <3>1. packet_length' = Offset(n + 1) + fragment_length'
        <4>1. packet_length = Offset(n) + MaxLen /\ packet_length \in Nat
          BY <1>0 DEF Shape, TypeOK
        <4>2. Offset(n + 1) = Offset(n) + MaxLen
          BY <1>4, OffsetFacts
        <4>3. QED
          BY <1>0, <2>1, <4>1, <4>2
      <3>2. alloc' \/ cap' = 0
        BY <1>0, <1>2, <2>1 DEF Shape
      <3>3. QED
        BY <1>0, <2>1, <2>3, <3>1, <3>2 DEF Shape, Busy, HasPacket, Offset
    <2>7. InBounds'
      <3>1. len \in Nat /\ len <= cap /\ (len > 0 => alloc) /\ len = 4 * n + packet_length /\ cap \in Nat
            /\ packet_length \in Nat
        BY <1>0 DEF InBounds, TypeOK
      <3>2. len > 0
        BY <1>4, <3>1
      <3>3. len' <= cap' /\ alloc' /\ len' = 4 * (n + 1) + packet_length'
        BY <1>0, <1>2, <1>4, <1>8, <2>1, <3>1, <3>2
      <3>4. QED
        BY <2>3, <3>3 DEF InBounds
    <2>8. FragmentsCut'
      <3>1. \A i \in 1..((n + 1) - 1) : i \in 1..n
        BY <1>4
      <3>2. QED
        BY <1>5, <2>1, <2>3, <2>4, <3>1, BuilderAssumption DEF FragmentsCut
    <2>9. Numbered'
      <3>1. \A i \in 1..((n + 1) - 1) : frags'[i + 1].seq = NextSeq(frags'[i].seq)
        <4>1. ASSUME NEW i \in 1..n PROVE frags'[i + 1].seq = NextSeq(frags'[i].seq)
          <5>1. CASE i = n
            BY <5>1, <1>4, <1>6, <2>3, <2>4
          <5>2. CASE i # n
            <6>1. i \in 1..(n - 1) /\ i + 1 \in 1..n
              BY <5>2, <1>4
            <6>2. QED
              BY <6>1, <1>6, <2>3
          <5>3. QED
            BY <5>1, <5>2
        <4>2. QED
          BY <4>1, <1>4
      <3>2. frags'[1].seq = first
        BY <1>4, <1>6, <2>3
      <3>3. seq' = NextSeq(frags'[n + 1].seq)
        BY <2>1, <2>4
      <3>4. QED
        BY <1>0, <2>3, <3>1, <3>2, <3>3 DEF Numbered, HasPacket, NextSeq
    <2>10. PayloadIntact'
      <3>1. ASSUME NEW i \in 1..(n + 1), NEW j \in 1..Len(frags'[i].data)
            PROVE  frags'[i].data[j] = written[Offset(i) + j]
        <4>1. CASE i = n + 1
          BY <4>1, <2>4
        <4>2. CASE i # n + 1
          <5>1. i \in 1..n
            BY <4>2, <1>4
          <5>2. QED
            BY <5>1, <1>5, <2>3
        <4>3. QED
          BY <4>1, <4>2
      <3>2. Len(written) = packet_length
        BY <1>0 DEF PayloadIntact
      <3>3. QED
        BY <1>0, <2>3, <3>1, <3>2 DEF PayloadIntact, Offset
    <2>11. UnderLimit'
      BY <1>0 DEF UnderLimit
    <2>12. QED
      BY <2>5, <2>6, <2>7, <2>8, <2>9, <2>10, <2>11 DEF IInv
  <1>9. QED
    BY <1>7, <1>8

\* The two operations of the buffer itself run without a packet.
LEMMA BufferKeeps ==
  ASSUME IInv, BufferInit \/ BufferFree
  PROVE  IInv'
  <1>1. /\ frags' = <<>> /\ <<>> \in Seq(Fragment) /\ pc' \in {"uninit", "closed"}
        /\ UNCHANGED <<builderVars, todo, first, written>>
    BY EmptySeq DEF IInv, Shape, BufferInit, BufferFree
  <1>2. /\ len' = 0 /\ cap' \in 0..SizeMax /\ alloc' \in BOOLEAN /\ rc' \in Failures \cup {"OK"}
        /\ pc' = "uninit" \/ alloc' \/ cap' = 0
    <2>1. CASE BufferInit
      <3>1. DefaultCap \in 0..SizeMax
        BY BuilderAssumption
      <3>2. QED
        BY <2>1, <3>1 DEF BufferInit, Failures
    <2>2. CASE BufferFree
      <3>1. 0 \in 0..SizeMax
        BY BuilderAssumption
      <3>2. QED
        BY <2>2, <3>1 DEF IInv, TypeOK, BufferFree
    <2>3. QED
      BY <2>1, <2>2
  <1>3. TypeOK'
    BY <1>1, <1>2 DEF IInv, TypeOK, builderVars, PCs
  <1>4. QED
    BY <1>1, <1>2, <1>3
    DEF IInv, Shape, Busy, HasPacket, InBounds, FragmentsCut, Numbered, PayloadIntact, UnderLimit

-----------------------------------------------------------------------------
\* The specification.

\* The strengthening is inductive: it holds of a fresh builder and every call
\* of builder.c and buffer.c keeps it.
THEOREM BuilderInvariant == Spec => []IInv
  <1>1. Init => IInv
    <2>1. SUFFICES ASSUME Init PROVE IInv
      OBVIOUS
    <2>2. <<>> \in Seq(Byte) /\ <<>> \in Seq(Fragment)
      BY EmptySeq
    <2>3. 0 \in 0..MaxLen /\ 0 \in 0..(SeqCount - 1) /\ SizeMax \in 1..SizeMax /\ 0 \in 0..SizeMax
      BY BuilderAssumption
    <2>4. TypeOK
      BY <2>1, <2>2, <2>3 DEF Init, TypeOK, PCs
    <2>5. QED
      BY <2>1, <2>4, BuilderAssumption
      DEF Init, IInv, Shape, Busy, HasPacket, InBounds, FragmentsCut, Numbered, PayloadIntact, UnderLimit
  <1>2. IInv /\ [Next]_vars => IInv'
    <2>1. SUFFICES ASSUME IInv, [Next]_vars PROVE IInv'
      OBVIOUS
    <2>2. CASE BufferInit \/ BufferFree
      BY <2>1, <2>2, BufferKeeps
    <2>3. ASSUME NEW s \in Seqs, NEW limit \in Limits, BeginPacket(s, limit) PROVE IInv'
      BY <2>1, <2>3, BeginPacketKeeps
    <2>4. ASSUME NEW b \in Byte, WriteUint8(b) PROVE IInv'
      BY <2>1, <2>4, WriteUint8Keeps
    <2>5. ASSUME NEW d \in Inputs, WriteBuffer(d) PROVE IInv'
      BY <2>1, <2>5, WriteBufferKeeps
    <2>6. CASE CopyChunk
      BY <2>1, <2>6, CopyChunkKeeps
    <2>7. CASE ContinuationHeader
      BY <2>1, <2>7, ContinuationHeaderKeeps
    <2>8. CASE Finalize
      BY <2>1, <2>8, FinalizeKeeps
    <2>9. CASE UNCHANGED vars
      BY <2>1, <2>9
      DEF vars, bufVars, builderVars, IInv, TypeOK, Shape, InBounds, FragmentsCut, Numbered,
          PayloadIntact, UnderLimit, HasPacket, NextSeq, Offset
    <2>10. QED
      BY <2>1, <2>2, <2>3, <2>4, <2>5, <2>6, <2>7, <2>8, <2>9 DEF Next
  <1>3. QED
    BY <1>1, <1>2, PTL DEF Spec

\* Type correctness.
THEOREM BuilderTypes == Spec => []TypeOK
  <1>1. IInv => TypeOK
    BY DEF IInv
  <1>2. QED
    BY <1>1, BuilderInvariant, PTL

\* builder.c never writes outside the allocated buffer.
THEOREM BuilderStaysInBounds == Spec => []InBounds
  <1>1. IInv => InBounds
    BY DEF IInv
  <1>2. QED
    BY <1>1, BuilderInvariant, PTL

\* Fragments are cut at exactly TRILOGY_MAX_PACKET_LEN, by write_uint8 and by
\* write_buffer alike.
THEOREM BuilderCuts == Spec => []FragmentsCut
  <1>1. IInv => FragmentsCut
    BY DEF IInv
  <1>2. QED
    BY <1>1, BuilderInvariant, PTL

\* Fragments are numbered consecutively, whatever the width of the counter.
THEOREM BuilderNumbers == Spec => []Numbered
  <1>1. IInv => Numbered
    BY DEF IInv
  <1>2. QED
    BY <1>1, BuilderInvariant, PTL

\* The payload survives its cutting into fragments of any size.
THEOREM BuilderKeepsPayload == Spec => []PayloadIntact
  <1>1. IInv => PayloadIntact
    BY DEF IInv
  <1>2. QED
    BY <1>1, BuilderInvariant, PTL

\* A packet stays below max_allowed_packet.
THEOREM BuilderObeysLimit == Spec => []UnderLimit
  <1>1. IInv => UnderLimit
    BY DEF IInv
  <1>2. QED
    BY <1>1, BuilderInvariant, PTL

\* A finalized packet's headers describe its data, and exactly the last
\* fragment is shorter than the maximum: a reader finds the packet's end.
THEOREM BuilderReadsBack == Spec => []SealedReadsBack
  <1>1. IInv => SealedReadsBack
    <2>1. SUFFICES ASSUME IInv, pc = "sealed", NEW i \in 1..Len(frags)
                   PROVE  /\ frags[i].len = Len(frags[i].data)
                          /\ (frags[i].len = MaxLen) <=> (i < Len(frags))
      BY DEF SealedReadsBack
    <2>2. HasPacket /\ FragmentsCut /\ frags[Len(frags)].len = fragment_length /\ TypeOK
      BY <2>1 DEF IInv, Shape, Busy
    <2>3. Len(frags) \in Nat /\ fragment_length \in Nat /\ fragment_length < MaxLen
      BY <2>1, <2>2, BuilderAssumption, LenProperties DEF TypeOK, FragmentsCut
    <2>4. CASE i = Len(frags)
      BY <2>2, <2>3, <2>4, BuilderAssumption DEF FragmentsCut
    <2>5. CASE i # Len(frags)
      <3>1. i \in 1..(Len(frags) - 1) /\ i < Len(frags)
        BY <2>3, <2>5
      <3>2. QED
        BY <2>2, <3>1 DEF FragmentsCut
    <2>6. QED
      BY <2>4, <2>5
  <1>2. QED
    BY <1>1, BuilderInvariant, PTL
=============================================================================
