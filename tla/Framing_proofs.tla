--------------------------- MODULE Framing_proofs ---------------------------
(***************************************************************************)
(* Proofs about Framing: the two ends together are a channel of whole      *)
(* packets.  They rest on the proofs about each end.  The builder's        *)
(* invariant says that a finalized buffer holds what the parser's module   *)
(* calls the packet's bytes; and to the parser, bytes that are still in    *)
(* the sender's buffer are bytes on the way, so its invariant holds with   *)
(* these behind the stream, and finalizing a packet is writing it.         *)
(***************************************************************************)
EXTENDS Framing, PacketParser_proofs

Commands == {<<Command>> \o d : d \in Payloads}

\* What flush_writes has still to write of a finalized packet, and what the reader
\* has still to expect.
Unwritten == IF bpc = "sealed" THEN SubSeq(Wire, packet_buffer_written + 1, Len(Wire)) ELSE <<>>
Coming == stream \o Unwritten

\* The two ends, and what is proved about them.
BP == INSTANCE Builder_proofs WITH
        pc <- bpc, rc <- brc, Byte <- 0..(Radix - 1), Inputs <- Payloads,
        Seqs <- 0..(SeqCount - 1), Limits <- {0}
R == INSTANCE PacketParser_proofs WITH stream <- Coming, Packets <- Commands

-----------------------------------------------------------------------------
(* Constants.                                                                *)

\* Bytes are numbers.
LEMMA BytesAreNumbers ==
  /\ 0..(Radix - 1) \subseteq Nat
  /\ \A x \in Seq(0..(Radix - 1)) : x \in Seq(Nat)
<1>1. 0..(Radix - 1) \subseteq Nat
  BY ParserAssumption
<1>2. QED BY <1>1, SeqMonotonic

\* Both ends have what they assume.
LEMMA BuilderFits == BP!BuilderAssumption
<1>1. MaxLen \in Nat \ {0}
  BY MaxLenType
<1>2. SeqCount \in Nat \ {0} /\ 0 \in 0..SizeMax
  BY ParserAssumption, FramingAssumption
<1>3. QED BY <1>1, <1>2, FramingAssumption DEF BP!BuilderAssumption

LEMMA CommandsType == Commands \subseteq Seq(0..(Radix - 1)) /\ Commands \subseteq Seq(Nat)
<1>1. ASSUME NEW d \in Payloads PROVE <<Command>> \o d \in Seq(0..(Radix - 1))
  <2>1. d \in Seq(0..(Radix - 1)) /\ <<Command>> \in Seq(0..(Radix - 1))
    BY FramingAssumption
  <2>2. QED BY <2>1
<1>2. QED BY <1>1, BytesAreNumbers DEF Commands

LEMMA ParserFits == R!ParserAssumption
  BY ParserAssumption, CommandsType DEF R!ParserAssumption, R!FaultKinds, FaultKinds

-----------------------------------------------------------------------------
(* A finalized buffer.                                                       *)

\* Fragments f hold the packet w: each says its length, all but the last are full,
\* they are numbered from s on, and q is the number behind them.
Sealed(f, w, s, q) ==
  /\ f \in Seq(BP!Fragment) /\ f # <<>> /\ w \in Seq(Nat) /\ s \in Numbers
  /\ \A i \in 1..Len(f) : f[i].len = Len(f[i].data)
  /\ \A i \in 1..(Len(f) - 1) : Len(f[i].data) = MaxLen /\ f[i + 1].seq = NextSeq(f[i].seq)
  /\ Len(f[Len(f)].data) < MaxLen
  /\ f[1].seq = s /\ q = NextSeq(f[Len(f)].seq)
  /\ Len(w) = CutStart(Len(f)) + Len(f[Len(f)].data)
  /\ \A i \in 1..Len(f) : \A j \in 1..Len(f[i].data) : f[i].data[j] = w[CutStart(i) + j]

\* The numbers of the fragments.
LEMMA Counted ==
  ASSUME NEW f, NEW w, NEW s, NEW q, Sealed(f, w, s, q)
  PROVE  (\A i \in 1..Len(f) : f[i].seq = Number(s, i)) /\ q = Number(s, Len(f) + 1)
<1> DEFINE n == Len(f)
           P == {m \in Nat : m + 1 \in 1..n => f[m + 1].seq = Number(s, m + 1)}
<1>1. n \in Nat \ {0} /\ s \in 0..(SeqCount - 1)
  BY EmptySeq DEF Sealed, Numbers
<1>2. 0 \in P
  <2>1. f[1].seq = s /\ Number(s, 1) = s
    BY <1>1, NumberFacts DEF Sealed
  <2>2. QED BY <2>1
<1>3. ASSUME NEW m \in Nat, m \in P PROVE m + 1 \in P
  <2> SUFFICES ASSUME (m + 1) + 1 \in 1..n PROVE f[(m + 1) + 1].seq = Number(s, (m + 1) + 1)
    OBVIOUS
  <2>1. m + 1 \in 1..(n - 1) /\ m + 1 \in 1..n /\ m + 1 \in Nat \ {0}
    BY <1>1
  <2>2. f[(m + 1) + 1].seq = NextSeq(f[m + 1].seq) /\ f[m + 1].seq = Number(s, m + 1)
    BY <1>3, <2>1 DEF Sealed
  <2>3. Number(s, (m + 1) + 1) = NextSeq(Number(s, m + 1))
    BY <1>1, <2>1, NumberFacts
  <2>4. QED BY <2>2, <2>3
<1>4. Nat \subseteq P
  <2> HIDE DEF P
  <2>1. QED BY <1>2, <1>3, SetInduction
<1>5. ASSUME NEW i \in 1..n PROVE f[i].seq = Number(s, i)
  <2>1. i - 1 \in Nat /\ (i - 1) + 1 = i
    BY <1>1
  <2>2. QED BY <1>4, <2>1
<1>6. q = Number(s, n + 1)
  <2>1. n \in 1..n /\ Number(s, n + 1) = NextSeq(Number(s, n))
    BY <1>1, NumberFacts
  <2>2. QED BY <1>5, <2>1 DEF Sealed
<1>7. QED BY <1>5, <1>6

\* So many fragments, and each of them, are those the packet is cut into.
LEMMA CutAlike ==
  ASSUME NEW f, NEW w, NEW s, NEW q, Sealed(f, w, s, q)
  PROVE  /\ Len(f) = NumFragments(w)
         /\ \A i \in 1..Len(f) : f[i].data = Cut(w, i) /\ f[i].len = Len(Cut(w, i))
<1>1. PICK n \in Nat \ {0} : n = Len(f)
  BY EmptySeq DEF Sealed
<1>2. ASSUME NEW i \in 1..n PROVE f[i].data \in Seq(Nat)
  <2>1. f[i] \in BP!Fragment
    BY <1>1, <1>2 DEF Sealed
  <2>2. QED BY <2>1, BytesAreNumbers DEF BP!Fragment
<1>3. PICK r \in Nat : r = Len(f[n].data)
  BY <1>1, <1>2
<1>4. PICK h \in Nat : n = h + 1
  <2>1. n - 1 \in Nat /\ n = (n - 1) + 1
    OBVIOUS
  <2>2. QED BY <2>1
<1>5. r < MaxLen /\ Len(w) = h * MaxLen + r /\ w \in Seq(Nat)
  <2>1. n - 1 = h
    BY <1>4
  <2>2. QED BY <1>1, <1>3, <2>1 DEF Sealed, CutStart
<1>6. NumFragments(w) = n
  <2>1. MaxLen \in Nat /\ MaxLen > 0 /\ Len(w) \in Nat
    BY <1>5, MaxLenType
  <2>2. Len(w) \div MaxLen = h
    BY <1>5, <2>1, Division
  <2>3. QED BY <1>4, <2>2 DEF NumFragments
<1>7. ASSUME NEW i \in 1..n PROVE f[i].data = Cut(w, i)
  <2>1. /\ Cut(w, i) \in Seq(Nat) /\ Len(Cut(w, i)) = FragLen(w, i)
        /\ \A j \in 1..FragLen(w, i) : Cut(w, i)[j] = w[CutStart(i) + j]
    BY <1>5, <1>6, FragmentFacts
  <2>2. Len(f[i].data) = FragLen(w, i)
    <3>1. CASE i = n
      <4>1. FragLen(w, n) \in Nat /\ CutStart(n) \in Nat /\ CutStart(n) + FragLen(w, n) = Len(w)
        <5>1. n \in 1..NumFragments(w)
          BY <1>6
        <5>2. FragLen(w, n) \in 0..MaxLen /\ CutStart(n) \in Nat /\ CutStart(n) + FragLen(w, n) = Len(w)
          BY <1>5, <1>6, <5>1, FragmentFacts
        <5>3. QED BY <5>2, MaxLenType
      <4>2. Len(w) = CutStart(n) + r
        BY <1>1, <1>3 DEF Sealed
      <4>3. FragLen(w, n) = r
        BY <4>1, <4>2
      <4>4. QED BY <1>3, <3>1, <4>3
    <3>2. CASE i # n
      <4>1. i \in 1..(n - 1) /\ i < NumFragments(w) /\ i \in 1..NumFragments(w)
        BY <1>6, <3>2
      <4>2. FragLen(w, i) = MaxLen
        BY <1>5, <4>1, FragmentFacts
      <4>3. Len(f[i].data) = MaxLen
        BY <1>1, <4>1 DEF Sealed
      <4>4. QED BY <4>2, <4>3
    <3>3. QED BY <3>1, <3>2
  <2>3. \A j \in 1..Len(f[i].data) : f[i].data[j] = w[CutStart(i) + j]
    BY <1>1 DEF Sealed
  <2>4. PICK x \in Seq(Nat), y \in Seq(Nat) : x = f[i].data /\ y = Cut(w, i)
    BY <1>2, <2>1
  <2>5. Len(x) = Len(y) /\ \A j \in 1..Len(x) : x[j] = y[j]
    BY <2>1, <2>2, <2>3, <2>4
  <2>6. x = y
    BY <2>5, SeqEqual
  <2>7. QED BY <2>4, <2>6
<1>8. \A i \in 1..Len(f) : f[i].len = Len(f[i].data)
  BY DEF Sealed
<1>9. QED BY <1>1, <1>6, <1>7, <1>8

\* The contents of packet_buffer when it holds the fragments f.
Bytes(f) == FlattenSeq([i \in 1..Len(f) |-> FragmentBytes(f[i].len, f[i].seq, f[i].data)])

\* A finalized buffer holds the packet's bytes, and the next number is the one
\* behind its last fragment.
LEMMA SealedBytes ==
  ASSUME NEW f, NEW w, NEW s, NEW q, Sealed(f, w, s, q)
  PROVE  Bytes(f) = PacketBytes(w, s) /\ q = (s + NumFragments(w)) % SeqCount
<1> DEFINE F == [i \in 1..Len(f) |-> FragmentBytes(f[i].len, f[i].seq, f[i].data)]
           G == [i \in 1..NumFragments(w) |-> FragmentBytes(Len(Cut(w, i)), Number(s, i), Cut(w, i))]
<1>1. F = G
  BY CutAlike, Counted
<1>2. PacketBytes(w, s) = FlattenSeq(G)
  BY DEF PacketBytes, Cut, Number
<1>3. q = Number(s, NumFragments(w) + 1)
  BY CutAlike, Counted
<1>4. s + (NumFragments(w) + 1) - 1 = s + NumFragments(w)
  <2>1. NumFragments(w) \in Nat /\ s \in Nat
    BY FragmentFacts, ParserAssumption DEF Sealed, Numbers
  <2>2. QED BY <2>1
<1>5. q = (s + NumFragments(w)) % SeqCount
  BY <1>3, <1>4 DEF Number
<1>6. Bytes(f) = FlattenSeq(F)
  BY DEF Bytes
<1> HIDE DEF F, G
<1>7. QED BY <1>1, <1>2, <1>5, <1>6

-----------------------------------------------------------------------------
(* The invariant.                                                            *)

\* The packet in the buffer is one of the commands, or becomes one; it is numbered
\* from where the last one ended; and no more of it is written than there is.
Outgoing ==
  /\ bpc = "sealed" => Wire \in Seq(Nat) /\ packet_buffer_written \in 0..Len(Wire)
  /\ bpc \in {"open", "copy", "seam"} =>
       /\ first = peer_seq
       /\ (bpc = "open" /\ written = <<>>) \/ written \o todo \in Commands

\* Both ends' invariants, and what is between them. Only a packet that is not
\* delivered yet can be lost to an allocation that fails.
FramingInv ==
  /\ BP!IInv /\ R!IInv /\ Outgoing
  /\ stream \in Seq(Nat) /\ ~eof /\ ~broken
  /\ rc = "SYSERR" => Len(got) < Len(sent)

-----------------------------------------------------------------------------
(* The sender's steps.                                                       *)

\* The elements of w behind the first m, up to the k-th.
Slice(w, m, k) == SubSeq(w, m + 1, k)

IsSlice(x, S, w, m, n) == x \in Seq(S) /\ Len(x) = n /\ \A j \in 1..n : x[j] = w[m + j]

LEMMA SliceFacts ==
  ASSUME NEW S, NEW w \in Seq(S), NEW m \in Nat, NEW n \in Nat, NEW k \in Nat, k = m + n, k <= Len(w)
  PROVE  IsSlice(Slice(w, m, k), S, w, m, n)
<1>1. m + 1 \in Nat /\ k - (m + 1) + 1 = n
  OBVIOUS
<1>2. SubSeq(w, m + 1, k) \in Seq(S) /\ Len(SubSeq(w, m + 1, k)) = n
  BY <1>1
<1>3. ASSUME NEW j \in 1..n PROVE SubSeq(w, m + 1, k)[j] = w[m + j]
  OBVIOUS
<1>4. QED BY <1>2, <1>3 DEF Slice, IsSlice

\* They are its next ones and the rest.
Glued(S, a, w, m, k) ==
  /\ a \o Slice(w, m, k) \in Seq(S)
  /\ (a \o Slice(w, m, k)) \o Slice(w, k, Len(w)) = a \o Slice(w, m, Len(w))

LEMMA Glue ==
  ASSUME NEW S, NEW a \in Seq(S), NEW w \in Seq(S), NEW m \in Nat, NEW k \in Nat, m <= k, k <= Len(w)
  PROVE  Glued(S, a, w, m, k)
<1>1. PICK l \in Nat : l = Len(w) /\ k <= l
  OBVIOUS
<1>2. PICK n \in Nat, r \in Nat : k = m + n /\ l = k + r
  <2>1. k - m \in Nat /\ l - k \in Nat /\ k = m + (k - m) /\ l = k + (l - k)
    BY <1>1
  <2>2. QED BY <2>1
<1>3. l <= Len(w)
  BY <1>1
<1>4. PICK x, y, z : x = Slice(w, m, k) /\ y = Slice(w, k, l) /\ z = Slice(w, m, l)
  OBVIOUS
<1>5. x \in Seq(S) /\ Len(x) = n /\ \A j \in 1..n : x[j] = w[m + j]
  <2>1. IsSlice(Slice(w, m, k), S, w, m, n)
    BY <1>1, <1>2, SliceFacts
  <2>2. QED BY <1>4, <2>1 DEF IsSlice
<1>6. y \in Seq(S) /\ Len(y) = r /\ \A j \in 1..r : y[j] = w[k + j]
  <2>1. IsSlice(Slice(w, k, l), S, w, k, r)
    BY <1>2, <1>3, SliceFacts
  <2>2. QED BY <1>4, <2>1 DEF IsSlice
<1>7. z \in Seq(S) /\ Len(z) = n + r /\ \A j \in 1..(n + r) : z[j] = w[m + j]
  <2>1. PICK h \in Nat : h = n + r /\ l = m + h
    BY <1>2
  <2>2. IsSlice(Slice(w, m, l), S, w, m, h)
    BY <1>3, <2>1, SliceFacts
  <2>3. QED BY <1>4, <2>1, <2>2 DEF IsSlice
<1>8. x \o y = z
  <2>1. x \o y \in Seq(S) /\ Joined(x \o y, x, y, n)
    BY <1>5, <1>6, Concat
  <2>2. PICK u \in Seq(S) : u = x \o y
    BY <2>1
  <2>3. Len(u) = n + r /\ (\A j \in 1..n : u[j] = x[j]) /\ (\A j \in 1..r : u[n + j] = y[j])
    BY <1>6, <2>1, <2>2 DEF Joined
  <2>4. ASSUME NEW j \in 1..(n + r) PROVE u[j] = z[j]
    <3>1. CASE j <= n
      <4>1. j \in 1..n
        BY <3>1
      <4>2. QED BY <1>5, <1>7, <2>3, <4>1
    <3>2. CASE ~(j <= n)
      <4>1. j - n \in 1..r /\ j = n + (j - n)
        BY <3>2
      <4>2. PICK i \in 1..r : j = n + i
        BY <4>1
      <4>3. k + i = m + j
        BY <1>2, <4>2
      <4>4. u[j] = y[i] /\ y[i] = w[k + i]
        BY <1>6, <2>3, <4>2
      <4>5. QED BY <1>7, <4>3, <4>4
    <3>3. QED BY <3>1, <3>2
  <2>5. Len(u) = Len(z)
    BY <1>7, <2>3
  <2>6. u = z
    BY <1>7, <2>3, <2>4, <2>5, SeqEqual
  <2>7. QED BY <2>2, <2>6
<1>9. a \o x \in Seq(S)
  BY <1>5
<1>10. (a \o x) \o y = a \o (x \o y)
  BY <1>5, <1>6, ConcatAssociative
<1>11. QED BY <1>1, <1>4, <1>8, <1>9, <1>10 DEF Glued

\* BeginPacket takes the running number.
LEMMA BeginKeepsOutgoing ==
  ASSUME FramingInv, B!BeginPacket(peer_seq, 0), UNCHANGED peer_seq
  PROVE  Outgoing' /\ bpc' \in {"open", "failed"}
<1>1. first' = peer_seq /\ written' = <<>> /\ bpc' \in {"open", "failed"}
  BY DEF B!BeginPacket, B!Fail
<1>2. QED BY <1>1 DEF Outgoing

\* The command byte.
LEMMA CommandKeepsOutgoing ==
  ASSUME FramingInv, written = <<>>, B!WriteUint8(Command), UNCHANGED peer_seq
  PROVE  Outgoing' /\ bpc' \in {"open", "seam", "failed"}
<1>1. bpc = "open" /\ todo = <<>> /\ todo' = <<>> /\ first = peer_seq
  BY DEF FramingInv, Outgoing, BP!IInv, BP!Shape, B!WriteUint8
<1>2. CASE packet_length >= packet_max_length - 1
  <2>1. bpc' = "failed"
    BY <1>2 DEF B!WriteUint8, B!Fail
  <2>2. QED BY <2>1 DEF Outgoing
<1>3. CASE ~(packet_length >= packet_max_length - 1)
  <2>1. PICK e \in B!Expand(len, 1) : B!AppendData(<<Command>>, e)
    BY <1>3 DEF B!WriteUint8
  <2>2. CASE e.rc # "OK"
    <3>1. bpc' = "failed"
      BY <2>1, <2>2 DEF B!AppendData, B!Fail
    <3>2. QED BY <3>1 DEF Outgoing
  <2>3. CASE e.rc = "OK"
    <3>1. bpc' \in {"open", "seam"} /\ written' = written \o <<Command>> /\ first' = first
      BY <2>1, <2>3 DEF B!AppendData
    <3>2. written' = <<Command>>
      BY <3>1
    <3>3. written' \o todo' = <<Command>> \o <<>>
      BY <1>1, <3>2
    <3>4. written' \o todo' \in Commands
      BY <3>3, FramingAssumption DEF Commands
    <3>5. QED BY <1>1, <3>1, <3>4 DEF Outgoing
  <2>4. QED BY <2>2, <2>3
<1>4. QED BY <1>2, <1>3

\* The payload is asked for once.
LEMMA PayloadKeepsOutgoing ==
  ASSUME FramingInv, Len(written) = 1, NEW d \in Payloads, B!WriteBuffer(d), UNCHANGED peer_seq
  PROVE  Outgoing' /\ bpc' \in {"copy", "failed"}
<1>1. bpc = "open" /\ todo = <<>> /\ first = peer_seq /\ first' = first /\ written' = written
  BY DEF FramingInv, Outgoing, BP!IInv, BP!Shape, B!WriteBuffer
<1>2. bpc' = "failed" \/ (bpc' = "copy" /\ todo' = d)
  BY DEF B!WriteBuffer, B!Fail
<1>3. written \in Seq(0..(Radix - 1))
  BY DEF FramingInv, BP!IInv, BP!TypeOK
<1>4. written # <<>>
  BY EmptySeq
<1>5. written \in Commands
  <2>1. written \o todo \in Commands
    BY <1>1, <1>4 DEF FramingInv, Outgoing
  <2>2. written \o <<>> = written
    BY <1>3
  <2>3. QED BY <1>1, <2>1, <2>2
<1>6. written = <<Command>>
  <2>1. PICK c \in Payloads : written = <<Command>> \o c
    BY <1>5 DEF Commands
  <2>2. c \in Seq(0..(Radix - 1)) /\ <<Command>> \in Seq(0..(Radix - 1))
    BY FramingAssumption
  <2>3. Len(c) \in Nat /\ Len(written) = 1 + Len(c)
    BY <2>1, <2>2
  <2>4. Len(c) = 0
    BY <2>3
  <2>5. c = <<>>
    BY <2>2, <2>4, EmptySeq
  <2>6. QED BY <2>1, <2>2, <2>5
<1>7. bpc' = "copy" => written' \o todo' \in Commands
  BY <1>1, <1>2, <1>6 DEF Commands
<1>8. QED BY <1>1, <1>2, <1>7 DEF Outgoing

\* A copy moves bytes from what is to be written to what is.
LEMMA CopyKeepsOutgoing ==
  ASSUME FramingInv, B!CopyChunk, UNCHANGED peer_seq
  PROVE  Outgoing' /\ bpc' \in {"open", "seam", "failed"}
<1>1. bpc = "copy" /\ first = peer_seq /\ written \o todo \in Commands
  BY DEF FramingInv, Outgoing, B!CopyChunk
<1>2. todo \in Seq(0..(Radix - 1)) /\ written \in Seq(0..(Radix - 1)) /\ fragment_length \in 0..MaxLen
  BY DEF FramingInv, BP!IInv, BP!TypeOK
<1> DEFINE room == MaxLen - fragment_length
           n == IF Len(todo) >= room THEN room ELSE Len(todo)
<1>3. n \in Nat /\ n <= Len(todo) /\ Len(todo) \in Nat
  BY <1>2, MaxLenType
<1>4. PICK e \in B!Expand(len, n) : B!AppendData(SubSeq(todo, 1, n), e)
  BY DEF B!CopyChunk
<1>5. todo' = SubSeq(todo, n + 1, Len(todo))
  BY DEF B!CopyChunk
<1> HIDE DEF n
<1>6. CASE e.rc # "OK"
  <2>1. bpc' = "failed"
    BY <1>4, <1>6 DEF B!AppendData, B!Fail
  <2>2. QED BY <2>1 DEF Outgoing
<1>7. CASE e.rc = "OK"
  <2>1. bpc' \in {"open", "seam"} /\ written' = written \o SubSeq(todo, 1, n) /\ first' = first
    BY <1>4, <1>7 DEF B!AppendData
  <2>2. PICK w \in Seq(0..(Radix - 1)), x \in Seq(0..(Radix - 1)) : w = written /\ x = todo
    BY <1>2
  <2>3. (w \o Slice(x, 0, n)) \o Slice(x, n, Len(x)) = w \o Slice(x, 0, Len(x))
    <3>1. 0 <= n /\ n <= Len(x) /\ 0 \in Nat
      BY <1>3, <2>2
    <3>2. Glued(0..(Radix - 1), w, x, 0, n)
      BY <1>3, <3>1, Glue
    <3>3. QED BY <3>2 DEF Glued
  <2>4. Slice(x, 0, n) = SubSeq(x, 1, n) /\ Slice(x, n, Len(x)) = SubSeq(x, n + 1, Len(x)) /\ Slice(x, 0, Len(x)) = x
    BY <1>3 DEF Slice
  <2>5. written' \o todo' = written \o todo
    BY <1>5, <2>1, <2>2, <2>3, <2>4
  <2>6. QED BY <1>1, <2>1, <2>5 DEF Outgoing
<1>8. QED BY <1>6, <1>7

\* A continuation header adds no payload.
LEMMA ContinuationKeepsOutgoing ==
  ASSUME FramingInv, B!ContinuationHeader, UNCHANGED peer_seq
  PROVE  Outgoing' /\ bpc' \in {"open", "copy", "failed"}
<1>1. bpc = "seam" /\ first = peer_seq /\ written \o todo \in Commands
  BY DEF FramingInv, Outgoing, B!ContinuationHeader
<1>2. bpc' \in {"open", "copy", "failed"} /\ first' = first /\ written' = written /\ todo' = todo
  BY DEF B!ContinuationHeader, B!Fail
<1>3. QED BY <1>1, <1>2 DEF Outgoing

\* The builder's operators as its proofs name them.
LEMMA SameOperators ==
  /\ \A l, n : B!Expand(l, n) = BP!Expand(l, n)
  /\ \A d, e : B!AppendData(d, e) <=> BP!AppendData(d, e)
  /\ \A x : B!NextSeq(x) = BP!NextSeq(x) /\ B!NewHeader(x) = BP!NewHeader(x)
<1>1. \A l, n : B!Expand(l, n) = BP!Expand(l, n)
  BY DEF B!Expand, BP!Expand, B!Doublings, BP!Doublings
<1>2. \A d, e : B!AppendData(d, e) <=> BP!AppendData(d, e)
  BY DEF B!AppendData, BP!AppendData, B!Fail, BP!Fail, B!Extended, BP!Extended, B!IsFull, BP!IsFull
<1>3. \A x : B!NextSeq(x) = BP!NextSeq(x) /\ B!NewHeader(x) = BP!NewHeader(x)
  BY DEF B!NextSeq, BP!NextSeq, B!NewHeader, BP!NewHeader
<1>4. QED BY <1>1, <1>2, <1>3

\* What the sender does to its buffer are the builder's steps.
SenderStep ==
  \/ B!BeginPacket(peer_seq, 0)
  \/ B!WriteUint8(Command)
  \/ \E d \in Payloads : B!WriteBuffer(d)
  \/ B!CopyChunk
  \/ B!ContinuationHeader
  \/ B!Finalize

LEMMA BuilderKeeps ==
  ASSUME BP!IInv, SenderStep, peer_seq \in 0..(SeqCount - 1)
  PROVE  BP!IInv'
<1>1. CASE B!BeginPacket(peer_seq, 0)
  <2>1. BP!BeginPacket(peer_seq, 0)
    BY <1>1, SameOperators DEF B!BeginPacket, BP!BeginPacket, B!Fail, BP!Fail
  <2>2. QED BY <2>1, BuilderFits, BP!BeginPacketKeeps
<1>2. CASE B!WriteUint8(Command)
  <2>1. BP!WriteUint8(Command)
    BY <1>2, SameOperators DEF B!WriteUint8, BP!WriteUint8, B!Fail, BP!Fail, B!bufVars, BP!bufVars, B!builderVars, BP!builderVars
  <2>2. QED BY <2>1, BuilderFits, FramingAssumption, BP!WriteUint8Keeps
<1>3. ASSUME NEW d \in Payloads, B!WriteBuffer(d) PROVE BP!IInv'
  <2>1. BP!WriteBuffer(d)
    BY <1>3 DEF B!WriteBuffer, BP!WriteBuffer, B!Fail, BP!Fail, B!bufVars, BP!bufVars, B!builderVars, BP!builderVars
  <2>2. QED BY <2>1, BuilderFits, BP!WriteBufferKeeps
<1>4. CASE B!CopyChunk
  <2>1. BP!CopyChunk
    BY <1>4, SameOperators DEF B!CopyChunk, BP!CopyChunk
  <2>2. QED BY <2>1, BuilderFits, BP!CopyChunkKeeps
<1>5. CASE B!ContinuationHeader
  <2>1. BP!ContinuationHeader
    BY <1>5, SameOperators DEF B!ContinuationHeader, BP!ContinuationHeader, B!Fail, BP!Fail
  <2>2. QED BY <2>1, BuilderFits, BP!ContinuationHeaderKeeps
<1>6. CASE B!Finalize
  <2>1. BP!Finalize
    BY <1>6 DEF B!Finalize, BP!Finalize, B!bufVars, BP!bufVars, B!builderVars, BP!builderVars
  <2>2. QED BY <2>1, BuilderFits, BP!FinalizeKeeps
<1>7. QED BY <1>1, <1>2, <1>3, <1>4, <1>5, <1>6 DEF SenderStep

\* While the packet is written out or read the builder's state stays.
LEMMA BuilderStays ==
  ASSUME BP!IInv, UNCHANGED senderVars
  PROVE  BP!IInv' /\ bpc' = bpc /\ frags' = frags /\ Wire' = Wire
         /\ first' = first /\ written' = written /\ todo' = todo
<1>1. /\ bpc' = bpc /\ brc' = brc /\ frags' = frags /\ len' = len /\ cap' = cap /\ alloc' = alloc
      /\ seq' = seq /\ fragment_length' = fragment_length /\ packet_length' = packet_length
      /\ packet_max_length' = packet_max_length /\ todo' = todo /\ first' = first /\ written' = written
  BY DEF senderVars
<1>2. BP!TypeOK'
  BY <1>1 DEF BP!IInv, BP!TypeOK
<1>3. BP!Shape' /\ BP!InBounds'
  BY <1>1 DEF BP!IInv, BP!Shape, BP!InBounds, BP!HasPacket
<1>4. BP!FragmentsCut' /\ BP!Numbered'
  BY <1>1 DEF BP!IInv, BP!FragmentsCut, BP!Numbered, BP!HasPacket
<1>5. BP!PayloadIntact' /\ BP!UnderLimit'
  BY <1>1 DEF BP!IInv, BP!PayloadIntact, BP!UnderLimit, BP!HasPacket
<1>6. Wire' = Wire
  BY <1>1 DEF Wire
<1>7. QED BY <1>1, <1>2, <1>3, <1>4, <1>5, <1>6 DEF BP!IInv

\* What the builder's invariant says of a finalized buffer.
LEMMA FinalizedBuffer ==
  ASSUME BP!IInv', bpc' = "sealed"
  PROVE  Sealed(frags', written', first', seq')
<1>1. PICK f, w, s, q : f = frags' /\ w = written' /\ s = first' /\ q = seq'
  OBVIOUS
<1>2. f # <<>> /\ f \in Seq(BP!Fragment) /\ w \in Seq(Nat) /\ s \in Numbers
  BY <1>1, BytesAreNumbers DEF BP!IInv, BP!Shape, BP!Busy, BP!HasPacket, BP!TypeOK, Numbers
<1>3. PICK n \in Nat \ {0} : n = Len(f)
  BY <1>2, EmptySeq
<1>4. PICK l \in Nat : l = Len(f[n].data) /\ l < MaxLen /\ l = fragment_length'
  <2>1. fragment_length' \in 0..MaxLen /\ Len(f[n].data) = fragment_length' /\ fragment_length' < MaxLen
    BY <1>1, <1>2, <1>3 DEF BP!IInv, BP!FragmentsCut, BP!HasPacket, BP!TypeOK
  <2>2. QED BY <2>1, MaxLenType
<1>5. \A i \in 1..(n - 1) : Len(f[i].data) = MaxLen /\ f[i].len = MaxLen
  BY <1>1, <1>2, <1>3 DEF BP!IInv, BP!FragmentsCut, BP!HasPacket
<1>6. f[n].len = l
  BY <1>1, <1>3, <1>4 DEF BP!IInv, BP!Shape
<1>7. ASSUME NEW i \in 1..n PROVE f[i].len = Len(f[i].data)
  <2>1. CASE i = n
    BY <1>4, <1>6, <2>1
  <2>2. CASE i # n
    <3>1. i \in 1..(n - 1)
      BY <2>2
    <3>2. QED BY <1>5, <3>1
  <2>3. QED BY <2>1, <2>2
<1>8. f[1].seq = s /\ (\A i \in 1..(n - 1) : f[i + 1].seq = NextSeq(f[i].seq)) /\ q = NextSeq(f[n].seq)
  BY <1>1, <1>2, <1>3 DEF BP!IInv, BP!Numbered, BP!HasPacket, BP!NextSeq, NextSeq
<1>9. Len(w) = CutStart(n) + l
  <2>1. packet_length' = BP!Offset(n) + fragment_length' /\ Len(w) = packet_length'
    BY <1>1, <1>2, <1>3 DEF BP!IInv, BP!Shape, BP!PayloadIntact, BP!HasPacket
  <2>2. QED BY <1>4, <2>1 DEF BP!Offset, CutStart
<1>10. \A i \in 1..n : \A j \in 1..Len(f[i].data) : f[i].data[j] = w[CutStart(i) + j]
  BY <1>1, <1>2, <1>3 DEF BP!IInv, BP!PayloadIntact, BP!HasPacket, BP!Offset, CutStart
<1>11. Sealed(f, w, s, q)
  BY <1>2, <1>3, <1>4, <1>5, <1>7, <1>8, <1>9, <1>10 DEF Sealed
<1>12. QED BY <1>1, <1>11

\* The reader's operators as the proofs about them name them.
LEMMA SamePacketBytes ==
  \A p, s : R!PacketBytes(p, s) = PacketBytes(p, s) /\ R!NumFragments(p) = NumFragments(p)
  BY DEF R!PacketBytes, PacketBytes, R!NumFragments, NumFragments, R!MaxLen, MaxLen,
         R!FragmentBytes, FragmentBytes, R!FlattenSeq, FlattenSeq

\* Nothing is behind the stream but a finalized packet's bytes.
LEMMA ComingFacts ==
  ASSUME FramingInv
  PROVE  /\ stream \in Seq(Nat) /\ Unwritten \in Seq(Nat) /\ Coming \in Seq(Nat)
         /\ ~Flushing => Coming = stream
         /\ Flushing => Coming # <<>>
<1>1. stream \in Seq(Nat)
  BY DEF FramingInv
<1>2. CASE bpc = "sealed"
  <2>1. PICK w \in Seq(Nat), m \in Nat, l \in Nat : w = Wire /\ m = packet_buffer_written /\ l = Len(w) /\ m <= l
    BY <1>2 DEF FramingInv, Outgoing
  <2>2. PICK n \in Nat : l = m + n
    <3>1. l - m \in Nat /\ l = m + (l - m)
      BY <2>1
    <3>2. QED BY <3>1
  <2>3. PICK u \in Seq(Nat) : u = Slice(w, m, l) /\ Len(u) = n
    <3>1. IsSlice(Slice(w, m, l), Nat, w, m, n)
      <4>1. l <= Len(w) /\ l = m + n
        BY <2>1, <2>2
      <4>2. QED BY <4>1, SliceFacts
    <3>2. QED BY <3>1 DEF IsSlice
  <2>4. Unwritten = u
    BY <1>2, <2>1, <2>3 DEF Unwritten, Slice
  <2>5. Flushing <=> n # 0
    BY <1>2, <2>1, <2>2 DEF Flushing
  <2>6. Coming = stream \o u /\ Coming \in Seq(Nat) /\ Len(Coming) = Len(stream) + n
    <3>1. PICK a \in Seq(Nat) : a = stream
      BY <1>1
    <3>2. a \o u \in Seq(Nat) /\ Len(a \o u) = Len(a) + Len(u)
      OBVIOUS
    <3>3. QED BY <2>3, <2>4, <3>1, <3>2 DEF Coming
  <2>7. n = 0 => Coming = stream
    BY <1>1, <2>3, <2>6, EmptySeq
  <2>8. n # 0 => Coming # <<>>
    <3>1. Len(stream) \in Nat
      BY <1>1
    <3>2. n # 0 => Len(Coming) # 0
      BY <2>6, <3>1
    <3>3. QED BY <3>2, EmptySeq
  <2>9. QED BY <1>1, <2>3, <2>4, <2>5, <2>6, <2>7, <2>8
<1>3. CASE bpc # "sealed"
  <2>1. Unwritten = <<>> /\ ~Flushing
    BY <1>3 DEF Unwritten, Flushing
  <2>2. Coming = stream
    BY <1>1, <2>1 DEF Coming
  <2>3. QED BY <1>1, <2>1, <2>2, EmptySeq
<1>4. QED BY <1>2, <1>3

\* Nothing changes for the reader.
LEMMA ReaderStays ==
  ASSUME FramingInv, UNCHANGED clientVars, Coming' = Coming, UNCHANGED <<eof, broken, sent, peer_seq>>
  PROVE  R!IInv'
<1>1. UNCHANGED R!vars
  BY DEF R!vars, R!clientVars, R!parserVars, R!peerVars, clientVars, parserVars
<1>2. R!IInv
  BY DEF FramingInv
<1>3. QED BY <1>1, <1>2, ParserFits, R!StutterStep

\* A step before the packet is finalized.
LEMMA BuildingKeeps ==
  ASSUME FramingInv, Build, ~B!Finalize
  PROVE  FramingInv'
<1>1. UNCHANGED clientVars /\ stream' = stream /\ eof' = eof /\ broken' = broken
  BY DEF Build
<1>2. peer_seq \in 0..(SeqCount - 1)
  BY DEF FramingInv, R!IInv, R!TypeOK
<1>3. \/ ~Flushing /\ B!BeginPacket(peer_seq, 0)
      \/ written = <<>> /\ B!WriteUint8(Command)
      \/ Len(written) = 1 /\ \E d \in Payloads : B!WriteBuffer(d)
      \/ B!CopyChunk
      \/ B!ContinuationHeader
  BY DEF Build
<1>4. BP!IInv'
  <2>1. SenderStep
    BY <1>3 DEF SenderStep
  <2>2. QED BY <1>2, <2>1, BuilderKeeps DEF FramingInv
<1>5. bpc' # "sealed" /\ ~Flushing
  <2>1. bpc' # "sealed"
    BY <1>3 DEF B!BeginPacket, B!WriteUint8, B!WriteBuffer, B!CopyChunk, B!ContinuationHeader, B!AppendData, B!Fail
  <2>2. ~Flushing
    BY <1>3 DEF Flushing, B!WriteUint8, B!WriteBuffer, B!CopyChunk, B!ContinuationHeader
  <2>3. QED BY <2>1, <2>2
<1>6. UNCHANGED <<sent, peer_seq>>
  BY <1>5 DEF Build
<1>7. Outgoing'
  BY <1>3, <1>6, BeginKeepsOutgoing, CommandKeepsOutgoing, PayloadKeepsOutgoing, CopyKeepsOutgoing, ContinuationKeepsOutgoing
<1>8. Coming' = Coming
  <2>1. Coming = stream /\ stream \in Seq(Nat)
    BY <1>5, ComingFacts
  <2>2. Coming' = stream \o <<>>
    BY <1>1, <1>5 DEF Coming, Unwritten
  <2>3. QED BY <2>1, <2>2
<1>9. R!IInv'
  BY <1>1, <1>6, <1>8, ReaderStays
<1>10. got' = got /\ rc' = rc
  BY <1>1 DEF clientVars
<1>11. QED BY <1>1, <1>4, <1>6, <1>7, <1>9, <1>10 DEF FramingInv

\* trilogy_builder_finalize: to the reader, the packet is written.
LEMMA FinalizeKeeps ==
  ASSUME FramingInv, Build, B!Finalize
  PROVE  /\ FramingInv'
         /\ sent' = Append(sent, written) /\ written \in Commands
<1>1. UNCHANGED clientVars /\ stream' = stream /\ eof' = eof /\ broken' = broken
  BY DEF Build
<1>2. bpc = "open" /\ bpc' = "sealed" /\ seq' = seq /\ first' = first /\ written' = written
  BY DEF B!Finalize, B!builderVars
<1>3. written # <<>>
  BY <1>2 DEF Build, B!BeginPacket, B!WriteUint8, B!WriteBuffer, B!CopyChunk, B!ContinuationHeader, B!AppendData, B!Fail
<1>4. packet_buffer_written' = 0 /\ sent' = Append(sent, written) /\ peer_seq' = seq
  BY <1>2 DEF Build
<1>5. peer_seq \in 0..(SeqCount - 1)
  BY DEF FramingInv, R!IInv, R!TypeOK
<1>6. BP!IInv'
  <2>1. SenderStep
    BY DEF SenderStep
  <2>2. QED BY <1>5, <2>1, BuilderKeeps DEF FramingInv
<1>7. first = peer_seq /\ written \in Commands
  <2>1. first = peer_seq /\ written \o todo \in Commands
    BY <1>2, <1>3 DEF FramingInv, Outgoing
  <2>2. todo = <<>> /\ written \in Seq(0..(Radix - 1))
    BY <1>2 DEF FramingInv, BP!IInv, BP!Shape, BP!TypeOK
  <2>3. written \o <<>> = written
    BY <2>2
  <2>4. QED BY <2>1, <2>2, <2>3
<1>8. Wire' = PacketBytes(written, peer_seq) /\ peer_seq' = (peer_seq + NumFragments(written)) % SeqCount
  <2>1. Sealed(frags', written', first', seq')
    BY <1>2, <1>6, FinalizedBuffer
  <2>2. Bytes(frags') = PacketBytes(written', first') /\ seq' = (first' + NumFragments(written')) % SeqCount
    BY <2>1, SealedBytes
  <2>3. Wire' = Bytes(frags')
    BY DEF Wire, Bytes
  <2>4. QED BY <1>2, <1>4, <1>7, <2>2, <2>3
<1>9. PICK w \in Seq(Nat) : w = Wire' /\ w = PacketBytes(written, peer_seq)
  <2>1. written \in Seq(Nat)
    BY <1>7, CommandsType
  <2>2. PacketBytes(written, peer_seq) \in Seq(Nat)
    BY <1>5, <2>1, PacketBytesFacts
  <2>3. QED BY <1>8, <2>2
<1>10. Coming = stream /\ stream \in Seq(Nat)
  <2>1. ~Flushing
    BY <1>2 DEF Flushing
  <2>2. QED BY <2>1, ComingFacts
<1>11. Coming' = stream \o w
  <2>1. Coming' = stream \o SubSeq(w, 0 + 1, Len(w))
    BY <1>1, <1>2, <1>4, <1>9 DEF Coming, Unwritten
  <2>2. 0 + 1 = 1 /\ SubSeq(w, 1, Len(w)) = w
    OBVIOUS
  <2>3. QED BY <2>1, <2>2
<1>12. R!IInv'
  <2>1. R!Writes(written)
    BY <1>1, <1>4, <1>8, <1>9, <1>10, <1>11, SamePacketBytes
       DEF R!Writes, R!clientVars, R!parserVars, clientVars, parserVars, FramingInv
  <2>2. R!IInv
    BY DEF FramingInv
  <2>3. QED BY <1>7, <2>1, <2>2, ParserFits, R!WritesStep
<1>13. Outgoing'
  BY <1>2, <1>4, <1>9 DEF Outgoing
<1>14. rc' = "SYSERR" => Len(got') < Len(sent')
  <2>1. got' = got /\ rc' = rc
    BY <1>1 DEF clientVars
  <2>2. sent \in Seq(Commands) /\ got \in Seq(Seq(Nat))
    BY DEF FramingInv, R!IInv, R!TypeOK
  <2>3. Len(got) \in Nat /\ Len(sent) \in Nat /\ Len(Append(sent, written)) = Len(sent) + 1
    BY <2>2
  <2>4. rc = "SYSERR" => Len(got) < Len(sent)
    BY DEF FramingInv
  <2>5. QED BY <1>4, <2>1, <2>3, <2>4
<1>15. FramingInv'
  BY <1>1, <1>6, <1>10, <1>12, <1>13, <1>14 DEF FramingInv
<1>16. QED BY <1>4, <1>7, <1>15

\* A partial write: bytes move from the buffer to the stream.
LEMMA FlushKeeps ==
  ASSUME FramingInv, Flush
  PROVE  FramingInv'
<1>1. PICK n \in 1..(Len(Wire) - packet_buffer_written) : FlushWrites(n)
  BY DEF Flush
<1>2. /\ Flushing /\ UNCHANGED clientVars /\ UNCHANGED <<eof, peer_seq, broken, sent>> /\ UNCHANGED senderVars
      /\ stream' = stream \o SubSeq(Wire, packet_buffer_written + 1, packet_buffer_written + n)
      /\ packet_buffer_written' = packet_buffer_written + n
  BY <1>1 DEF FlushWrites, peerVars
<1>3. BP!IInv' /\ bpc' = bpc /\ Wire' = Wire /\ bpc = "sealed"
  BY <1>2, BuilderStays DEF FramingInv, Flushing
<1>4. PICK w \in Seq(Nat), m \in Nat : w = Wire /\ m = packet_buffer_written /\ stream \in Seq(Nat)
  BY <1>3 DEF FramingInv, Outgoing
<1>5. PICK k \in Nat : k = m + n /\ m <= k /\ k <= Len(w)
  <2>1. n \in 1..(Len(w) - m)
    BY <1>4
  <2>2. QED BY <2>1
<1>6. stream' = stream \o Slice(w, m, k)
  BY <1>2, <1>4, <1>5 DEF Slice
<1>7. stream' \in Seq(Nat) /\ stream' \o Slice(w, k, Len(w)) = stream \o Slice(w, m, Len(w))
  <2>1. PICK a \in Seq(Nat) : a = stream
    BY <1>4
  <2>2. /\ a \o Slice(w, m, k) \in Seq(Nat)
        /\ (a \o Slice(w, m, k)) \o Slice(w, k, Len(w)) = a \o Slice(w, m, Len(w))
    <3>1. Glued(Nat, a, w, m, k)
      BY <1>5, Glue
    <3>2. QED BY <3>1 DEF Glued
  <2>3. QED BY <1>6, <2>1, <2>2
<1>8. Coming' = Coming
  <2>1. Coming = stream \o Slice(w, m, Len(w))
    BY <1>3, <1>4 DEF Coming, Unwritten, Slice
  <2>2. Coming' = stream' \o Slice(w, k, Len(w))
    BY <1>2, <1>3, <1>4, <1>5 DEF Coming, Unwritten, Slice
  <2>3. QED BY <1>7, <2>1, <2>2
<1>9. R!IInv'
  BY <1>2, <1>8, ReaderStays
<1>10. Outgoing'
  BY <1>2, <1>3, <1>4, <1>5 DEF Outgoing
<1>11. got' = got /\ rc' = rc
  BY <1>2 DEF clientVars
<1>12. QED BY <1>2, <1>3, <1>7, <1>9, <1>10, <1>11 DEF FramingInv

-----------------------------------------------------------------------------
(* The reader's steps.                                                       *)

\* The first bytes of what is coming are those of the stream, if there are any.
IsFront(n) ==
  /\ n \in 1..Len(Coming)
  /\ SubSeq(Coming, 1, n) = SubSeq(stream, 1, n)
  /\ SubSeq(Coming, n + 1, Len(Coming)) = SubSeq(stream, n + 1, Len(stream)) \o Unwritten
  /\ SubSeq(stream, n + 1, Len(stream)) \in Seq(Nat)

LEMMA FrontFacts ==
  ASSUME FramingInv, NEW n \in 1..Len(stream)
  PROVE  IsFront(n)
<1>0. stream \in Seq(Nat) /\ Unwritten \in Seq(Nat)
  BY ComingFacts
<1>1. PICK a \in Seq(Nat), u \in Seq(Nat) : a = stream /\ u = Unwritten
  BY <1>0
<1>2. PICK l \in Nat, h \in Nat : l = Len(a) /\ h = Len(u)
  BY <1>1
<1>3. PICK c \in Seq(Nat) : c = a \o u /\ c = Coming
  <2>1. Coming = a \o u
    BY <1>1 DEF Coming
  <2>2. Coming \in Seq(Nat)
    BY ComingFacts
  <2>3. QED BY <2>1, <2>2
<1>4. Len(c) = l + h /\ (\A j \in 1..l : c[j] = a[j]) /\ \A j \in 1..h : c[l + j] = u[j]
  <2>1. Joined(a \o u, a, u, l)
    BY <1>2, Concat
  <2>2. QED BY <1>2, <1>3, <2>1 DEF Joined
<1>5. PICK v \in Nat : v = n /\ v >= 1 /\ v <= l
  <2>1. n \in 1..l
    BY <1>1, <1>2
  <2>2. QED BY <2>1
<1>6. PICK m \in Nat : l = v + m
  <2>1. l - v \in Nat /\ l = v + (l - v)
    BY <1>5
  <2>2. QED BY <2>1
<1>7. SubSeq(c, 1, v) = SubSeq(a, 1, v)
  <2>1. PICK x, y : x = SubSeq(c, 1, v) /\ y = SubSeq(a, 1, v)
    OBVIOUS
  <2>a. v <= Len(c) /\ v <= Len(a)
    BY <1>2, <1>4, <1>5
  <2>2. x \in Seq(Nat) /\ Len(x) = v /\ \A j \in 1..v : x[j] = c[j]
    BY <2>1, <2>a
  <2>3. y \in Seq(Nat) /\ Len(y) = v /\ \A j \in 1..v : y[j] = a[j]
    BY <2>1, <2>a
  <2>4. ASSUME NEW j \in 1..v PROVE x[j] = y[j]
    <3>1. j \in 1..l
      BY <1>5
    <3>2. x[j] = c[j] /\ c[j] = a[j] /\ y[j] = a[j]
      BY <1>4, <2>2, <2>3, <3>1
    <3>3. QED BY <3>2
  <2>5. x = y
    BY <2>2, <2>3, <2>4, SeqEqual
  <2>6. QED BY <2>1, <2>5
<1>8. PICK d \in Seq(Nat) : d = Slice(a, v, l) /\ Len(d) = m /\ \A j \in 1..m : d[j] = a[v + j]
  <2>1. l = v + m /\ l <= Len(a)
    BY <1>2, <1>6
  <2>a. IsSlice(Slice(a, v, l), Nat, a, v, m)
    BY <2>1, SliceFacts
  <2>2. QED BY <2>a DEF IsSlice
<1>9. PICK k \in Nat : k = m + h /\ l + h = v + k
  BY <1>6
<1>10. PICK x \in Seq(Nat) : x = Slice(c, v, l + h) /\ Len(x) = k /\ \A j \in 1..k : x[j] = c[v + j]
  <2>1. PICK q \in Nat : q = l + h /\ q = v + k /\ q <= Len(c)
    BY <1>4, <1>9
  <2>2. IsSlice(Slice(c, v, q), Nat, c, v, k)
    BY <2>1, SliceFacts
  <2>3. QED BY <2>1, <2>2 DEF IsSlice
<1>11. x = d \o u
  <2>1. PICK y \in Seq(Nat) : y = d \o u /\ Joined(y, d, u, m)
    BY <1>8, Concat
  <2>2. Len(y) = k /\ (\A j \in 1..m : y[j] = d[j]) /\ \A j \in 1..h : y[m + j] = u[j]
    BY <1>2, <1>9, <2>1 DEF Joined
  <2>3. ASSUME NEW j \in 1..k PROVE x[j] = y[j]
    <3>1. CASE j <= m
      <4>1. j \in 1..m /\ v + j \in 1..l
        BY <1>6, <3>1
      <4>2. x[j] = c[v + j] /\ c[v + j] = a[v + j] /\ y[j] = d[j] /\ d[j] = a[v + j]
        BY <1>4, <1>8, <1>10, <2>2, <4>1
      <4>3. QED BY <4>2
    <3>2. CASE ~(j <= m)
      <4>1. j - m \in 1..h /\ j = m + (j - m)
        BY <1>9, <3>2
      <4>2. PICK i \in 1..h : j = m + i
        BY <4>1
      <4>3. v + j = l + i
        BY <1>6, <4>2
      <4>4. x[j] = c[l + i] /\ c[l + i] = u[i] /\ y[j] = u[i]
        BY <1>4, <1>10, <2>2, <4>2, <4>3
      <4>5. QED BY <4>4
    <3>3. QED BY <3>1, <3>2
  <2>4. x = y
    BY <1>10, <2>2, <2>3, SeqEqual
  <2>5. QED BY <2>1, <2>4
<1>12. n \in 1..Len(Coming)
  BY <1>3, <1>4, <1>5
<1>13. Len(Coming) = l + h
  BY <1>3, <1>4
<1>14. SubSeq(Coming, n + 1, Len(Coming)) = x
  BY <1>3, <1>5, <1>10, <1>13 DEF Slice
<1>15. SubSeq(stream, n + 1, Len(stream)) = d
  BY <1>1, <1>2, <1>5, <1>8 DEF Slice
<1>16. QED BY <1>1, <1>3, <1>5, <1>7, <1>11, <1>12, <1>14, <1>15 DEF IsFront

\* A step that leaves the sender and its stream.
LEMMA ComingStays ==
  ASSUME FramingInv, UNCHANGED <<senderVars, packet_buffer_written>>
  PROVE  /\ BP!IInv' /\ (UNCHANGED peer_seq => Outgoing')
         /\ Unwritten' = Unwritten /\ (stream' = stream => Coming' = Coming)
<1>1. /\ BP!IInv' /\ bpc' = bpc /\ Wire' = Wire /\ first' = first /\ written' = written /\ todo' = todo
      /\ packet_buffer_written' = packet_buffer_written
  BY BuilderStays DEF FramingInv
<1>2. Unwritten' = Unwritten
  BY <1>1 DEF Unwritten
<1>3. Outgoing
  BY DEF FramingInv
<1>4. ASSUME UNCHANGED peer_seq PROVE Outgoing'
  BY <1>1, <1>3, <1>4 DEF Outgoing
<1>5. QED BY <1>1, <1>2, <1>4 DEF Coming

\* A read of the socket: the reader takes the first bytes of what is coming.
LEMMA ReadPacketReads ==
  ASSUME FramingInv, ReadPacket, UNCHANGED <<senderVars, packet_buffer_written>>
  PROVE  R!ReadPacket /\ stream' \in Seq(Nat)
<1>1. /\ pc = "idle" /\ (rc \in Errors => rc \in RetryOn)
      /\ packet' = packet
      /\ IF deferred_end_callback THEN PacketEnd ELSE pc' = "exec" /\ UNCHANGED <<rc, got>>
      /\ deferred_end_callback' = FALSE
      /\ UNCHANGED <<state, fragment, sequence_number, bytes_remaining, peerVars>>
  BY DEF ReadPacket
<1>2. /\ IF recv # <<>> THEN UNCHANGED <<recv, Coming>>
         ELSE \E n \in 1..Len(Coming) :
                recv' = SubSeq(Coming, 1, n) /\ Coming' = SubSeq(Coming, n + 1, Len(Coming))
      /\ stream' \in Seq(Nat)
  <2>1. CASE recv # <<>>
    <3>1. recv' = recv /\ stream' = stream
      BY <2>1 DEF ReadPacket
    <3>2. QED BY <2>1, <3>1, ComingStays DEF FramingInv
  <2>2. CASE recv = <<>>
    <3>1. PICK n \in 1..Len(stream) : recv' = SubSeq(stream, 1, n) /\ stream' = SubSeq(stream, n + 1, Len(stream))
      BY <2>2 DEF ReadPacket
    <3>2. IsFront(n)
      BY FrontFacts
    <3>3. Coming' = SubSeq(stream, n + 1, Len(stream)) \o Unwritten
      <4>1. Coming' = stream' \o Unwritten'
        BY DEF Coming
      <4>2. Unwritten' = Unwritten
        BY ComingStays
      <4>3. QED BY <3>1, <4>1, <4>2
    <3>4. /\ n \in 1..Len(Coming) /\ recv' = SubSeq(Coming, 1, n)
          /\ Coming' = SubSeq(Coming, n + 1, Len(Coming)) /\ stream' \in Seq(Nat)
      BY <3>1, <3>2, <3>3 DEF IsFront
    <3>5. QED BY <2>2, <3>4
  <2>3. QED BY <2>1, <2>2
<1>3. QED BY <1>1, <1>2 DEF R!ReadPacket, R!Errors, Errors, R!PacketEnd, PacketEnd, R!Return, Return, R!peerVars, peerVars

\* What is looked at of the bytes that have been read.
LEMMA IterationReads ==
  ASSUME FramingInv, UNCHANGED <<senderVars, packet_buffer_written>>
  PROVE  /\ ReadNothing \/ Exhausted \/ WrongSeq => R!Returns
         /\ Len0 => R!Len0
         /\ Len1 => R!Len1
         /\ Len2 => R!Len2
         /\ SeqByte => R!SeqByte
         /\ Payload => R!Payload
<1>1. stream' = stream => Coming' = Coming
  BY ComingStays
<1>2. ~eof
  BY DEF FramingInv
<1>3. ASSUME ReadNothing PROVE R!Returns
  <2>1. UNCHANGED <<parserVars, recv, pc, got, stream, peerVars>> /\ pc = "idle" /\ rc' = "AGAIN"
    BY <1>2, <1>3 DEF ReadNothing
  <2>2. QED BY <1>1, <2>1 DEF R!Returns, R!parserVars, parserVars, R!peerVars, peerVars
<1>4. ASSUME Exhausted PROVE R!Returns
  BY <1>1, <1>4 DEF Exhausted, Return, R!Returns, R!parserVars, parserVars, R!peerVars, peerVars
<1>5. ASSUME WrongSeq PROVE R!Returns
  BY <1>1, <1>5 DEF WrongSeq, Return, R!Returns, R!parserVars, parserVars, R!peerVars, peerVars
<1>6. ASSUME Len0 PROVE R!Len0
  BY <1>1, <1>6 DEF Len0, R!Len0, Consume, R!Consume, R!peerVars, peerVars
<1>7. ASSUME Len1 PROVE R!Len1
  BY <1>1, <1>7 DEF Len1, R!Len1, Consume, R!Consume, R!peerVars, peerVars
<1>8. ASSUME Len2 PROVE R!Len2
  BY <1>1, <1>8 DEF Len2, R!Len2, Consume, R!Consume, R!peerVars, peerVars, R!MaxLen, MaxLen
<1>9. ASSUME SeqByte PROVE R!SeqByte
  BY <1>1, <1>9 DEF SeqByte, R!SeqByte, Consume, R!Consume, R!peerVars, peerVars, R!NextSeq, NextSeq,
       R!EndOfPayload, EndOfPayload, R!PacketEnd, PacketEnd, R!Return, Return
<1>10. ASSUME Payload PROVE R!Payload
  BY <1>1, <1>10 DEF Payload, R!Payload, R!peerVars, peerVars,
       R!EndOfPayload, EndOfPayload, R!PacketEnd, PacketEnd, R!Return, Return
<1>11. QED BY <1>3, <1>4, <1>5, <1>6, <1>7, <1>8, <1>9, <1>10

\* A step of the reader, who does not read on when memory ran out. A packet that it
\* returns is the next one.
Delivers ==
  \/ got' = got
  \/ Len(got) < Len(sent) /\ got' = Append(got, sent[Len(got) + 1])

LEMMA ReadKeeps ==
  ASSUME GivesUp, FramingInv, Read
  PROVE  FramingInv' /\ Delivers /\ sent' = sent
<1>1. /\ UNCHANGED <<senderVars, packet_buffer_written>>
      /\ ReadPacket \/ ReadNothing \/ Exhausted \/ WrongSeq \/ Len0 \/ Len1 \/ Len2 \/ SeqByte \/ Payload
  BY DEF Read, Execute
<1>2. R!IInv /\ stream \in Seq(Nat) /\ ~eof /\ ~broken
  BY DEF FramingInv
<1>3. rc # "SYSERR"
  <2>1. rc = "SYSERR" => pc = "idle" /\ "nomem" \in Faults
    BY <1>2 DEF R!IInv
  <2>2. CASE ReadPacket \/ ReadNothing
    BY <2>1, <2>2 DEF ReadPacket, ReadNothing, GivesUp, Errors
  <2>3. CASE ~(ReadPacket \/ ReadNothing)
    <3>1. pc = "exec"
      BY <1>1, <2>3 DEF Exhausted, WrongSeq, Len0, Len1, Len2, SeqByte, Payload, Consume
    <3>2. QED BY <2>1, <3>1
  <2>4. QED BY <2>2, <2>3
<1>4. /\ ReadPacket => R!ReadPacket /\ stream' \in Seq(Nat)
      /\ ReadNothing \/ Exhausted \/ WrongSeq => R!Returns
      /\ Len0 => R!Len0
      /\ Len1 => R!Len1
      /\ Len2 => R!Len2
      /\ SeqByte => R!SeqByte
      /\ Payload => R!Payload
  BY <1>1, ReadPacketReads, IterationReads
<1>5. R!IInv'
  <2>1. CASE ReadPacket
    BY <1>2, <1>3, <1>4, <2>1, ParserFits, R!ReadPacketStep
  <2>2. CASE ReadNothing \/ Exhausted \/ WrongSeq
    BY <1>2, <1>3, <1>4, <2>2, ParserFits, R!ReturnsStep
  <2>3. CASE Len0
    BY <1>2, <1>4, <2>3, ParserFits, R!Len0Step
  <2>4. CASE Len1
    BY <1>2, <1>4, <2>4, ParserFits, R!Len1Step
  <2>5. CASE Len2
    BY <1>2, <1>4, <2>5, ParserFits, R!Len2Step
  <2>6. CASE SeqByte
    BY <1>2, <1>4, <2>6, ParserFits, R!SeqByteStep
  <2>7. CASE Payload
    BY <1>2, <1>4, <2>7, ParserFits, R!PayloadStep
  <2>8. QED BY <1>1, <2>1, <2>2, <2>3, <2>4, <2>5, <2>6, <2>7
<1>6. UNCHANGED peerVars /\ stream' \in Seq(Nat)
  <2>1. UNCHANGED peerVars
    BY <1>1 DEF ReadPacket, ReadNothing, Exhausted, WrongSeq, Len0, Len1, Len2, SeqByte, Payload, Consume
  <2>2. ReadPacket \/ stream' = stream
    BY <1>1 DEF ReadNothing, Exhausted, WrongSeq, Len0, Len1, Len2, SeqByte, Payload, Consume
  <2>3. QED BY <1>2, <1>4, <2>1, <2>2
<1>7. eof' = eof /\ peer_seq' = peer_seq /\ broken' = broken /\ sent' = sent
  BY <1>6 DEF peerVars
<1>8. BP!IInv' /\ Outgoing'
  BY <1>1, <1>7, ComingStays
<1>9. \/ got' = got /\ (rc' = "SYSERR" => pc = "exec" /\ state = "S_PAYLOAD")
      \/ got' = Append(got, packet') /\ rc' = "OK"
  <2>1. CASE ReadPacket
    <3>1. (got' = got /\ rc' = rc) \/ (got' = Append(got, packet') /\ rc' = "OK")
      BY <2>1 DEF ReadPacket, PacketEnd, Return
    <3>2. QED BY <1>3, <3>1
  <2>2. CASE ReadNothing \/ Exhausted \/ WrongSeq
    <3>1. got' = got /\ rc' \in {"AGAIN", "CLOSED_CONNECTION", "INVALID_SEQUENCE_ID"}
      BY <1>4, <2>2 DEF R!Returns
    <3>2. QED BY <3>1
  <2>3. CASE Len0 \/ Len1 \/ Len2
    <3>1. got' = got /\ rc' = rc
      BY <2>3 DEF Len0, Len1, Len2
    <3>2. QED BY <1>3, <3>1
  <2>4. CASE SeqByte
    <3>1. (got' = got /\ rc' = rc) \/ (got' = Append(got, packet') /\ rc' = "OK")
      BY <2>4 DEF SeqByte, EndOfPayload, PacketEnd, Return
    <3>2. QED BY <1>3, <3>1
  <2>5. CASE Payload
    <3>1. pc = "exec" /\ state = "S_PAYLOAD"
      BY <2>5 DEF Payload
    <3>2. got' = got \/ (got' = Append(got, packet') /\ rc' = "OK")
      BY <2>5 DEF Payload, EndOfPayload, PacketEnd, Return
    <3>3. QED BY <3>1, <3>2
  <2>6. QED BY <1>1, <2>1, <2>2, <2>3, <2>4, <2>5
<1>10. rc' = "SYSERR" => Len(got') < Len(sent')
  <2>1. SUFFICES ASSUME rc' = "SYSERR" PROVE Len(got') < Len(sent')
    OBVIOUS
  <2>2. got' = got /\ pc = "exec" /\ state = "S_PAYLOAD"
    BY <1>9, <2>1
  <2>3. Len(got) < Len(sent)
    BY <1>2, <2>2, ParserFits, R!PayloadInside
  <2>4. QED BY <1>7, <2>2, <2>3
<1>11. FramingInv'
  BY <1>2, <1>5, <1>6, <1>7, <1>8, <1>10 DEF FramingInv
<1>12. Delivers
  <2>1. SUFFICES ASSUME got' = Append(got, packet') PROVE Delivers
    BY <1>9 DEF Delivers
  <2>2. /\ Len(got') <= Len(sent') /\ \A k \in 1..Len(got') : got'[k] = sent'[k]
        /\ got \in Seq(Seq(Nat)) /\ sent \in Seq(Commands)
    BY <1>2, <1>5 DEF R!IInv, R!Delivered, R!TypeOK
  <2>a. PICK q : q = packet'
    OBVIOUS
  <2>3. PICK g \in Seq(Seq(Nat)) : g = got /\ got' = Append(g, q)
    BY <2>1, <2>2, <2>a
  <2>4. PICK l \in Nat : l = Len(g)
    OBVIOUS
  <2>5. Len(got') = l + 1 /\ got'[l + 1] = q
    BY <2>3, <2>4
  <2>6. PICK m \in Nat : m = Len(sent) /\ l + 1 <= m
    BY <1>7, <2>2, <2>5
  <2>7. l + 1 \in 1..Len(got')
    BY <2>5
  <2>8. q = sent[l + 1]
    BY <1>7, <2>2, <2>5, <2>7
  <2>9. QED BY <2>3, <2>4, <2>6, <2>8 DEF Delivers
<1>13. QED BY <1>7, <1>11, <1>12

-----------------------------------------------------------------------------
(* The two ends together.                                                    *)

\* A new connection: the reader waits for a packet, the sender's buffer is empty.
LEMMA InitKeeps ==
  ASSUME FramingInit
  PROVE  FramingInv
<1>1. /\ Init /\ bpc = "closed" /\ brc = "OK" /\ frags = <<>> /\ len = 0 /\ cap = DefaultCap /\ alloc = TRUE
      /\ seq = 0 /\ fragment_length = 0 /\ packet_length = 0 /\ packet_max_length = SizeMax
      /\ todo = <<>> /\ first = 0 /\ written = <<>> /\ packet_buffer_written = 0
  BY DEF FramingInit
<1>2. BP!IInv
  <2>1. BP!TypeOK
    <3>1. /\ bpc \in BP!PCs /\ brc \in BP!Failures \cup {"OK"} /\ alloc \in BOOLEAN
          /\ frags \in Seq(BP!Fragment) /\ todo \in Seq(0..(Radix - 1)) /\ written \in Seq(0..(Radix - 1))
      BY <1>1 DEF BP!PCs, BP!Failures
    <3>2. 0 \in 0..(SeqCount - 1) /\ 0 \in 0..MaxLen
      BY ParserAssumption, MaxLenType
    <3>3. DefaultCap \in 0..SizeMax /\ SizeMax \in 1..SizeMax /\ 0 \in Nat
      BY FramingAssumption
    <3>4. QED BY <1>1, <3>1, <3>2, <3>3 DEF BP!TypeOK
  <2>2. len <= cap
    BY <1>1, FramingAssumption
  <2>3. BP!Shape /\ BP!InBounds
    BY <1>1, <2>2 DEF BP!Shape, BP!Busy, BP!HasPacket, BP!InBounds
  <2>4. BP!FragmentsCut /\ BP!Numbered /\ BP!PayloadIntact /\ BP!UnderLimit
    BY <1>1 DEF BP!HasPacket, BP!FragmentsCut, BP!Numbered, BP!PayloadIntact, BP!UnderLimit
  <2>5. QED BY <2>1, <2>3, <2>4 DEF BP!IInv
<1>3. stream = <<>> /\ stream \in Seq(Nat) /\ eof = FALSE /\ broken = FALSE /\ rc = "AGAIN"
  BY <1>1 DEF Init, ClientInit
<1>4. R!IInv
  <2>1. Coming = <<>>
    BY <1>1, <1>3 DEF Coming, Unwritten
  <2>2. R!Init
    BY <1>1, <2>1 DEF Init, ClientInit, R!Init, R!ClientInit
  <2>3. QED BY <2>2, ParserFits, R!InitInv
<1>5. Outgoing
  BY <1>1 DEF Outgoing
<1>6. QED BY <1>2, <1>3, <1>4, <1>5 DEF FramingInv

\* What a step is to the channel.
LEMMA StepKeeps ==
  ASSUME GivesUp, FramingInv, [FramingNext]_allVars
  PROVE  FramingInv' /\ [Channel!Next]_<<sent, got>>
<1>1. CASE Build /\ ~B!Finalize
  <2>1. FramingInv'
    BY <1>1, BuildingKeeps
  <2>2. sent' = sent /\ got' = got
    <3>1. bpc' # "sealed"
      BY <1>1 DEF Build, B!BeginPacket, B!WriteUint8, B!WriteBuffer, B!CopyChunk, B!ContinuationHeader, B!AppendData, B!Fail
    <3>2. QED BY <1>1, <3>1 DEF Build, clientVars
  <2>3. QED BY <2>1, <2>2
<1>2. CASE Build /\ B!Finalize
  <2>1. FramingInv' /\ sent' = Append(sent, written) /\ written \in Commands
    BY <1>2, FinalizeKeeps
  <2>2. got' = got
    BY <1>2 DEF Build, clientVars
  <2>3. Channel!Next
    BY <2>1, <2>2 DEF Channel!Next, Channel!Send, Commands
  <2>4. QED BY <2>1, <2>3
<1>3. CASE Flush
  <2>1. FramingInv'
    BY <1>3, FlushKeeps
  <2>2. sent' = sent /\ got' = got
    BY <1>3 DEF Flush, FlushWrites, clientVars, peerVars
  <2>3. QED BY <2>1, <2>2
<1>4. CASE Read
  <2>1. FramingInv' /\ Delivers /\ sent' = sent
    BY <1>4, ReadKeeps
  <2>2. CASE got' = got
    BY <2>1, <2>2
  <2>3. CASE Len(got) < Len(sent) /\ got' = Append(got, sent[Len(got) + 1])
    <3>1. Channel!Next
      BY <2>1, <2>3 DEF Channel!Next, Channel!Deliver
    <3>2. QED BY <2>1, <3>1
  <2>4. QED BY <2>1, <2>2, <2>3 DEF Delivers
<1>5. CASE UNCHANGED allVars
  <2>1. /\ UNCHANGED vars /\ UNCHANGED <<senderVars, packet_buffer_written>>
    BY <1>5 DEF allVars
  <2>2. /\ UNCHANGED clientVars /\ stream' = stream /\ eof' = eof /\ broken' = broken
        /\ sent' = sent /\ peer_seq' = peer_seq /\ got' = got /\ rc' = rc
    BY <2>1 DEF vars, clientVars, peerVars
  <2>3. BP!IInv' /\ Outgoing' /\ Coming' = Coming
    BY <2>1, <2>2, ComingStays
  <2>4. R!IInv'
    BY <2>2, <2>3, ReaderStays
  <2>5. FramingInv'
    BY <2>2, <2>3, <2>4 DEF FramingInv
  <2>6. QED BY <2>2, <2>5
<1>6. QED BY <1>1, <1>2, <1>3, <1>4, <1>5 DEF FramingNext

\* The invariant: each end's own, and that the bytes on the way, those still in the
\* sender's buffer included, are the rest of what the reader has to expect.
THEOREM FramingInvariant ==
  ASSUME GivesUp
  PROVE  FramingSpec => []FramingInv
<1>1. FramingInit => FramingInv
  BY InitKeeps
<1>2. FramingInv /\ [FramingNext]_allVars => FramingInv'
  BY StepKeeps
<1>3. QED BY <1>1, <1>2, PTL DEF FramingSpec

\* Both ends count alike: when all that was sent has been delivered, the reader
\* expects the number the sender will use, and nothing is left in the buffer, on the
\* way or half parsed (client.c: read_packet, trilogy_flush_writes).
THEOREM BothEndsAgree ==
  ASSUME GivesUp
  PROVE  FramingSpec => []NumbersAgree
<1>1. FramingInv => NumbersAgree
  <2> SUFFICES ASSUME FramingInv, Len(got) = Len(sent)
               PROVE  /\ sequence_number = peer_seq
                      /\ recv = <<>> /\ stream = <<>> /\ state = "S_LEN_0" /\ ~Flushing
    BY DEF NumbersAgree
  <2>1. R!IInv /\ ~eof /\ ~broken
    BY DEF FramingInv
  <2>2. rc # "SYSERR"
    <3>1. sent \in Seq(Commands)
      BY <2>1 DEF R!IInv, R!TypeOK
    <3>2. Len(sent) \in Nat
      BY <3>1
    <3>3. rc = "SYSERR" => Len(got) < Len(sent)
      BY DEF FramingInv
    <3>4. QED BY <3>2, <3>3
  <2>3. state = "S_LEN_0" /\ sequence_number = peer_seq /\ recv = <<>> /\ Coming = <<>>
    BY <2>1, <2>2, ParserFits, R!AllDelivered
  <2>4. ~Flushing /\ Coming = stream
    BY <2>3, ComingFacts
  <2>5. QED BY <2>3, <2>4
<1>2. QED BY <1>1, FramingInvariant, PTL

\* The builder, partial writes, partial reads and the parser are a channel of whole
\* packets: every step of theirs is a packet sent, a packet delivered, unchanged and
\* in order, or nothing at all. A packet that is given up in the middle never shows.
THEOREM FramingIsAChannel ==
  ASSUME GivesUp
  PROVE  FramingSpec => Channel!Spec
<1>1. FramingInit => Channel!Init
  BY DEF FramingInit, Init, ClientInit, Channel!Init
<1>2. FramingInv /\ [FramingNext]_allVars => [Channel!Next]_<<sent, got>>
  BY StepKeeps
<1>3. QED BY <1>1, <1>2, FramingInvariant, PTL DEF FramingSpec, Channel!Spec
=============================================================================
