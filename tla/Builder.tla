------------------------------ MODULE Builder ------------------------------
(***************************************************************************)
(* The packet builder (src/src/builder.c) on top of its growable buffer    *)
(* (src/src/buffer.c), as begin_command_phase (src/src/client.c) drives    *)
(* them: a packet is opened, written by any mix of write_uint8 and         *)
(* write_buffer calls, and finalized; a call that fails abandons it.       *)
(*                                                                         *)
(* The bytes of the buffer are kept as the list of fragments they make up, *)
(* each with the header fields stored in front of it; builder->header_offset*)
(* is the header of the last one. Loops are stepped one iteration at a     *)
(* time: the builder is used by one thread, nothing can come in between.   *)
(***************************************************************************)
EXTENDS Integers, Sequences

CONSTANTS
  Byte,      \* what a payload byte can be
  Inputs,    \* the buffers a caller passes to write_buffer
  Seqs,      \* the sequence numbers a caller passes to builder_init
  Limits,    \* the values of opts.max_allowed_packet; 0 means no limit
  MaxLen,    \* TRILOGY_MAX_PACKET_LEN, 0xffffff in the code
  SeqCount,    \* values of a uint8_t, 256 in the code
  SizeMax,   \* SIZE_MAX
  DefaultCap \* TRILOGY_DEFAULT_BUF_SIZE

ASSUME BuilderAssumption ==
  /\ MaxLen \in Nat \ {0}
  /\ SeqCount \in Nat \ {0}
  /\ SizeMax \in Nat
  /\ DefaultCap \in 1..SizeMax
  /\ Inputs \subseteq Seq(Byte)
  /\ Seqs \subseteq 0..(SeqCount - 1)
  /\ Limits \subseteq 0..SizeMax

VARIABLES
  pc,                \* where the caller and the builder are, one of PCs
  rc,                \* what the last call returned
  frags,             \* the fragments in the buffer
  len, cap,          \* buffer->len and buffer->cap
  alloc,             \* buffer->buff is not NULL
  seq,               \* builder->seq
  fragment_length,
  packet_length,
  packet_max_length,
  todo,              \* bytes the running write_buffer has still to copy
  first,             \* history: the sequence number the packet was opened with
  written            \* history: the payload bytes accepted so far

bufVars == <<len, cap, alloc>>
builderVars == <<seq, fragment_length, packet_length, packet_max_length>>
vars == <<pc, rc, frags, bufVars, builderVars, todo, first, written>>

\* "uninit": no buffer yet; "closed": no packet; "open": between two writes;
\* "copy": inside write_buffer; "seam": a fragment is full and its continuation
\* header is due; "sealed": finalized; "failed": abandoned after an error.
PCs == {"uninit", "closed", "open", "copy", "seam", "sealed", "failed"}
Failures == {"MEM_ERROR", "TYPE_OVERFLOW", "SYSERR", "MAX_PACKET_EXCEEDED"}
Fragment == [len : 0..MaxLen, seq : 0..(SeqCount - 1), data : Seq(Byte)]

----------------------------------------------------------------------------
(* buffer.c *)

\* The capacities reached from c by doubling, none above SIZE_MAX.
Doublings(c) == {d \in c..SizeMax : \E k \in 0..d : d = c * 2^k}

\* Expand if it looked at the new bytes alone.
ExpandForgetsLen(l, needed) ==
  IF needed <= cap THEN {[rc |-> "OK", cap |-> cap]} ELSE {[rc |-> "SYSERR", cap |-> cap]}

\* What trilogy_buffer_expand can do when the buffer holds l bytes: the return
\* code and the capacity it leaves. Only realloc can fail at will.
Expand(l, needed) ==
  LET enough == {d \in Doublings(cap) : d >= l + needed}
      least  == {d \in enough : \A e \in enough : d <= e}
  IN  IF l + needed <= cap THEN {[rc |-> "OK", cap |-> cap]}
      ELSE IF ~alloc THEN {[rc |-> "MEM_ERROR", cap |-> cap]}
      ELSE IF enough = {} THEN {[rc |-> "TYPE_OVERFLOW", cap |-> cap]}
      ELSE {[rc |-> "OK", cap |-> d] : d \in least} \cup {[rc |-> "SYSERR", cap |-> cap]}

Fail(code) == pc' = "failed" /\ rc' = code

\* trilogy_buffer_init. When malloc fails the capacity is set all the same and
\* the caller (trilogy_init) hands the error on: there is nothing to use yet.
BufferInit ==
  /\ pc = "uninit" \/ (pc = "closed" /\ ~alloc)
  /\ len' = 0 /\ cap' = DefaultCap
  /\ \/ alloc' = TRUE /\ rc' = "OK" /\ pc' = "closed"
     \/ alloc' = FALSE /\ rc' = "SYSERR" /\ pc' = "uninit"
  /\ UNCHANGED <<frags, builderVars, todo, first, written>>

\* trilogy_buffer_free, between packets. It does nothing to a NULL buffer.
BufferFree ==
  /\ alloc /\ pc \in {"closed", "sealed", "failed"}
  /\ alloc' = FALSE /\ len' = 0 /\ cap' = 0
  /\ pc' = "closed" /\ frags' = <<>>
  /\ UNCHANGED <<rc, builderVars, todo, first, written>>

----------------------------------------------------------------------------
(* builder.c *)

NextSeqUnwrapped(s) == s + 1

\* seq++ on a uint8_t
NextSeq(s) == (s + 1) % SeqCount

NewHeaderZero(s) == [len |-> 0, seq |-> 0, data |-> <<>>]
NewHeader(s) == [len |-> 0, seq |-> s, data |-> <<>>]

\* begin_command_phase: trilogy_builder_init, which drops the buffer's old
\* contents and writes a first header, then the packet limit if one is set.
\* If the header does not fit, the limit is never set.
BeginPacket(s, limit) ==
  /\ pc \in {"closed", "sealed", "failed"}
  /\ packet_length' = 0 /\ fragment_length' = 0
  /\ first' = s /\ written' = <<>> /\ todo' = <<>>
  /\ \E e \in Expand(0, 4) :
       /\ cap' = e.cap /\ UNCHANGED alloc
       /\ IF e.rc = "OK"
          THEN /\ pc' = "open" /\ rc' = "OK"
               /\ len' = 4 /\ frags' = <<NewHeader(s)>>
               /\ seq' = NextSeq(s)
               /\ packet_max_length' = IF limit > 0 THEN limit ELSE SizeMax
          ELSE /\ Fail(e.rc)
               /\ len' = 0 /\ frags' = <<>> /\ seq' = s
               /\ packet_max_length' = SizeMax

\* Extended if it put the bytes in front of those that are there.
ExtendedFromStart(d) == [frags EXCEPT ![Len(frags)].data = d \o @]

\* The current fragment with the bytes d after those it has.
Extended(d) == [frags EXCEPT ![Len(frags)].data = @ \o d]

\* A fragment of n bytes takes no more.
IsFullLate(n) == n > MaxLen
IsFull(n) == n = MaxLen

\* Append d to the current fragment; the next step is a continuation header
\* when that fills the fragment, and the caller's business otherwise.
AppendData(d, e) ==
  /\ IF e.rc # "OK" THEN Fail(e.rc) /\ UNCHANGED <<frags, len, fragment_length, packet_length, written>>
     ELSE /\ pc' = IF IsFull(fragment_length + Len(d)) THEN "seam" ELSE "open"
          /\ rc' = "OK"
          /\ frags' = Extended(d)
          /\ len' = len + Len(d)
          /\ fragment_length' = fragment_length + Len(d)
          /\ packet_length' = packet_length + Len(d)
          /\ written' = written \o d
  /\ cap' = e.cap
  /\ UNCHANGED <<alloc, seq, packet_max_length, first>>

\* trilogy_builder_write_uint8
WriteUint8(b) ==
  /\ pc = "open"
  /\ UNCHANGED todo
  /\ IF packet_length >= packet_max_length - 1
     THEN Fail("MAX_PACKET_EXCEEDED") /\ UNCHANGED <<frags, bufVars, builderVars, first, written>>
     ELSE \E e \in Expand(len, 1) : AppendData(<<b>>, e)

\* WriteBuffer if it let the packet reach the limit.
WriteBufferOffByOne(d) ==
  /\ pc = "open"
  /\ IF packet_length + Len(d) > packet_max_length
     THEN Fail("MAX_PACKET_EXCEEDED") /\ UNCHANGED todo
     ELSE pc' = "copy" /\ todo' = d /\ UNCHANGED rc
  /\ UNCHANGED <<frags, bufVars, builderVars, first, written>>

\* trilogy_builder_write_buffer up to its copies: the limit is checked once,
\* for the whole buffer.
WriteBuffer(d) ==
  /\ pc = "open"
  /\ IF packet_length + Len(d) >= packet_max_length
     THEN Fail("MAX_PACKET_EXCEEDED") /\ UNCHANGED todo
     ELSE pc' = "copy" /\ todo' = d /\ UNCHANGED rc
  /\ UNCHANGED <<frags, bufVars, builderVars, first, written>>

\* One copy of write_buffer: what still fits into the current fragment.
CopyChunk ==
  /\ pc = "copy"
  /\ LET room == MaxLen - fragment_length
         n    == IF Len(todo) >= room THEN room ELSE Len(todo)
     IN  /\ \E e \in Expand(len, n) : AppendData(SubSeq(todo, 1, n), e)
         /\ todo' = SubSeq(todo, n + 1, Len(todo))

\* write_continuation_header: the full fragment's length becomes 0xffffff and a
\* new header follows it. The call that filled the fragment then goes on.
ContinuationHeader ==
  /\ pc = "seam"
  /\ \E e \in Expand(len, 4) :
       LET full == [frags EXCEPT ![Len(frags)].len = MaxLen]
       IN  /\ cap' = e.cap
           /\ IF e.rc = "OK"
              THEN /\ pc' = IF todo = <<>> THEN "open" ELSE "copy"
                   /\ rc' = "OK"
                   /\ frags' = Append(full, NewHeader(seq))
                   /\ len' = len + 4
                   /\ fragment_length' = 0
                   /\ seq' = NextSeq(seq)
              ELSE Fail(e.rc) /\ frags' = full /\ UNCHANGED <<len, fragment_length, seq>>
  /\ UNCHANGED <<alloc, packet_length, packet_max_length, todo, first, written>>

\* Finalize if it left the header alone.
FinalizeNoLength ==
  /\ pc = "open" /\ pc' = "sealed"
  /\ UNCHANGED <<frags, rc, bufVars, builderVars, todo, first, written>>

\* trilogy_builder_finalize: the length of the last fragment goes into its header.
Finalize ==
  /\ pc = "open"
  /\ pc' = "sealed"
  /\ frags' = [frags EXCEPT ![Len(frags)].len = fragment_length]
  /\ UNCHANGED <<rc, bufVars, builderVars, todo, first, written>>

----------------------------------------------------------------------------
Init ==
  /\ pc = "uninit" /\ rc = "OK"
  /\ frags = <<>> /\ len = 0 /\ cap = 0 /\ alloc = FALSE
  /\ seq = 0 /\ fragment_length = 0 /\ packet_length = 0 /\ packet_max_length = SizeMax
  /\ todo = <<>> /\ first = 0 /\ written = <<>>

Next ==
  \/ BufferInit \/ BufferFree
  \/ \E s \in Seqs, limit \in Limits : BeginPacket(s, limit)
  \/ \E b \in Byte : WriteUint8(b)
  \/ \E d \in Inputs : WriteBuffer(d)
  \/ CopyChunk \/ ContinuationHeader \/ Finalize

Spec == Init /\ [][Next]_vars

----------------------------------------------------------------------------
(* Properties *)

TypeOK ==
  /\ pc \in PCs /\ rc \in Failures \cup {"OK"}
  /\ frags \in Seq(Fragment)
  /\ len \in Nat /\ cap \in 0..SizeMax /\ alloc \in BOOLEAN
  /\ seq \in 0..(SeqCount - 1) /\ first \in 0..(SeqCount - 1)
  /\ fragment_length \in 0..MaxLen
  /\ packet_length \in Nat /\ packet_max_length \in 1..SizeMax
  /\ todo \in Seq(Byte) /\ written \in Seq(Byte)

\* A packet is in the buffer: opened, and not given back by BufferFree.
HasPacket == frags # <<>>

\* Every byte the builder stores lands inside the allocated buffer, headers
\* included, whatever mix of writes and failures came before: the buffer is
\* never written when it is NULL (buffer.c:27) and len never passes cap.
InBounds ==
  /\ len <= cap
  /\ len > 0 => alloc
  /\ HasPacket => len = 4 * Len(frags) + packet_length

\* Fragments are cut exactly at TRILOGY_MAX_PACKET_LEN: every fragment that has
\* a successor is full, and the last one is short of the maximum except in the
\* middle of a write that is about to open the next (builder.c:75, 203).
FragmentsCut ==
  HasPacket =>
    /\ \A i \in 1..(Len(frags) - 1) : Len(frags[i].data) = MaxLen /\ frags[i].len = MaxLen
    /\ Len(frags[Len(frags)].data) = fragment_length
    /\ pc \in {"open", "copy", "sealed"} => fragment_length < MaxLen
    /\ pc = "seam" => fragment_length = MaxLen

\* The fragments are numbered consecutively from the number the packet was
\* opened with, modulo the width of the sequence byte, and builder->seq is the
\* number the reply has to carry: query_send hands it to the parser (client.c:613).
Numbered ==
  HasPacket =>
    /\ frags[1].seq = first
    /\ \A i \in 1..(Len(frags) - 1) : frags[i + 1].seq = NextSeq(frags[i].seq)
    /\ seq = NextSeq(frags[Len(frags)].seq)

\* Where the i-th fragment starts in the payload.
Offset(i) == (i - 1) * MaxLen

\* No payload byte is lost, duplicated or moved by the cutting: the j-th byte of
\* the i-th fragment is the byte written at that distance from the start.
PayloadIntact ==
  HasPacket =>
    /\ Len(written) = packet_length
    /\ \A i \in 1..Len(frags) : \A j \in 1..Len(frags[i].data) :
         frags[i].data[j] = written[Offset(i) + j]

\* A finalized packet reads back: every header tells the length of its data, and
\* a fragment says "more follows" (0xffffff) exactly when one follows.
SealedReadsBack ==
  pc = "sealed" =>
    \A i \in 1..Len(frags) :
      /\ frags[i].len = Len(frags[i].data)
      /\ (frags[i].len = MaxLen) <=> (i < Len(frags))

\* A packet never grows to max_allowed_packet, however it is put together out of
\* single bytes and buffers; what has been accepted but not copied counts.
UnderLimit ==
  pc \in {"open", "copy", "seam", "sealed"} => packet_length + Len(todo) < packet_max_length
============================================================================
