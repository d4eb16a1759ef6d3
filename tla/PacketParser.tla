---------------------------- MODULE PacketParser ----------------------------
(***************************************************************************)
(* The packet parser (src/src/packet_parser.c) with its callbacks and      *)
(* read_packet (src/src/client.c), fed by a byte stream.                   *)
(*                                                                         *)
(* The stream is cut into socket reads anywhere. One iteration of execute's*)
(* loop is one step; the parser has one thread, so the steps of one call   *)
(* only interleave with the peer, which cannot touch what they use.        *)
(* A length byte holds a digit of base Radix (256 in the code), so a       *)
(* fragment holds at most Radix^3 - 1 bytes (TRILOGY_MAX_PACKET_LEN).      *)
(***************************************************************************)
EXTENDS Integers, SequencesExt

CONSTANTS
  Radix,     \* values of a length byte, 256 in the code
  SeqCount,    \* values of the sequence byte, 256 in the code
  Packets,   \* the payloads the peer may send
  MaxSent,   \* bound: packets the peer sends
  MaxWire,   \* bound: bytes in flight when it has sent one
  RetryOn,   \* error codes after which the caller still calls read_packet
  Faults     \* what may go wrong, a subset of FaultKinds

MaxLen == Radix * Radix * Radix - 1
FaultKinds == {"nomem", "badseq", "cut"}

ASSUME ParserAssumption ==
  /\ Radix \in Nat /\ Radix > 1
  /\ SeqCount \in Nat /\ SeqCount > 1
  /\ Packets \subseteq Seq(Nat)
  /\ MaxSent \in Nat /\ MaxWire \in Nat
  /\ Faults \subseteq FaultKinds

VARIABLES
  state, fragment, deferred_end_callback, sequence_number, bytes_remaining,
  packet,    \* contents of packet_buffer
  recv,      \* recv_buff from recv_buff_pos on
  pc,        \* "idle": between calls of read_packet; "exec": in execute's loop
  rc,        \* what the last read_packet returned
  stream,    \* bytes written by the peer and not yet read from the socket
  eof,       \* the peer has closed its side
  peer_seq,  \* the number of the peer's next fragment
  broken,    \* history: a fragment with a wrong number has been written
  sent, got  \* history: packets the peer has written, packets returned as OK

parserVars == <<state, fragment, deferred_end_callback, sequence_number, bytes_remaining, packet>>
clientVars == <<parserVars, recv, pc, rc, got>>
peerVars == <<eof, peer_seq, broken, sent>>
vars == <<clientVars, stream, peerVars>>

States == {"S_LEN_0", "S_LEN_1", "S_LEN_2", "S_SEQ", "S_PAYLOAD"}
Errors == {"SYSERR", "INVALID_SEQUENCE_ID", "CLOSED_CONNECTION"}

----------------------------------------------------------------------------
(* The wire *)

NextSeqUnwrapped(s) == s + 1
NextSeq(s) == (s + 1) % SeqCount

\* A fragment on the wire: three length bytes, low one first, its number, data.
FragmentBytes(n, s, data) == <<n % Radix, (n \div Radix) % Radix, n \div (Radix * Radix), s>> \o data

\* The peer's framing: full fragments and then a shorter one, empty if need be.
NumFragments(p) == Len(p) \div MaxLen + 1
PacketBytes(p, s) ==
  LET Cut(i) == SubSeq(p, (i - 1) * MaxLen + 1, IF i * MaxLen < Len(p) THEN i * MaxLen ELSE Len(p))
  IN  FlattenSeq([i \in 1..NumFragments(p) |->
                    FragmentBytes(Len(Cut(i)), (s + i - 1) % SeqCount, Cut(i))])

----------------------------------------------------------------------------
(* The peer *)

\* The peer writes a packet.
PeerSend(p) ==
  /\ ~eof /\ ~broken /\ Len(sent) < MaxSent
  /\ stream' = stream \o PacketBytes(p, peer_seq)
  /\ Len(stream') + Len(recv) <= MaxWire
  /\ peer_seq' = (peer_seq + NumFragments(p)) % SeqCount
  /\ sent' = Append(sent, p)
  /\ UNCHANGED <<eof, broken, clientVars>>

\* It skips a number: a packet got lost on its side, or belongs to another reply.
PeerSkips(p) ==
  /\ "badseq" \in Faults /\ ~eof /\ ~broken
  /\ stream' = stream \o PacketBytes(p, NextSeq(peer_seq))
  /\ Len(stream') + Len(recv) <= MaxWire
  /\ broken' = TRUE
  /\ UNCHANGED <<eof, peer_seq, sent, clientVars>>

\* The connection goes down with any part of the unread bytes still to arrive.
PeerCut(n) ==
  /\ "cut" \in Faults /\ ~eof
  /\ eof' = TRUE /\ stream' = SubSeq(stream, 1, n)
  /\ UNCHANGED <<peer_seq, broken, sent, clientVars>>

----------------------------------------------------------------------------
(* read_packet and trilogy_packet_parser_execute *)

Return(code) == pc' = "idle" /\ rc' = code

\* rc > 0 from execute: on_packet_end paused the parser, so read_packet is OK.
PacketEnd == Return("OK") /\ got' = Append(got, packet')

\* The call: a socket read if recv_buff is used up, then the deferred end
\* callback, which always pauses, before any byte is looked at.
ReadPacket ==
  /\ pc = "idle" /\ (rc \in Errors => rc \in RetryOn)
  /\ IF recv # <<>> THEN UNCHANGED <<recv, stream>>
     ELSE \E n \in 1..Len(stream) :
            recv' = SubSeq(stream, 1, n) /\ stream' = SubSeq(stream, n + 1, Len(stream))
  /\ packet' = packet
  /\ IF deferred_end_callback THEN PacketEnd ELSE pc' = "exec" /\ UNCHANGED <<rc, got>>
  /\ deferred_end_callback' = FALSE
  /\ UNCHANGED <<state, fragment, sequence_number, bytes_remaining, peerVars>>

\* The call finds nothing to read: the socket would block, or has ended.
ReadNothing ==
  /\ pc = "idle" /\ (rc \in Errors => rc \in RetryOn)
  /\ recv = <<>> /\ stream = <<>>
  /\ rc' = IF eof THEN "CLOSED_CONNECTION" ELSE "AGAIN"
  /\ UNCHANGED <<parserVars, recv, pc, got, stream, peerVars>>

\* Out of bytes without a complete packet.
Exhausted ==
  /\ pc = "exec" /\ recv = <<>> /\ Return("AGAIN")
  /\ UNCHANGED <<parserVars, recv, got, stream, peerVars>>

\* An iteration in state s that consumes one byte.
Consume(s) ==
  /\ pc = "exec" /\ state = s /\ recv # <<>>
  /\ recv' = Tail(recv)
  /\ UNCHANGED <<deferred_end_callback, stream, peerVars>>

Len0 ==
  /\ Consume("S_LEN_0")
  /\ bytes_remaining' = Head(recv) /\ state' = "S_LEN_1"
  /\ UNCHANGED <<fragment, sequence_number, packet, pc, rc, got>>

Len1 ==
  /\ Consume("S_LEN_1")
  /\ bytes_remaining' = bytes_remaining + Radix * Head(recv) /\ state' = "S_LEN_2"
  /\ UNCHANGED <<fragment, sequence_number, packet, pc, rc, got>>

\* Len2 if on_packet_begin were called for every fragment.
Len2AlwaysBegins ==
  /\ Consume("S_LEN_2")
  /\ bytes_remaining' = bytes_remaining + Radix * Radix * Head(recv)
  /\ state' = "S_SEQ"
  /\ fragment' = (bytes_remaining' = MaxLen)
  /\ packet' = <<>>
  /\ UNCHANGED <<sequence_number, pc, rc, got>>

\* A packet begins, and packet_buffer is emptied, unless the last fragment was full.
Len2 ==
  /\ Consume("S_LEN_2")
  /\ bytes_remaining' = bytes_remaining + Radix * Radix * Head(recv)
  /\ state' = "S_SEQ"
  /\ fragment' = (bytes_remaining' = MaxLen)
  /\ packet' = IF fragment THEN packet ELSE <<>>
  /\ UNCHANGED <<sequence_number, pc, rc, got>>

\* EndOfPayload if a full fragment ended its packet, and if none did.
EndOfPayloadAlways == state' = "S_LEN_0" /\ PacketEnd
EndOfPayloadGoesOn == state' = "S_LEN_0" /\ UNCHANGED <<pc, rc, got>>

\* end_of_payload: the packet is complete if this fragment was not full.
EndOfPayload ==
  /\ state' = "S_LEN_0"
  /\ IF fragment THEN UNCHANGED <<pc, rc, got>> ELSE PacketEnd

\* SeqByte if an empty payload were waited for.
SeqByteNoEmpty ==
  /\ Consume("S_SEQ")
  /\ Head(recv) = sequence_number
  /\ sequence_number' = NextSeq(sequence_number)
  /\ state' = "S_PAYLOAD"
  /\ UNCHANGED <<packet, pc, rc, got, fragment, bytes_remaining>>

\* The number is the expected one; an empty fragment ends here.
SeqByte ==
  /\ Consume("S_SEQ")
  /\ Head(recv) = sequence_number
  /\ sequence_number' = NextSeq(sequence_number)
  /\ packet' = packet
  /\ IF bytes_remaining = 0 THEN EndOfPayload ELSE state' = "S_PAYLOAD" /\ UNCHANGED <<pc, rc, got>>
  /\ UNCHANGED <<fragment, bytes_remaining>>

\* WrongSeq if the byte were consumed with the error.
WrongSeqConsumes ==
  /\ Consume("S_SEQ")
  /\ Head(recv) # sequence_number
  /\ Return("INVALID_SEQUENCE_ID")
  /\ state' = "S_PAYLOAD"
  /\ UNCHANGED <<fragment, sequence_number, bytes_remaining, packet, got>>

\* A wrong number is reported and stays in recv_buff: nothing behind it is read.
WrongSeq ==
  /\ pc = "exec" /\ state = "S_SEQ" /\ recv # <<>>
  /\ Head(recv) # sequence_number
  /\ Return("INVALID_SEQUENCE_ID")
  /\ UNCHANGED <<parserVars, recv, got, stream, peerVars>>

\* A chunk of payload: what recv_buff has of it. on_packet_data may fail to grow
\* packet_buffer; the bytes are consumed all the same.
Payload ==
  /\ pc = "exec" /\ state = "S_PAYLOAD" /\ recv # <<>>
  /\ LET n == IF Len(recv) > bytes_remaining THEN bytes_remaining ELSE Len(recv)
     IN  /\ recv' = SubSeq(recv, n + 1, Len(recv))
         /\ bytes_remaining' = bytes_remaining - n
         /\ \/ /\ packet' = packet \o SubSeq(recv, 1, n)
               /\ IF bytes_remaining' = 0 THEN EndOfPayload ELSE UNCHANGED <<state, pc, rc, got>>
               /\ UNCHANGED deferred_end_callback
            \/ /\ "nomem" \in Faults
               /\ deferred_end_callback' = (deferred_end_callback \/ bytes_remaining' = 0)
               /\ Return("SYSERR")
               /\ UNCHANGED <<state, packet, got>>
  /\ UNCHANGED <<fragment, sequence_number, stream, peerVars>>

----------------------------------------------------------------------------
\* trilogy_packet_parser_init, and the number a command or the handshake starts
\* the reply with. bytes_remaining is not set: it is written before it is read.
ClientInit ==
  /\ state = "S_LEN_0" /\ fragment = FALSE /\ deferred_end_callback = FALSE
  /\ sequence_number \in 0..(SeqCount - 1) /\ bytes_remaining = 0
  /\ packet = <<>> /\ recv = <<>> /\ pc = "idle" /\ rc = "AGAIN" /\ got = <<>>

Init ==
  /\ ClientInit
  /\ stream = <<>> /\ eof = FALSE /\ peer_seq = sequence_number /\ broken = FALSE /\ sent = <<>>

Execute == Exhausted \/ Len0 \/ Len1 \/ Len2 \/ SeqByte \/ WrongSeq \/ Payload

Next ==
  \/ \E p \in Packets : PeerSend(p) \/ PeerSkips(p)
  \/ \E n \in 0..Len(stream) : PeerCut(n)
  \/ ReadPacket \/ ReadNothing \/ Execute

\* The caller waits for the socket and calls again: trilogy_sock_wait_read in
\* blocking.c, rb_trilogy's wait in cext.c.
Spec == Init /\ [][Next]_vars /\ WF_vars(ReadPacket \/ ReadNothing) /\ WF_vars(Execute)

----------------------------------------------------------------------------
(* Properties *)

TypeOK ==
  /\ state \in States /\ fragment \in BOOLEAN /\ deferred_end_callback \in BOOLEAN
  /\ sequence_number \in 0..(SeqCount - 1) /\ peer_seq \in 0..(SeqCount - 1)
  /\ bytes_remaining \in 0..MaxLen
  /\ packet \in Seq(Nat) /\ recv \in Seq(Nat) /\ stream \in Seq(Nat)
  /\ pc \in {"idle", "exec"} /\ rc \in Errors \cup {"OK", "AGAIN"}
  /\ eof \in BOOLEAN /\ broken \in BOOLEAN
  /\ sent \in Seq(Packets) /\ got \in Seq(Seq(Nat))

\* read_packet returns OK only for a packet the peer has sent, whole and in
\* order, however the stream is cut into reads, and whatever fails in between:
\* "on_packet_end paused the parser, meaning we read a complete packet"
\* (client.c:102).
CompletePackets == IsPrefix(got, sent)

\* Nothing is swallowed: when all bytes are consumed and the parser stands at a
\* packet boundary, every packet sent so far has been returned, none is half in
\* the buffer, and the parser expects the number the peer will use next.
NothingSwallowed ==
  (stream = <<>> /\ recv = <<>> /\ pc = "idle" /\ rc \notin {"SYSERR"} /\ ~eof /\ ~broken) =>
     /\ state = "S_LEN_0" /\ ~fragment
     /\ got = sent /\ sequence_number = peer_seq

\* After a fragment with a wrong number nothing is delivered any more, even if
\* the caller goes on reading: the parser stops in front of the byte.
StopsAtWrongSeq == [][rc = "INVALID_SEQUENCE_ID" => got' = got /\ state' = "S_SEQ"]_vars

\* A caller that keeps reading gets every packet, or the error that says why not.
EveryPacketArrives ==
  \A n \in 1..MaxSent : Len(sent) >= n ~> Len(got) >= n \/ rc \in Errors
============================================================================
