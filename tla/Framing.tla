------------------------------ MODULE Framing ------------------------------
(***************************************************************************)
(* Both ends of a connection's framing put together: a sender that builds  *)
(* packets with Builder and writes them out with begin_write and           *)
(* trilogy_flush_writes (src/src/client.c), any number of bytes at a time, *)
(* and a reader that parses the stream with PacketParser.                  *)
(*                                                                         *)
(* The packets are a command byte and a payload, as trilogy_build_query_   *)
(* packet writes them, and are numbered on from one another, as in the     *)
(* authentication exchange, where each packet takes the connection's       *)
(* running number.                                                         *)
(***************************************************************************)
EXTENDS PacketParser

CONSTANTS
  Command,     \* the command byte
  Payloads,    \* what may follow it
  SizeMax,     \* SIZE_MAX
  DefaultCap   \* TRILOGY_DEFAULT_BUF_SIZE

\* A command may have nothing behind its byte, as COM_PING.
ASSUME FramingAssumption ==
  /\ Command \in 0..(Radix - 1)
  /\ Payloads \subseteq Seq(0..(Radix - 1)) /\ <<>> \in Payloads
  /\ SizeMax \in Nat /\ DefaultCap \in 1..SizeMax

VARIABLES
  bpc, brc, frags, len, cap, alloc, seq, fragment_length,
  packet_length, packet_max_length, todo, first, written,
  packet_buffer_written  \* bytes of the buffer already written to the socket

senderVars == <<bpc, brc, frags, len, cap, alloc, seq, fragment_length,
                packet_length, packet_max_length, todo, first, written>>
allVars == <<vars, senderVars, packet_buffer_written>>

B == INSTANCE Builder WITH
       pc <- bpc, rc <- brc, Byte <- 0..(Radix - 1), Inputs <- Payloads,
       Seqs <- 0..(SeqCount - 1), Limits <- {0}

\* The contents of packet_buffer.
Wire == FlattenSeq([i \in 1..Len(frags) |-> FragmentBytes(frags[i].len, frags[i].seq, frags[i].data)])

\* A packet is in the buffer, and not all of it is written: flush_writes is due.
Flushing == packet_buffer_written < Len(Wire) /\ bpc = "sealed"

----------------------------------------------------------------------------
\* begin_command_phase and trilogy_build_query_packet, up to trilogy_builder_finalize.
Build ==
  /\ \/ ~Flushing /\ Len(sent) < MaxSent /\ B!BeginPacket(peer_seq, 0)
     \/ written = <<>> /\ B!WriteUint8(Command)
     \/ Len(written) = 1 /\ \E d \in Payloads : B!WriteBuffer(d)
     \/ B!CopyChunk
     \/ B!ContinuationHeader
     \/ written # <<>> /\ B!Finalize
  /\ packet_buffer_written' = IF bpc' = "sealed" THEN 0 ELSE packet_buffer_written
  /\ IF bpc' = "sealed" THEN sent' = Append(sent, written) /\ peer_seq' = seq
     ELSE UNCHANGED <<sent, peer_seq>>
  /\ UNCHANGED <<clientVars, stream, eof, broken>>

\* FlushWrites if a partial write were taken for the whole.
FlushWritesOnce(n) ==
  /\ Flushing
  /\ stream' = stream \o SubSeq(Wire, packet_buffer_written + 1, packet_buffer_written + n)
  /\ packet_buffer_written' = Len(Wire)
  /\ UNCHANGED <<clientVars, peerVars, senderVars>>

\* trilogy_flush_writes: the socket takes n bytes. When it takes none the call
\* returns TRILOGY_AGAIN and nothing has changed.
FlushWrites(n) ==
  /\ Flushing
  /\ stream' = stream \o SubSeq(Wire, packet_buffer_written + 1, packet_buffer_written + n)
  /\ packet_buffer_written' = packet_buffer_written + n
  /\ UNCHANGED <<clientVars, peerVars, senderVars>>

Flush == \E n \in 1..(Len(Wire) - packet_buffer_written) : FlushWrites(n)

Read == (ReadPacket \/ ReadNothing \/ Execute) /\ UNCHANGED <<senderVars, packet_buffer_written>>

----------------------------------------------------------------------------
FramingInit ==
  /\ Init
  /\ bpc = "closed" /\ brc = "OK" /\ frags = <<>> /\ len = 0 /\ cap = DefaultCap /\ alloc = TRUE
  /\ seq = 0 /\ fragment_length = 0 /\ packet_length = 0 /\ packet_max_length = SizeMax
  /\ todo = <<>> /\ first = 0 /\ written = <<>> /\ packet_buffer_written = 0

FramingNext == Build \/ Flush \/ Read

\* The sender pumps flush_writes and the reader read_packet until they are
\* through (blocking.c: flush_full and the loops around the recv calls). Nothing
\* obliges the sender to build another packet.
FramingSpec ==
  /\ FramingInit /\ [][FramingNext]_allVars
  /\ WF_allVars(Flush)
  /\ WF_allVars(ReadPacket /\ UNCHANGED <<senderVars, packet_buffer_written>>)
  /\ WF_allVars(Execute /\ UNCHANGED <<senderVars, packet_buffer_written>>)

----------------------------------------------------------------------------
Channel == INSTANCE PacketChannel WITH Packet <- {<<Command>> \o d : d \in Payloads}

\* Builder, partial writes, partial reads and parser together are a channel of
\* whole packets: what is built is delivered, unchanged, in order, once, and
\* what was abandoned because the buffer could not grow never reaches the wire.
ImplementsChannel == Channel!FairSpec

\* Both ends count alike: once a packet has been delivered the reader expects
\* the number the sender will use, whatever the packet's number of fragments,
\* and no byte of it is left over to be taken for the next packet's header.
NumbersAgree ==
  (Len(got) = Len(sent)) =>
    /\ sequence_number = peer_seq
    /\ recv = <<>> /\ stream = <<>> /\ state = "S_LEN_0" /\ ~Flushing
============================================================================
