--------------------------- MODULE MCPacketParser ---------------------------
(***************************************************************************)
(* Model of PacketParser: length bytes are bits, so a fragment holds seven *)
(* bytes; the packets are empty, short, exactly one full fragment (which   *)
(* has an empty one after it), and one byte more than that.                *)
(***************************************************************************)
EXTENDS PacketParser

MCPackets == {[i \in 1..n |-> i % 3] : n \in {0, 2, 7, 8}}
============================================================================
