--------------------------- MODULE PacketChannel ---------------------------
(***************************************************************************)
(* What framing promises: a channel of whole packets. What one side hands  *)
(* to the write call is what the other side's trilogy_*_recv calls see, in *)
(* order, once each, never in part.                                        *)
(***************************************************************************)
EXTENDS Sequences, Naturals

CONSTANT Packet

VARIABLES sent, got

Init == sent = <<>> /\ got = <<>>

Send(p) == sent' = Append(sent, p) /\ UNCHANGED got

Deliver ==
  /\ Len(got) < Len(sent)
  /\ got' = Append(got, sent[Len(got) + 1])
  /\ UNCHANGED sent

Next == Deliver \/ \E p \in Packet : Send(p)

Spec == Init /\ [][Next]_<<sent, got>>

\* Nothing sent stays undelivered.
FairSpec == Spec /\ WF_<<sent, got>>(Deliver)
============================================================================
