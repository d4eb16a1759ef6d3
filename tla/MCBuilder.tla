----------------------------- MODULE MCBuilder -----------------------------
(***************************************************************************)
(* Model of Builder: a fragment holds three bytes, sequence numbers wrap   *)
(* at four, and the buffer starts with room for a header and one byte, so  *)
(* that a packet of a few bytes meets every seam, wrap and reallocation.   *)
(***************************************************************************)
EXTENDS Builder

\* Position-numbered bytes, so that a byte out of place is visible.
MCInputs == {[i \in 1..n |-> i % 2] : n \in {0, 1, 2, 3, 6, 7}}
MCLimits == {0, 1, 6, 7, 8}
============================================================================
