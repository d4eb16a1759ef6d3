----------------------------- MODULE MCFraming -----------------------------
(***************************************************************************)
(* Model of Framing: packets of one byte, a short of a full fragment, just *)
(* a full fragment, and one byte more; the buffer grows twice on the way.  *)
(***************************************************************************)
EXTENDS Framing

MCPayloads == {[i \in 1..n |-> i % 2] : n \in {0, 6, 7}}
============================================================================
