----------------------------- MODULE MCBinding -----------------------------
(* Instances of Binding.  Objects are interchangeable.                         *)
EXTENDS Binding, TLC

Symmetry == Permutations(Objects)
=============================================================================
