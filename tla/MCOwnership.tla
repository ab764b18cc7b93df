---------------------------- MODULE MCOwnership ----------------------------
(* Two adapters, each opening as often as it likes, over two launches. *)
EXTENDS Ownership, TLC

Symmetry == Permutations(Adapter) \cup Permutations(Child)
=============================================================================
