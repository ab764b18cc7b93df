--------------------------- MODULE MCDescendants ---------------------------
(* The leader and two pids that pass from process to process. *)
EXTENDS Descendants, TLC

Symmetry == Permutations(Pid \ {Leader})
=============================================================================
