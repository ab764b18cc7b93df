---------------------------- MODULE MCController ----------------------------
(* Two wakes and one approval id, over three adapters. *)
EXTENDS Controller, TLC

Symmetry == Permutations(Wake) \cup Permutations(PromptId)
=============================================================================
