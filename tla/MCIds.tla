------------------------------- MODULE MCIds -------------------------------
(* Two takers of one space on a machine whose largest integer is small. *)
EXTENDS Ids
=============================================================================
