------------------------------ MODULE MCWaits ------------------------------
(* One waiter and one holder of the claim it waits for. *)
EXTENDS Waits, TLC

MCSlug == {"item"}
Dir == <<"dir">>
MCPath == {Dir}
MCRequest ==
  {[slug |-> "item", scopes |-> {Dir}, shared |-> FALSE, basedOn |-> NoSlug]}

Symmetry == Permutations(ClaimId)
=============================================================================
