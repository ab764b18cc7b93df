------------------------------ MODULE MCLedger ------------------------------
(* Sessions that end, return under new registrations and go silent, around *)
(* a run and an item that may be parked in it.                             *)
EXTENDS Ledger, TLC

MCSlug == {"run", "item"}
Dir == <<"dir">>
MCPath == {SlotOf("run"), Dir}

Ask(slug, scopes, basedOn) ==
  [slug |-> slug, scopes |-> scopes, shared |-> FALSE, basedOn |-> basedOn]

MCRequest ==
  {Ask("run", {SlotOf("run")}, NoSlug),
   Ask("item", {Dir}, NoSlug),
   Ask("item", {SlotOf("run")}, NoSlug)}

Symmetry == Permutations(Session) \cup Permutations(ClaimId)
=============================================================================
