------------------------------- MODULE MCGate -------------------------------
(* A coordinator's run, an item and a lane over two nested paths.          *)
EXTENDS Gate, TLC

MCSlug == {"run", "item", "lane"}
Dir == <<"dir">>
File == <<"dir", "file">>
MCPath == {SlotOf("run"), Dir, File}

Ask(slug, scopes, shared, basedOn) ==
  [slug |-> slug, scopes |-> scopes, shared |-> shared, basedOn |-> basedOn]

MCRequest ==
  {Ask("run", {SlotOf("run")}, FALSE, NoSlug),
   Ask("item", {Dir}, FALSE, "run"),
   Ask("lane", {File}, FALSE, "run"),
   Ask("lane", {File}, TRUE, "run")}

Symmetry == Permutations(Session) \cup Permutations(ClaimId)
=============================================================================
