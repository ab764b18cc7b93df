----------------------------- MODULE IdRegister -----------------------------
(***************************************************************************)
(* What the identifier register promises (internal/store/ids.go): within a *)
(* space an id is handed out once, to one taker, and stays handed out.     *)
(***************************************************************************)
CONSTANTS
  Space,  \* the named number lines
  Id,     \* the ids of a space
  Taker   \* who takes ids

VARIABLE issued  \* the triples <<space, id, taker>> handed out

IssuedIn(sp) == {n \in Id : \E t \in Taker : <<sp, n, t>> \in issued}

Init == issued = {}

(* Some ids nobody has, to one taker. *)
Issue(sp, t, ids) ==
  /\ ids # {}
  /\ ids \cap IssuedIn(sp) = {}
  /\ issued' = issued \cup {<<sp, n, t>> : n \in ids}

Next == \E sp \in Space, t \in Taker, ids \in SUBSET Id : Issue(sp, t, ids)

Spec == Init /\ [][Next]_issued
=============================================================================
