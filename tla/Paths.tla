------------------------------- MODULE Paths -------------------------------
(***************************************************************************)
(* The path algebra of internal/store/store.go.  A path is the sequence of *)
(* its segments, already normalised and folded (NormalizeScope, fold), so  *)
(* the code's string tests "equal, or a prefix up to a slash" are the      *)
(* prefix order on sequences.  The empty sequence stands for the whole     *)
(* repository, which NormalizeScope refuses, so no path is empty.          *)
(***************************************************************************)
EXTENDS Integers, SequencesExt

(* A claim over `scope` covers the path p: it is p or a directory above it. *)
Covers(scope, p) == IsPrefix(scope, p)

(* Two scopes overlap when either covers the other. *)
Overlap(s, t) == Covers(s, t) \/ Covers(t, s)

(* Everything under .buddy is coordination, not repository content. *)
BuddyDir == <<".buddy">>

(* The resource slots, of capacity one. *)
SlotPrefix == <<".buddy", "slot">>

(* The slot a run holds, named after its own slug. *)
SlotOf(slug) == Append(SlotPrefix, slug)

InBuddyDir(scope) == Covers(BuddyDir, scope)

OnSlots(scope) == Overlap(scope, SlotPrefix)
=============================================================================
