-------------------------------- MODULE Gate --------------------------------
(***************************************************************************)
(* The gate of internal/store: OwnerOf, which the hooks ask before a       *)
(* session's tool call writes a path.  It is a read of the claims in one   *)
(* statement, so it sees one state of the ledger.                          *)
(***************************************************************************)
EXTENDS Ledger

(* The open claims session s holds over p. *)
MineAt(s, p) == {c \in OpenIn(claims) : claims[c].owner = s /\ CoversPath(c, p)}

(* The runs those claims declare. *)
DeclaredAt(s, p) ==
  {Declaration(Marks(claims, c)) : c \in MineAt(s, p)} \ {NoClaim}

(* Mutant: the gate asks in the shared role, which declares nothing. *)
DeclaringShared(run) ==
  [inRun |-> NoClaim, runOpen |-> FALSE, basedOn |-> run, shared |-> TRUE]

(* The question the gate puts on behalf of one declaration. *)
Declaring(run) ==
  [inRun |-> NoClaim, runOpen |-> FALSE, basedOn |-> run, shared |-> FALSE]

(* The claims of others over p that yield to none of the declarations. *)
StandingAt(s, p) ==
  {c \in OpenIn(claims) :
     /\ claims[c].owner # s
     /\ \E h \in claims[c].scopes :
          /\ Covers(h, p)
          /\ \A run \in DeclaredAt(s, p) :
               ~Exempts(Declaring(run), p, Marks(claims, c), h)}

(* The gate lets s write p: no exclusive claim stands against it, and a    *)
(* shared one only beside a shared claim of its own.                       *)
Passes(s, p) ==
  /\ \A c \in StandingAt(s, p) : claims[c].shared
  /\ StandingAt(s, p) # {} => \E c \in MineAt(s, p) : claims[c].shared

-----------------------------------------------------------------------------
(* On a path any exclusive claim covers, at most one session passes, for   *)
(* any number of sessions, claims and runs (parked.go, issues #65 and #66; *)
(* TestAtMostOneSessionPasses).                                            *)
GateExclusion ==
  \A p \in Path :
    (\E c \in OpenIn(claims) : CoversPath(c, p) /\ ~claims[c].shared) =>
      \A s, t \in Session : Passes(s, p) /\ Passes(t, p) => s = t

(* The two doors agree: a session just granted a claim, or a claim it      *)
(* rewrote, passes the gate on every path the claim covers.                *)
Granted(c) ==
  /\ c \in OpenIn(claims)'
  /\ \/ c \notin OpenIn(claims)
     \/ /\ claims'[c].owner = claims[c].owner
        /\ \/ ~(claims'[c].scopes \subseteq claims[c].scopes)
           \/ claims'[c].basedOn # claims[c].basedOn
           \/ claims'[c].shared # claims[c].shared

GrantAdmits ==
  \A c \in ClaimId :
    Granted(c) =>
      \A s \in Session, p \in Path : (c \in MineAt(s, p))' => Passes(s, p)'

(* s holds c over p, exclusively, and is not parked in an open run. *)
ActiveHolder(s, c, p) ==
  /\ c \in MineAt(s, p)
  /\ Live(s)
  /\ ~claims[c].shared
  /\ ~(claims[c].inRun # NoClaim /\ RunOpenIn(claims, claims[c].inRun))

(* What the ledger grants later never turns the gate against a session     *)
(* that holds the path exclusively: a claim that stands against it stood   *)
(* over the path, in another's hands, before.                              *)
NewcomersNeverDeny ==
  \A c \in OpenIn(claims), s \in Session, p \in Path :
    ActiveHolder(s, c, p) /\ ActiveHolder(s, c, p)' =>
      \A f \in StandingAt(s, p)' :
        f \in OpenIn(claims) /\ claims[f].owner # s /\ CoversPath(f, p)

(* The claim door and the write gate agree: on a grant when it is made,    *)
(* and on a holder when others are granted something later.                *)
GateAgrees == [][GrantAdmits /\ NewcomersNeverDeny]_vars
=============================================================================
