---------------------------- MODULE LedgerProofs ----------------------------
(***************************************************************************)
(* Proofs about the ledger, its gate, its wait register and its register   *)
(* of ids, for every value of their constants: the rows stay well formed,  *)
(* the claims that stand open, pair by pair, are the ones the claim door   *)
(* allows, however they came together, the gate agrees with the door, and  *)
(* no id is handed out twice.                                              *)
(***************************************************************************)
EXTENDS Gate, WaitBlock, Ids, FiniteSetTheorems, TLAPS

(* A write over a table of rows gives a table of rows. *)
LEMMA WriteType ==
  ASSUME NEW D, NEW S, NEW cl \in [D -> ClaimRow], NEW rows \in [S -> ClaimRow]
  PROVE  Write(cl, rows) \in [D \cup S -> ClaimRow]
BY DEF Write

(* A write over rows of the table leaves its domain as it is. *)
LEMMA OverwriteRows ==
  ASSUME NEW D, NEW S \in SUBSET D,
         NEW cl \in [D -> ClaimRow], NEW rows \in [S -> ClaimRow]
  PROVE  Write(cl, rows) \in [D -> ClaimRow]
<1>1. D \cup S = D
  OBVIOUS
<1>2. Write(cl, rows) \in [D \cup S -> ClaimRow]
  BY WriteType
<1>3. QED  BY <1>1, <1>2

(* The claims a transaction writes are still claim rows. *)
LEMMA OrphanEndedType ==
  ASSUME NEW D, NEW cl \in [D -> ClaimRow], now \in Nat
  PROVE  OrphanEnded(cl) \in [D -> ClaimRow]
<1> DEFINE S == {o \in OpenIn(cl) : Ended(cl[o].owner)}
           rows == [c \in S |-> Orphaned(cl[c])]
<1>1. S \in SUBSET D
  BY DEF OpenIn
<1>2. rows \in [S -> ClaimRow]
  BY <1>1 DEF Orphaned, ClaimRow, ClaimState
<1>3. OrphanEnded(cl) = Write(cl, rows)
  BY DEF OrphanEnded
<1>4. Write(cl, rows) \in [D -> ClaimRow]
  <2> HIDE DEF S, rows
  <2>1. QED  BY <1>1, <1>2, OverwriteRows
<1>5. QED  BY <1>3, <1>4

(* declaredRun answers a run or no run. *)
LEMMA DeclaredRunType ==
  ASSUME NEW cl, NEW run
  PROVE  DeclaredRun(cl, run) \in DOMAIN cl \cup {NoClaim}
BY DEF DeclaredRun, NamedIn, OpenIn

(* The empty ledger has the type. *)
LEMMA InitType == Init => TypeOK
BY DEF Init, TypeOK, SessionRow

(* A hello's session row, and the claims it orphans, keep the type. *)
LEMMA RegisterType ==
  ASSUME TypeOK, NEW s \in Session,
         Register(s), claims' = OrphanEnded(claims), UNCHANGED <<minted, now>>
  PROVE  TypeOK'
<1>1. sessions' \in [Session -> SessionRow]
  BY DEF TypeOK, Register, SessionRow
<1>2. QED  BY <1>1, OrphanEndedType DEF TypeOK

(* A write over some rows of the table keeps its type. *)
LEMMA OverwriteType ==
  ASSUME TypeOK, NEW S \in SUBSET DOMAIN claims, NEW rows \in [S -> ClaimRow],
         claims' = Write(claims, rows),
         sessions' \in [Session -> SessionRow], UNCHANGED <<minted, now>>
  PROVE  TypeOK'
<1>1. claims \in [DOMAIN claims -> ClaimRow]
  BY DEF TypeOK
<1>2. claims' \in [DOMAIN claims -> ClaimRow]
  BY <1>1, OverwriteRows
<1>3. QED  BY <1>2 DEF TypeOK

(* Each rewriting of a row gives a row. *)
LEMMA RowTypes ==
  ASSUME NEW row \in ClaimRow, now \in Nat
  PROVE  /\ Renewed(row) \in ClaimRow
         /\ Released(row) \in ClaimRow
         /\ Orphaned(row) \in ClaimRow
         /\ Unparked(row) \in ClaimRow
         /\ Unmarked(row) \in ClaimRow
         /\ \A drop : Narrowed(row, drop) \in ClaimRow
         /\ \A r \in ClaimId, s \in Session : Parked(row, r, s) \in ClaimRow
         /\ \A t \in Session, j \in Nat : HandTo(row, t, j) \in ClaimRow
BY DEF Renewed, Released, Orphaned, Unparked, Unmarked, Narrowed, Parked, HandTo,
       ClaimRow, ClaimState

(* Renewing leases keeps the type. *)
LEMMA RenewType ==
  ASSUME TypeOK, NEW S \in SUBSET DOMAIN claims, Renew(S),
         sessions' \in [Session -> SessionRow], UNCHANGED <<minted, now>>
  PROVE  TypeOK'
<1>1. [c \in S |-> Renewed(claims[c])] \in [S -> ClaimRow]
  BY RowTypes DEF TypeOK
<1>2. QED  BY <1>1, OverwriteType DEF Renew

(* Arrivals and the heartbeats keep the type. *)
LEMMA SessionStepType ==
  ASSUME TypeOK, NEW s \in Session, SessionStep(s)
  PROVE  TypeOK'
<1>1. CASE HelloNew(s)
  BY <1>1, RegisterType DEF HelloNew
<1>2. CASE HelloLive(s)
  BY <1>2, OrphanEndedType DEF HelloLive, TypeOK, SessionRow
<1>3. ASSUME NEW prev, BeginLogical(s, prev) PROVE TypeOK'
  BY <1>3, RegisterType DEF BeginLogical
<1>4. CASE End(s)
  BY <1>4 DEF End, TypeOK, SessionRow
<1>5. ASSUME sessions' = [sessions EXCEPT ![s].seen = now]
      PROVE  sessions' \in [Session -> SessionRow]
  BY <1>5 DEF TypeOK, SessionRow
<1>6. ASSUME NEW p, BeatFrom(s, p) PROVE TypeOK'
  <2>1. {c \in OpenIn(claims) : claims[c].owner = s /\ CoversPath(c, p)}
          \in SUBSET DOMAIN claims
    BY DEF OpenIn
  <2>2. QED  BY <1>5, <1>6, <2>1, RenewType DEF BeatFrom
<1>7. ASSUME NEW i, NEW p, BeatLogical(s, i, p) PROVE TypeOK'
  <2>1. {c \in HeldIn(claims, s, i) : CoversPath(c, p)} \in SUBSET DOMAIN claims
    BY DEF HeldIn, OpenIn
  <2>2. QED  BY <1>5, <1>7, <2>1, RenewType DEF BeatLogical
<1>8. ASSUME NEW i, NEW p, RenewLogical(s, i, p) PROVE TypeOK'
  <2>1. {c \in HeldIn(claims, s, i) : CoversPath(c, p)} \in SUBSET DOMAIN claims
    BY DEF HeldIn, OpenIn
  <2>2. QED  BY <1>8, <2>1, RenewType DEF RenewLogical, TypeOK
<1>9. CASE Seen(s)
  BY <1>5, <1>9 DEF Seen, TypeOK
<1>10. QED
  BY <1>1, <1>2, <1>3, <1>4, <1>6, <1>7, <1>8, <1>9
  DEF SessionStep, Arrive, Proceed, Bye, ByeFrom, EndLogical, Heard, RefreshLogical

(* The claims of a slug, and those a caller may move, are rows of the table. *)
LEMMA SelectedRows ==
  ASSUME NEW s, NEW i, NEW slugs
  PROVE  Selected(s, i, slugs) \in SUBSET DOMAIN claims
BY DEF Selected, HeldIn, OpenIn

(* A refreshed claim row is a claim row. *)
LEMMA RewrittenType ==
  ASSUME NEW row \in ClaimRow, NEW i \in Nat, NEW r \in ClaimRequest,
         NEW run \in ClaimId \cup {NoClaim}, now \in Nat
  PROVE  Rewritten(row, i, r, run) \in ClaimRow
BY DEF Rewritten, ClaimRow, ClaimRequest

(* Inserting a claim keeps the type. *)
LEMMA ClaimNewType ==
  ASSUME TypeOK, NEW s \in Session, NEW i \in Nat, NEW r \in ClaimRequest,
         NEW id \in ClaimId, ClaimNew(s, i, r, id)
  PROVE  TypeOK'
<1> DEFINE cl == OrphanEnded(claims)
           row == [state |-> "open", owner |-> s, inc |-> i, slug |-> r.slug,
                   scopes |-> r.scopes, shared |-> r.shared, inRun |-> NoClaim,
                   basedOn |-> DeclaredRun(cl, r.basedOn), producer |-> NoSession,
                   renewed |-> now]
<1>1. cl \in [DOMAIN claims -> ClaimRow]
  BY OrphanEndedType DEF TypeOK
<1>2. DeclaredRun(cl, r.basedOn) \in ClaimId \cup {NoClaim}
  BY <1>1, DeclaredRunType DEF TypeOK
<1>3. row \in ClaimRow
  BY <1>2 DEF ClaimRow, ClaimState, ClaimRequest, TypeOK
<1> HIDE DEF cl, row
<1>4. [c \in {id} |-> row] \in [{id} -> ClaimRow]
  BY <1>3
<1>5. Write(cl, [c \in {id} |-> row]) \in [DOMAIN claims \cup {id} -> ClaimRow]
  BY <1>1, <1>4, WriteType
<1>6. claims' = Write(cl, [c \in {id} |-> row])
  BY DEF ClaimNew, cl, row
<1>7. claims' \in [DOMAIN claims \cup {id} -> ClaimRow]
  BY <1>5, <1>6
<1>8. QED  BY <1>7 DEF ClaimNew, TypeOK

(* Refreshing a claim in place keeps the type. *)
LEMMA ClaimRefreshType ==
  ASSUME TypeOK, NEW s \in Session, NEW i \in Nat, NEW r \in ClaimRequest,
         ClaimRefresh(s, i, r)
  PROVE  TypeOK'
<1> DEFINE cl == OrphanEnded(claims)
           run == DeclaredRun(cl, r.basedOn)
           S == NamedIn(cl, r.slug)
           rows == [c \in S |-> Rewritten(cl[c], i, r, run)]
<1>1. cl \in [DOMAIN claims -> ClaimRow]
  BY OrphanEndedType DEF TypeOK
<1>2. run \in ClaimId \cup {NoClaim}
  BY <1>1, DeclaredRunType DEF TypeOK
<1>3. S \in SUBSET DOMAIN claims
  BY <1>1 DEF NamedIn, OpenIn
<1>4. rows \in [S -> ClaimRow]
  <2> HIDE DEF cl, S, run
  <2>1. QED  BY <1>1, <1>2, <1>3, RewrittenType DEF TypeOK
<1>5. claims' = Write(cl, rows)
  BY DEF ClaimRefresh
<1>6. claims' \in [DOMAIN claims -> ClaimRow]
  <2> HIDE DEF cl, S, rows
  <2>1. QED  BY <1>1, <1>3, <1>4, <1>5, OverwriteRows
<1>7. QED  BY <1>6 DEF ClaimRefresh, TypeOK

(* Releasing and narrowing claims keep the type. *)
LEMMA ReleaseStepType ==
  ASSUME TypeOK, NEW s \in Session, NEW i \in Nat, ReleaseStep(s, i)
  PROVE  TypeOK'
<1>1. ASSUME NEW S \in SUBSET DOMAIN claims, Release(S),
             UNCHANGED <<sessions, minted, now>>
      PROVE  TypeOK'
  <2>1. [c \in S |-> Released(claims[c])] \in [S -> ClaimRow]
    BY <1>1, RowTypes DEF TypeOK
  <2>2. QED  BY <1>1, <2>1, OverwriteType DEF Release, TypeOK
<1>2. ASSUME NEW slug, ReleaseOutcome(s, i, slug) PROVE TypeOK'
  BY <1>1, <1>2, SelectedRows DEF ReleaseOutcome
<1>3. ASSUME NEW slugs, ReleaseClaims(s, i, slugs) PROVE TypeOK'
  BY <1>1, <1>3, SelectedRows DEF ReleaseClaims
<1>4. ASSUME NEW slug, NEW drop, ReleaseScopes(s, i, slug, drop) PROVE TypeOK'
  <2> DEFINE S == Selected(s, i, {slug})
  <2>1. [c \in S |-> Narrowed(claims[c], drop)] \in [S -> ClaimRow]
    BY SelectedRows, RowTypes DEF TypeOK
  <2>2. claims' = Write(claims, [c \in S |-> Narrowed(claims[c], drop)])
    BY <1>4 DEF ReleaseScopes
  <2>3. QED  BY <1>4, <2>1, <2>2, SelectedRows, OverwriteType DEF ReleaseScopes, TypeOK
<1>5. QED  BY <1>2, <1>3, <1>4 DEF ReleaseStep

(* Handing claims on, parking and unparking keep the type. *)
LEMMA HandStepType ==
  ASSUME TypeOK, NEW s \in Session, NEW i \in Nat, HandStep(s, i),
         Incarnation \subseteq Nat
  PROVE  TypeOK'
<1>1. ASSUME NEW slugs, NEW rows \in [Selected(s, i, slugs) -> ClaimRow],
             claims' = Write(claims, rows), UNCHANGED <<sessions, minted, now>>
      PROVE  TypeOK'
  BY <1>1, SelectedRows, OverwriteType DEF TypeOK
<1>2. \A slugs : \A c \in Selected(s, i, slugs) : claims[c] \in ClaimRow
  BY SelectedRows DEF TypeOK
<1>3. \A t, run, moved : ParkTarget(t, run, moved) \subseteq ClaimId
  BY DEF ParkTarget, NamedIn, OpenIn, TypeOK
<1>4. ASSUME NEW slugs, NEW run, ParkClaims(s, i, slugs, run) PROVE TypeOK'
  <2> DEFINE moved == Selected(s, i, slugs)
  <2>1. PICK r \in ParkTarget(s, run, moved) :
          claims' = Write(claims, [c \in moved |-> Renewed(Parked(claims[c], r, s))])
    BY <1>4 DEF ParkClaims
  <2>2. [c \in moved |-> Renewed(Parked(claims[c], r, s))] \in [moved -> ClaimRow]
    BY <1>2, <1>3, RowTypes DEF TypeOK
  <2>3. QED  BY <1>1, <1>4, <2>1, <2>2 DEF ParkClaims
<1>5. ASSUME NEW slug, UnparkClaim(s, i, slug) PROVE TypeOK'
  <2> DEFINE taken == Selected(s, i, {slug})
  <2>1. [c \in taken |-> Renewed(Unparked(claims[c]))] \in [taken -> ClaimRow]
    BY <1>2, RowTypes DEF TypeOK
  <2>2. QED  BY <1>1, <1>5, <2>1 DEF UnparkClaim
<1>6. ASSUME NEW slugs, NEW t \in Session, NEW j \in Nat,
             TransferClaims(s, i, slugs, t, j)
      PROVE  TypeOK'
  <2> DEFINE moved == Selected(s, i, slugs)
             handed == [c \in moved |-> HandTo(claims[c], t, j)]
             cl == Write(claims, handed)
             lost == {m \in moved : ~(cl[m].inRun \in DOMAIN cl /\ cl[cl[m].inRun].owner = t)}
             rows == [c \in lost |-> Unmarked(cl[c])]
  <2>1. handed \in [moved -> ClaimRow]
    BY <1>2, RowTypes DEF TypeOK
  <2>2. claims \in [DOMAIN claims -> ClaimRow] /\ moved \in SUBSET DOMAIN claims
    BY SelectedRows DEF TypeOK
  <2>3. cl \in [DOMAIN claims -> ClaimRow]
    <3> HIDE DEF moved, handed
    <3>1. QED  BY <2>1, <2>2, OverwriteRows
  <2>4. lost \in SUBSET DOMAIN claims
    BY <2>2
  <2>5. claims' = Write(cl, rows) /\ UNCHANGED <<sessions, minted, now>>
    BY <1>6 DEF TransferClaims
  <2>6. rows \in [lost -> ClaimRow]
    <3> HIDE DEF moved, handed, cl, lost
    <3>1. QED  BY <2>3, <2>4, RowTypes DEF TypeOK
  <2>7. claims' \in [DOMAIN claims -> ClaimRow]
    <3> HIDE DEF moved, handed, cl, lost, rows
    <3>1. QED  BY <2>3, <2>4, <2>5, <2>6, OverwriteRows
  <2>8. QED  BY <2>5, <2>7 DEF TypeOK
<1>7. ASSUME NEW slugs, NEW t \in Session, NEW j \in Nat, NEW run,
             TransferClaimsInRun(s, i, slugs, t, j, run)
      PROVE  TypeOK'
  <2> DEFINE moved == Selected(s, i, slugs)
  <2>1. PICK r \in ParkTarget(t, run, moved) :
          claims' = Write(claims, [c \in moved |-> Parked(HandTo(claims[c], t, j), r, s)])
    BY <1>7 DEF TransferClaimsInRun
  <2>2. [c \in moved |-> Parked(HandTo(claims[c], t, j), r, s)] \in [moved -> ClaimRow]
    BY <1>2, <1>3, RowTypes DEF TypeOK
  <2>3. QED  BY <1>1, <1>7, <2>1, <2>2 DEF TransferClaimsInRun
<1>8. QED  BY <1>4, <1>5, <1>6, <1>7 DEF HandStep

(* A sweep keeps the type. *)
LEMMA SweepType ==
  ASSUME TypeOK, NEW force, Sweep(force)
  PROVE  TypeOK'
<1> DEFINE cl == OrphanEnded(claims)
           quiet == {c \in OpenIn(cl) : force /\ Silent(cl[c].owner)}
           rows == [c \in quiet |-> Orphaned(cl[c])]
           swept == Write(cl, rows)
           old == {c \in DOMAIN swept :
                     swept[c].state # "open" /\ swept[c].renewed < now - TTL}
<1>1. cl \in [DOMAIN claims -> ClaimRow]
  BY OrphanEndedType DEF TypeOK
<1>2. quiet \in SUBSET DOMAIN claims
  BY <1>1 DEF OpenIn
<1>3. rows \in [quiet -> ClaimRow]
  <2> HIDE DEF cl, quiet
  <2>1. QED  BY <1>1, <1>2, RowTypes DEF TypeOK
<1>4. swept \in [DOMAIN claims -> ClaimRow]
  <2> HIDE DEF cl, quiet, rows
  <2>1. QED  BY <1>1, <1>2, <1>3, OverwriteRows
<1>5. claims' = [c \in DOMAIN swept \ old |-> swept[c]]
  BY DEF Sweep
<1> HIDE DEF cl, quiet, rows, swept, old
<1>6. /\ DOMAIN claims' \subseteq DOMAIN claims
      /\ claims' \in [DOMAIN claims' -> ClaimRow]
  BY <1>4, <1>5
<1>7. QED  BY <1>6 DEF Sweep, TypeOK

(* Every operation of the ledger keeps the type. *)
LEMMA TypeStep ==
  ASSUME TypeOK, [Next]_vars
  PROVE  TypeOK'
<1>1. Incarnation \subseteq Nat
  BY BoundAssumption DEF Incarnation
<1>2. CASE Tick
  BY <1>2 DEF Tick, TypeOK
<1>3. ASSUME NEW s \in Session, SessionStep(s) PROVE TypeOK'
  BY <1>3, SessionStepType
<1>4. ASSUME NEW s \in Session, NEW i \in Nat, ClaimStep(s, i) PROVE TypeOK'
  BY <1>4, ClaimNewType, ClaimRefreshType, RequestAssumption DEF ClaimStep
<1>5. ASSUME NEW s \in Session, NEW i \in Nat, ReleaseStep(s, i) PROVE TypeOK'
  BY <1>5, ReleaseStepType
<1>6. ASSUME NEW s \in Session, NEW i \in Nat, HandStep(s, i) PROVE TypeOK'
  BY <1>1, <1>6, HandStepType
<1>7. ASSUME NEW force, Sweep(force) PROVE TypeOK'
  BY <1>7, SweepType
<1>8. CASE UNCHANGED vars
  BY <1>8 DEF vars, TypeOK
<1>9. QED  BY <1>1, <1>2, <1>3, <1>4, <1>5, <1>6, <1>7, <1>8 DEF Next, HolderStep

(* The tables of the ledger keep their types through every operation, for  *)
(* any number of sessions, slugs, paths and requests.                      *)
THEOREM TypeCorrect == Spec => []TypeOK
BY TypeStep, InitType, PTL DEF Spec

-----------------------------------------------------------------------------
(* The exclusion of the claim door.                                        *)

(* What an open claim rests on: an owner that registered once, the current *)
(* registration of it, and a producer if it is parked.                     *)
OpenClaimsAreOwned ==
  \A c \in OpenIn(claims) :
    /\ Registered(claims[c].owner)
    /\ claims[c].inRun # NoClaim => claims[c].producer # NoSession

SlugsAreUnique ==
  \A c, d \in OpenIn(claims) : claims[c].slug = claims[d].slug => c = d

(* The inductive invariant. *)
LedgerInv ==
  /\ TypeOK
  /\ OpenClaimsAreOwned
  /\ OpenClaimsAreCurrent
  /\ SlugsAreUnique
  /\ ParkedNeverCoordination
  /\ SharedOffSlots
  /\ StandingOverlapsAreRiders

-----------------------------------------------------------------------------
(* Every operation does one of two things to a claim that is open after it *)

ParkedRight(c) ==
  claims[c].inRun # NoClaim =>
    /\ claims[c].producer # NoSession
    /\ \A h \in claims[c].scopes : ~InBuddyDir(h)

(* it keeps it, as it was or narrower, parked or not, *)
Kept(c) ==
  /\ c \in OpenIn(claims)
  /\ claims'[c].owner = claims[c].owner
  /\ claims'[c].inc = claims[c].inc
  /\ claims'[c].slug = claims[c].slug
  /\ claims'[c].shared = claims[c].shared
  /\ claims'[c].basedOn = claims[c].basedOn
  /\ claims'[c].scopes \subseteq claims[c].scopes
  /\ claims[c].producer # NoSession => claims'[c].producer # NoSession
  /\ ParkedRight(c)'
  /\ sessions'[claims[c].owner].inc = sessions[claims[c].owner].inc
  /\ ~sessions'[claims[c].owner].ended => ~sessions[claims[c].owner].ended

(* The pair may stand: what StandingOverlapsAreRiders says of two claims. *)
MayStand(c, d) ==
  /\ claims[c].owner # claims[d].owner
  /\ Live(claims[c].owner)
  /\ Live(claims[d].owner)
  /\ ~(claims[c].shared /\ claims[d].shared)
  => \A g \in claims[c].scopes, h \in claims[d].scopes :
       Overlap(g, h) => RiderBeside(c, g, d) \/ RiderBeside(d, h, c)

(* or it grants it to o, checked against every claim that is kept. *)
NewRow(c, o) ==
  /\ claims[c].owner = o
  /\ claims[c].inc = sessions[o].inc
  /\ Registered(o)
  /\ ParkedRight(c)
  /\ claims[c].shared => \A h \in claims[c].scopes : ~OnSlots(h)
  /\ \A d \in OpenIn(claims) :
       /\ claims[c].slug = claims[d].slug => c = d
       /\ claims[d].owner # o => MayStand(c, d)

(* A pair of claims that survive a step with no more scope, no less a mark,
   may stand together after it if they might before. *)
LEMMA KeptMayStand ==
  ASSUME LedgerInv, NEW c, NEW d, Kept(c), Kept(d)
  PROVE  MayStand(c, d)'
<1>1. MayStand(c, d)
  BY DEF LedgerInv, StandingOverlapsAreRiders, MayStand, Kept
<1>2. QED  BY <1>1 DEF MayStand, Kept, RiderBeside, Live, Registered

(* A step that keeps or grants every claim keeps the invariant. *)
LEMMA StepKeepsInv ==
  ASSUME LedgerInv, TypeOK',
         NEW o,
         \A c \in OpenIn(claims') : Kept(c) \/ NewRow(c, o)'
  PROVE  LedgerInv'
<1>1. OpenClaimsAreOwned'
  BY DEF LedgerInv, OpenClaimsAreOwned, Kept, NewRow, ParkedRight, Registered
<1>2. OpenClaimsAreCurrent'
  BY DEF LedgerInv, OpenClaimsAreCurrent, Kept, NewRow
<1>3. SlugsAreUnique'
  BY DEF LedgerInv, SlugsAreUnique, Kept, NewRow
<1>4. ParkedNeverCoordination'
  BY DEF LedgerInv, ParkedNeverCoordination, Kept, NewRow, ParkedRight
<1>5. SharedOffSlots'
  BY DEF LedgerInv, SharedOffSlots, Kept, NewRow
<1>6. StandingOverlapsAreRiders'
  <2>1. ASSUME NEW c \in OpenIn(claims'), NEW d \in OpenIn(claims')
        PROVE  MayStand(c, d)'
    <3>1. CASE Kept(c) /\ Kept(d)
      BY <3>1, KeptMayStand
    <3>2. CASE NewRow(c, o)' /\ claims'[d].owner # o
      BY <3>2 DEF NewRow
    <3>3. CASE NewRow(d, o)' /\ claims'[c].owner # o
      <4>1. MayStand(d, c)'
        BY <3>3 DEF NewRow
      <4>2. QED  BY <4>1 DEF MayStand, Overlap
    <3>4. CASE claims'[c].owner = claims'[d].owner
      BY <3>4 DEF MayStand
    <3>5. QED  BY <3>1, <3>2, <3>3, <3>4 DEF NewRow
  <2>2. QED  BY <2>1 DEF StandingOverlapsAreRiders, MayStand
<1>7. QED  BY <1>1, <1>2, <1>3, <1>4, <1>5, <1>6 DEF LedgerInv

-----------------------------------------------------------------------------
(* Operations that grant nothing *)

(* The row is closed after, or it is open before and at most narrower,     *)
(* renewed or unparked after.                                              *)
RowKeeps(old, new) ==
  new.state = "open" =>
    /\ old.state = "open"
    /\ new.owner = old.owner
    /\ new.inc = old.inc
    /\ new.slug = old.slug
    /\ new.shared = old.shared
    /\ new.basedOn = old.basedOn
    /\ new.scopes \subseteq old.scopes
    /\ new.producer = old.producer
    /\ new.inRun \in {old.inRun, NoClaim}

TableKeeps(cl) ==
  /\ DOMAIN cl \subseteq DOMAIN claims
  /\ \A c \in DOMAIN cl : RowKeeps(claims[c], cl[c])

(* Its owner keeps its registration, and does not come back to life. *)
OwnerKeeps(c) ==
  /\ sessions'[claims[c].owner].inc = sessions[claims[c].owner].inc
  /\ ~sessions'[claims[c].owner].ended => ~sessions[claims[c].owner].ended

(* A step that opens no claim, widens none and hands none on keeps the
   invariant. *)
LEMMA KeepingKeepsInv ==
  ASSUME LedgerInv, TypeOK', TableKeeps(claims'),
         \A c \in OpenIn(claims') : OwnerKeeps(c)
  PROVE  LedgerInv'
<1>1. ASSUME NEW c \in OpenIn(claims') PROVE Kept(c)
  <2>1. c \in DOMAIN claims /\ RowKeeps(claims[c], claims'[c])
    BY DEF TableKeeps, OpenIn
  <2>2. c \in OpenIn(claims) /\ claims'[c].state = "open"
    BY <2>1 DEF OpenIn, RowKeeps
  <2>3. ParkedRight(c)
    BY <2>2 DEF LedgerInv, OpenClaimsAreOwned, ParkedNeverCoordination, ParkedRight
  <2>4. QED  BY <2>1, <2>2, <2>3 DEF RowKeeps, OwnerKeeps, Kept, ParkedRight
<1>2. QED  BY <1>1, StepKeepsInv

(* A step whose claim rows only close, narrow or gain a mark is such a step. *)
LEMMA RowsKeep ==
  ASSUME NEW row \in ClaimRow
  PROVE  /\ RowKeeps(row, row)
         /\ RowKeeps(row, Orphaned(row))
         /\ RowKeeps(row, Released(row))
         /\ RowKeeps(row, Renewed(row))
         /\ RowKeeps(row, Renewed(Unparked(row)))
         /\ \A drop : RowKeeps(row, Narrowed(row, drop))
BY DEF RowKeeps, Orphaned, Released, Renewed, Unparked, Narrowed, ClaimRow, ClaimState

(* Overwriting some rows with rows that keep them keeps the table. *)
LEMMA OverwriteKeeps ==
  ASSUME TypeOK, NEW S \in SUBSET DOMAIN claims, NEW rows, DOMAIN rows = S,
         \A c \in S : RowKeeps(claims[c], rows[c])
  PROVE  TableKeeps(Write(claims, rows))
<1>1. \A c \in DOMAIN claims : RowKeeps(claims[c], claims[c])
  BY RowsKeep DEF TypeOK
<1>2. QED  BY <1>1 DEF TableKeeps, Write

(* What cleanupEnded leaves open is what the sessions not ended hold. *)
LEMMA OrphanEndedOpen ==
  ASSUME TypeOK
  PROVE  /\ DOMAIN OrphanEnded(claims) = DOMAIN claims
         /\ \A c \in DOMAIN claims :
              OrphanEnded(claims)[c] = IF c \in OpenIn(claims) /\ Ended(claims[c].owner)
                                       THEN Orphaned(claims[c])
                                       ELSE claims[c]
         /\ \A c \in OpenIn(OrphanEnded(claims)) :
              /\ c \in OpenIn(claims)
              /\ ~Ended(claims[c].owner)
              /\ OrphanEnded(claims)[c] = claims[c]
<1> DEFINE S == {o \in OpenIn(claims) : Ended(claims[o].owner)}
           rows == [c \in S |-> Orphaned(claims[c])]
<1>1. OrphanEnded(claims) = Write(claims, rows)
  BY DEF OrphanEnded
<1>2. S \subseteq DOMAIN claims /\ DOMAIN rows = S
  BY DEF OpenIn
<1>3. DOMAIN OrphanEnded(claims) = DOMAIN claims
  <2> HIDE DEF S, rows
  <2>1. QED  BY <1>1, <1>2 DEF Write
<1>4. \A c \in S : OrphanEnded(claims)[c] = Orphaned(claims[c])
  BY <1>1, <1>2 DEF Write
<1>5. \A c \in DOMAIN claims \ S : OrphanEnded(claims)[c] = claims[c]
  <2> HIDE DEF S, rows
  <2>1. QED  BY <1>1, <1>2 DEF Write
<1>6. \A c \in S : OrphanEnded(claims)[c].state # "open"
  BY <1>2, <1>4 DEF Orphaned, TypeOK, ClaimRow
<1>7. QED  BY <1>3, <1>4, <1>5, <1>6 DEF OpenIn

(* orphanEnded closes claims and does nothing else to them. *)
LEMMA OrphanEndedKeeps ==
  ASSUME TypeOK
  PROVE  TableKeeps(OrphanEnded(claims))
BY OrphanEndedOpen, RowsKeep DEF TableKeeps, TypeOK

(* Renewing a lease changes nothing the invariant reads. *)
LEMMA RenewKeeps ==
  ASSUME TypeOK, NEW S \in SUBSET DOMAIN claims, Renew(S)
  PROVE  TableKeeps(claims')
<1> DEFINE rows == [c \in S |-> Renewed(claims[c])]
<1>1. \A c \in S : RowKeeps(claims[c], rows[c])
  BY RowsKeep DEF TypeOK
<1>2. DOMAIN rows = S /\ claims' = Write(claims, rows)
  BY DEF Renew
<1> HIDE DEF rows
<1>3. QED  BY <1>1, <1>2, OverwriteKeeps

(* Closing a set of claims as released keeps every other one as it was. *)
LEMMA ReleaseKeeps ==
  ASSUME TypeOK, NEW S \in SUBSET DOMAIN claims, Release(S)
  PROVE  TableKeeps(claims')
<1> DEFINE rows == [c \in S |-> Released(claims[c])]
<1>1. \A c \in S : RowKeeps(claims[c], rows[c])
  BY RowsKeep DEF TypeOK
<1>2. DOMAIN rows = S /\ claims' = Write(claims, rows)
  BY DEF Release
<1> HIDE DEF rows
<1>3. QED  BY <1>1, <1>2, OverwriteKeeps

(* A step that leaves the claims table alone, and takes no session row away
   from under a claim, keeps the invariant. *)
LEMMA SameTableKeeps ==
  ASSUME TypeOK
  PROVE  TableKeeps(claims)
BY RowsKeep DEF TypeOK, TableKeeps

(* A new registration of a session that is not live orphans what it held. *)
LEMMA RegisterInv ==
  ASSUME LedgerInv, TypeOK', NEW s \in Session, ~Live(s), Register(s),
         claims' = OrphanEnded(claims)
  PROVE  LedgerInv'
<1>1. TableKeeps(claims')
  BY OrphanEndedKeeps DEF LedgerInv
<1>2. ASSUME NEW c \in OpenIn(claims') PROVE OwnerKeeps(c)
  <2>1. c \in OpenIn(claims) /\ ~Ended(claims[c].owner)
    BY OrphanEndedOpen DEF LedgerInv
  <2>2. Live(claims[c].owner)
    BY <2>1 DEF LedgerInv, OpenClaimsAreOwned, Live, Ended
  <2>3. sessions'[claims[c].owner] = sessions[claims[c].owner]
    BY <2>1, <2>2 DEF Register, LedgerInv, TypeOK, OpenIn, ClaimRow
  <2>4. QED  BY <2>3 DEF OwnerKeeps
<1>3. QED  BY <1>1, <1>2, KeepingKeepsInv

(* Seeing a session, or ending it, brings nobody to life. *)
LEMMA RowWriteKeepsOwners ==
  ASSUME TypeOK, NEW s \in Session,
         \/ sessions' = sessions
         \/ sessions' = [sessions EXCEPT ![s].seen = now]
         \/ sessions' = [sessions EXCEPT ![s].ended = TRUE]
  PROVE  \A c : claims[c].owner \in Session => OwnerKeeps(c)
BY DEF TypeOK, SessionRow, OwnerKeeps

(* Every open claim is owned by a session row of the incarnation the claim
   records. *)
LEMMA OpenOwners ==
  ASSUME TypeOK, TableKeeps(claims')
  PROVE  \A c \in OpenIn(claims') : claims[c].owner \in Session
BY DEF TypeOK, TableKeeps, OpenIn, ClaimRow

(* Whatever a session does of itself, it is granted nothing. *)
LEMMA SessionStepKeeps ==
  ASSUME TypeOK, NEW s \in Session, SessionStep(s)
  PROVE  TableKeeps(claims')
<1>1. CASE claims' = OrphanEnded(claims)
  BY <1>1, OrphanEndedKeeps
<1>2. CASE claims' = claims
  BY <1>2, SameTableKeeps
<1>3. ASSUME NEW p, BeatFrom(s, p) PROVE TableKeeps(claims')
  <2>1. {c \in OpenIn(claims) : claims[c].owner = s /\ CoversPath(c, p)}
          \in SUBSET DOMAIN claims
    BY DEF OpenIn
  <2>2. QED  BY <1>3, <2>1, RenewKeeps DEF BeatFrom
<1>4. ASSUME NEW i, NEW p, BeatLogical(s, i, p) \/ RenewLogical(s, i, p)
      PROVE  TableKeeps(claims')
  <2>1. {c \in HeldIn(claims, s, i) : CoversPath(c, p)} \in SUBSET DOMAIN claims
    BY DEF HeldIn, OpenIn
  <2>2. QED  BY <1>4, <2>1, RenewKeeps DEF BeatLogical, RenewLogical
<1>5. QED
  BY <1>1, <1>2, <1>3, <1>4
  DEF SessionStep, Arrive, Proceed, HelloNew, HelloLive, BeginLogical, Bye, ByeFrom, EndLogical,
      End, Heard, RefreshLogical, Seen

(* Hello in each of its forms, and BeginLogical, keep the invariant: a new
   incarnation first orphans what the old one left open. *)
LEMMA SessionStepInv ==
  ASSUME LedgerInv, TypeOK', NEW s \in Session, SessionStep(s)
  PROVE  LedgerInv'
<1>1. TypeOK /\ TableKeeps(claims')
  BY SessionStepKeeps DEF LedgerInv
<1>2. CASE \/ sessions' = sessions
           \/ sessions' = [sessions EXCEPT ![s].seen = now]
           \/ sessions' = [sessions EXCEPT ![s].ended = TRUE]
  BY <1>1, <1>2, RowWriteKeepsOwners, OpenOwners, KeepingKeepsInv
<1>3. CASE HelloNew(s) \/ \E prev : BeginLogical(s, prev)
  BY <1>3, RegisterInv DEF HelloNew, BeginLogical
<1>4. QED
  BY <1>2, <1>3
  DEF SessionStep, Arrive, Proceed, HelloLive, Bye, ByeFrom, EndLogical, End,
      BeatFrom, BeatLogical, RenewLogical, Heard, RefreshLogical, Seen

(* A release closes or narrows what the caller holds, and keeps the rest. *)
LEMMA ReleaseStepKeeps ==
  ASSUME TypeOK, NEW s \in Session, NEW i, ReleaseStep(s, i)
  PROVE  TableKeeps(claims') /\ sessions' = sessions
<1>1. ASSUME NEW slug, ReleaseOutcome(s, i, slug) PROVE TableKeeps(claims')
  BY <1>1, SelectedRows, ReleaseKeeps DEF ReleaseOutcome
<1>2. ASSUME NEW slugs, ReleaseClaims(s, i, slugs) PROVE TableKeeps(claims')
  BY <1>2, SelectedRows, ReleaseKeeps DEF ReleaseClaims
<1>3. ASSUME NEW slug, NEW drop, ReleaseScopes(s, i, slug, drop) PROVE TableKeeps(claims')
  <2> DEFINE S == Selected(s, i, {slug})
             rows == [c \in S |-> Narrowed(claims[c], drop)]
  <2>1. S \in SUBSET DOMAIN claims
    BY SelectedRows
  <2>2. \A c \in S : RowKeeps(claims[c], rows[c])
    BY <2>1, RowsKeep DEF TypeOK
  <2>3. DOMAIN rows = S /\ claims' = Write(claims, rows)
    BY <1>3 DEF ReleaseScopes
  <2> HIDE DEF S, rows
  <2>4. QED  BY <2>1, <2>2, <2>3, OverwriteKeeps
<1>4. QED
  BY <1>1, <1>2, <1>3 DEF ReleaseStep, ReleaseOutcome, ReleaseClaims, ReleaseScopes

LEMMA ReleaseStepInv ==
  ASSUME LedgerInv, TypeOK', NEW s \in Session, NEW i, ReleaseStep(s, i)
  PROVE  LedgerInv'
BY ReleaseStepKeeps, RowWriteKeepsOwners, OpenOwners, KeepingKeepsInv DEF LedgerInv

(* Taking the mark off keeps the claim. *)
LEMMA UnparkKeeps ==
  ASSUME TypeOK, NEW s, NEW i, NEW slug, UnparkClaim(s, i, slug)
  PROVE  TableKeeps(claims') /\ sessions' = sessions
<1> DEFINE S == Selected(s, i, {slug})
           rows == [c \in S |-> Renewed(Unparked(claims[c]))]
<1>1. S \in SUBSET DOMAIN claims
  BY SelectedRows
<1>2. \A c \in S : RowKeeps(claims[c], rows[c])
  BY <1>1, RowsKeep DEF TypeOK
<1>3. DOMAIN rows = S /\ claims' = Write(claims, rows) /\ sessions' = sessions
  BY DEF UnparkClaim
<1> HIDE DEF S, rows
<1>4. QED  BY <1>1, <1>2, <1>3, OverwriteKeeps

(* UnparkClaim keeps the invariant: what was parked may still overlap. *)
LEMMA UnparkInv ==
  ASSUME LedgerInv, TypeOK', NEW s \in Session, NEW i, NEW slug, UnparkClaim(s, i, slug)
  PROVE  LedgerInv'
BY UnparkKeeps, RowWriteKeepsOwners, OpenOwners, KeepingKeepsInv DEF LedgerInv

(* A sweep orphans and deletes, and keeps the invariant. *)
LEMMA SweepKeeps ==
  ASSUME TypeOK, NEW force, Sweep(force)
  PROVE  TableKeeps(claims') /\ sessions' = sessions
<1> DEFINE cl == OrphanEnded(claims)
           quiet == {c \in OpenIn(cl) : force /\ Silent(cl[c].owner)}
           rows == [c \in quiet |-> Orphaned(cl[c])]
           swept == Write(cl, rows)
           old == {c \in DOMAIN swept :
                     swept[c].state # "open" /\ swept[c].renewed < now - TTL}
<1>2. /\ claims' = [c \in DOMAIN swept \ old |-> swept[c]]
      /\ sessions' = sessions
  BY DEF Sweep
<1>3. TableKeeps(cl) /\ cl \in [DOMAIN claims -> ClaimRow]
  BY OrphanEndedKeeps, OrphanEndedType DEF TypeOK
<1>4. quiet \subseteq DOMAIN cl /\ DOMAIN rows = quiet
  BY DEF OpenIn
<1>5. \A c \in quiet : rows[c].state # "open"
  BY <1>3, <1>4 DEF Orphaned, ClaimRow
<1>6. /\ DOMAIN swept = DOMAIN cl
      /\ \A c \in quiet : swept[c] = rows[c]
      /\ \A c \in DOMAIN cl \ quiet : swept[c] = cl[c]
  <2> HIDE DEF cl, quiet, rows
  <2>1. QED  BY <1>4 DEF Write
<1> HIDE DEF cl, quiet, rows, swept, old
<1>7. QED  BY <1>2, <1>3, <1>5, <1>6 DEF TableKeeps, RowKeeps

LEMMA SweepInv ==
  ASSUME LedgerInv, TypeOK', NEW force, Sweep(force)
  PROVE  LedgerInv'
BY SweepKeeps, KeepingKeepsInv DEF LedgerInv, OwnerKeeps

(* A row that does not change is kept. *)
LEMMA UnchangedIsKept ==
  ASSUME LedgerInv, sessions' = sessions,
         NEW c \in OpenIn(claims), claims'[c] = claims[c]
  PROVE  Kept(c)
BY DEF Kept, ParkedRight, LedgerInv, OpenClaimsAreOwned, ParkedNeverCoordination

(* What --all or an id list selects are the caller's own open claims. *)
LEMMA SelectedOpen ==
  ASSUME NEW s, NEW i, NEW slugs
  PROVE  Selected(s, i, slugs) \subseteq OpenIn(claims)
BY DEF Selected, HeldIn

(* ParkClaims keeps the invariant: it refuses a target that reaches into the
   coordination directory. *)
LEMMA ParkInv ==
  ASSUME LedgerInv, TypeOK', NEW s \in Session, NEW i, NEW slugs, NEW run,
         ParkClaims(s, i, slugs, run)
  PROVE  LedgerInv'
<1> DEFINE moved == Selected(s, i, slugs)
<1>1. PICK r \in ParkTarget(s, run, moved) :
        claims' = Write(claims, [c \in moved |-> Renewed(Parked(claims[c], r, s))])
  BY DEF ParkClaims
<1>2. TypeOK /\ sessions' = sessions
  BY DEF LedgerInv, ParkClaims
<1>3. moved \subseteq OpenIn(claims)
  BY SelectedOpen
<1> DEFINE rows == [c \in moved |-> Renewed(Parked(claims[c], r, s))]
<1>4. \A c \in moved : \A h \in claims[c].scopes : ~InBuddyDir(h)
  BY <1>1 DEF ParkTarget
<1>5. /\ DOMAIN claims' = DOMAIN claims
      /\ \A c \in DOMAIN claims \ moved : claims'[c] = claims[c]
      /\ \A c \in moved : claims'[c] = Renewed(Parked(claims[c], r, s))
  <2>1. claims' = Write(claims, rows) /\ DOMAIN rows = moved /\ moved \subseteq DOMAIN claims
    BY <1>1, <1>3 DEF OpenIn
  <2>2. QED  BY <2>1 DEF Write
<1>6. ASSUME NEW c \in OpenIn(claims') PROVE Kept(c)
  <2>1. CASE c \in moved
    <3>1. claims[c] \in ClaimRow /\ c \in OpenIn(claims)
      BY <1>2, <1>3, <2>1 DEF TypeOK, OpenIn
    <3>2. claims'[c] = Renewed(Parked(claims[c], r, s))
      BY <1>5, <2>1
    <3>3. /\ claims'[c].owner = claims[c].owner
          /\ claims'[c].inc = claims[c].inc
          /\ claims'[c].slug = claims[c].slug
          /\ claims'[c].shared = claims[c].shared
          /\ claims'[c].basedOn = claims[c].basedOn
          /\ claims'[c].scopes = claims[c].scopes
          /\ claims'[c].producer # NoSession
      BY <3>1, <3>2, NullAssumption DEF Renewed, Parked, ClaimRow
    <3>4. QED  BY <1>2, <1>4, <2>1, <3>1, <3>3 DEF Kept, ParkedRight
  <2>2. CASE c \notin moved
    BY <1>2, <1>5, <2>2, UnchangedIsKept DEF OpenIn
  <2>3. QED  BY <2>1, <2>2
<1>7. QED  BY <1>6, StepKeepsInv

-----------------------------------------------------------------------------
(* Operations that grant: what they checked is what may stand *)

(* A pair that does not conflict overlaps only where one side is parked    *)
(* and the other declares, off the slots.                                  *)
LEMMA NoConflictRides ==
  ASSUME NEW cl, NEW s, NEW scopes, NEW req, ~Conflicts(cl, s, scopes, req),
         NEW d \in OpenIn(cl), cl[d].owner # s, ~Ended(cl[d].owner),
         ~(req.shared /\ cl[d].shared),
         NEW n \in scopes, NEW h \in cl[d].scopes, Overlap(n, h)
  PROVE  \/ cl[d].inRun # NoClaim /\ ~OnSlots(h) /\ req.basedOn # NoClaim
         \/ req.inRun # NoClaim /\ ~OnSlots(n) /\ cl[d].basedOn # NoClaim
<1>1. Exempts(req, n, Marks(cl, d), h)
  BY DEF Conflicts
<1>2. \A m : Declaration(m) # NoClaim => m.basedOn # NoClaim
  BY DEF Declaration
<1>3. QED  BY <1>1, <1>2 DEF Exempts, ParkedYields, Marks

(* What the claim door asks on behalf of a request declaring `run`. *)
Asked(r, run) ==
  [inRun |-> NoClaim, runOpen |-> FALSE, basedOn |-> run, shared |-> r.shared]

(* A claim just written for s may stand beside a claim kept by another. *)
LEMMA RequestStands ==
  ASSUME LedgerInv, sessions' = sessions, NEW s, NEW r, NEW run,
         ~Conflicts(OrphanEnded(claims), s, r.scopes, Asked(r, run)),
         NEW w, claims'[w].scopes = r.scopes, claims'[w].shared = r.shared,
         claims'[w].basedOn = run,
         NEW d \in OpenIn(OrphanEnded(claims)),
         claims'[d] = claims[d], claims[d].owner # s
  PROVE  MayStand(w, d)'
<1> DEFINE cl == OrphanEnded(claims)
<1>1. cl[d] = claims[d] /\ ~Ended(claims[d].owner) /\ d \in OpenIn(claims)
  BY OrphanEndedOpen DEF LedgerInv
<1>2. claims[d].inRun # NoClaim => claims[d].producer # NoSession
  BY <1>1 DEF LedgerInv, OpenClaimsAreOwned
<1>3. ASSUME ~(r.shared /\ claims[d].shared),
             NEW n \in r.scopes, NEW h \in claims[d].scopes, Overlap(n, h)
      PROVE  claims[d].inRun # NoClaim /\ ~OnSlots(h) /\ run # NoClaim
  <2> DEFINE req == Asked(r, run)
  <2>1. ~(req.shared /\ cl[d].shared) /\ req.inRun = NoClaim /\ req.basedOn = run
    BY <1>1, <1>3 DEF Asked
  <2> HIDE DEF req
  <2>2. QED  BY <1>1, <1>3, <2>1, NoConflictRides DEF req
<1>4. QED  BY <1>2, <1>3 DEF MayStand, RiderBeside

(* A granted new claim overlaps nothing it may not: the conflict scan of its
   transaction covered every open claim. *)
LEMMA ClaimNewInv ==
  ASSUME LedgerInv, TypeOK', NEW s \in Session, NEW i, NEW r \in ClaimRequest,
         NEW id, ClaimNew(s, i, r, id)
  PROVE  LedgerInv'
<1> DEFINE cl == OrphanEnded(claims)
           run == DeclaredRun(cl, r.basedOn)
<1>1. TypeOK /\ sessions' = sessions
  BY DEF LedgerInv, ClaimNew
<1>2. id \notin DOMAIN claims
  BY <1>1 DEF ClaimNew, TypeOK
<1>3. /\ DOMAIN cl = DOMAIN claims
      /\ \A c \in OpenIn(cl) : c \in OpenIn(claims) /\ cl[c] = claims[c]
  BY <1>1, OrphanEndedOpen
<1>4. /\ claims'[id].owner = s
      /\ claims'[id].inc = i
      /\ claims'[id].slug = r.slug
      /\ claims'[id].scopes = r.scopes
      /\ claims'[id].shared = r.shared
      /\ claims'[id].inRun = NoClaim
      /\ claims'[id].basedOn = run
      /\ \A c \in DOMAIN claims' : c # id => c \in DOMAIN cl /\ claims'[c] = cl[c]
  <2> HIDE DEF cl
  <2>1. QED  BY DEF ClaimNew, Write, cl
<1>5. IsCaller(s, i) /\ MayClaim(cl, s, r) /\ NamedIn(cl, r.slug) = {}
  BY DEF ClaimNew
<1>6. ~Conflicts(cl, s, r.scopes, Asked(r, run))
  BY <1>5 DEF MayClaim, Asked
<1> HIDE DEF cl, run
<1>7. ASSUME NEW d \in OpenIn(claims'), d # id
      PROVE  d \in OpenIn(cl) /\ claims'[d] = claims[d] /\ claims'[d] = cl[d]
             /\ d \in OpenIn(claims)
  BY <1>3, <1>4, <1>7 DEF OpenIn
<1>8. ASSUME NEW d \in OpenIn(claims'), claims'[d].owner # s
      PROVE  MayStand(id, d)'
  <2>1. d # id
    BY <1>4, <1>8
  <2>2. /\ d \in OpenIn(OrphanEnded(claims)) /\ claims'[d] = claims[d] /\ claims[d].owner # s
        /\ ~Conflicts(OrphanEnded(claims), s, r.scopes, Asked(r, run))
    BY <1>6, <1>7, <1>8, <2>1 DEF cl
  <2>3. /\ claims'[id].scopes = r.scopes /\ claims'[id].shared = r.shared
        /\ claims'[id].basedOn = run
    BY <1>4
  <2>4. LedgerInv /\ sessions' = sessions
    BY <1>1
  <2>5. QED  BY <2>2, <2>3, <2>4, RequestStands
<1>9. NewRow(id, s)'
  <2>1. claims'[id].inc = sessions'[s].inc /\ Registered(s)'
    BY <1>1, <1>4, <1>5 DEF IsCaller, Live, Registered
  <2>2. claims'[id].shared => \A h \in claims'[id].scopes : ~OnSlots(h)
    BY <1>4, <1>5 DEF MayClaim
  <2>3. \A d \in OpenIn(claims') : claims'[id].slug = claims'[d].slug => id = d
    BY <1>4, <1>5, <1>7 DEF NamedIn
  <2>4. QED  BY <1>4, <1>8, <2>1, <2>2, <2>3 DEF NewRow, ParkedRight
<1>10. ASSUME NEW d \in OpenIn(claims'), d # id PROVE Kept(d)
  BY <1>1, <1>7, <1>10, UnchangedIsKept
<1>11. QED  BY <1>9, <1>10, StepKeepsInv

(* A refreshed claim, rescoped in place, passed the same scan against every
   claim but itself. *)
LEMMA ClaimRefreshInv ==
  ASSUME LedgerInv, TypeOK', NEW s \in Session, NEW i, NEW r \in ClaimRequest,
         ClaimRefresh(s, i, r)
  PROVE  LedgerInv'
<1> DEFINE cl == OrphanEnded(claims)
           run == DeclaredRun(cl, r.basedOn)
           W == NamedIn(cl, r.slug)
           rows == [c \in W |-> Rewritten(cl[c], i, r, run)]
<1>1. TypeOK /\ sessions' = sessions
  BY DEF LedgerInv, ClaimRefresh
<1>2. /\ DOMAIN cl = DOMAIN claims
      /\ \A c \in OpenIn(cl) : c \in OpenIn(claims) /\ cl[c] = claims[c]
  BY <1>1, OrphanEndedOpen
<1>3. IsCaller(s, i) /\ MayClaim(cl, s, r)
  BY DEF ClaimRefresh
<1>4. ~Conflicts(cl, s, r.scopes, Asked(r, run))
  BY <1>3 DEF MayClaim, Asked
<1>5. W \subseteq OpenIn(cl) /\ \A c \in W : cl[c].slug = r.slug /\ cl[c].owner = s
  BY <1>3 DEF MayClaim, NamedIn
<1>6. /\ DOMAIN claims' = DOMAIN cl
      /\ \A c \in W : claims'[c] = Rewritten(cl[c], i, r, run)
      /\ \A c \in DOMAIN cl \ W : claims'[c] = cl[c]
  <2>1. claims' = Write(cl, rows) /\ DOMAIN rows = W /\ W \subseteq DOMAIN cl
    BY <1>5 DEF ClaimRefresh, OpenIn
  <2> HIDE DEF cl, W, run
  <2>2. QED  BY <2>1 DEF Write
<1> HIDE DEF cl, run, W
<1>7. ASSUME NEW c \in W
      PROVE  /\ claims'[c].owner = s
             /\ claims'[c].inc = i
             /\ claims'[c].slug = r.slug
             /\ claims'[c].scopes = r.scopes
             /\ claims'[c].shared = r.shared
             /\ claims'[c].inRun = NoClaim
             /\ claims'[c].basedOn = run
  <2>1. cl[c] \in ClaimRow
    BY <1>1, <1>2, <1>5 DEF TypeOK, OpenIn
  <2>2. QED  BY <1>5, <1>6, <2>1 DEF Rewritten, ClaimRow
<1>8. ASSUME NEW d \in OpenIn(claims'), d \notin W
      PROVE  d \in OpenIn(cl) /\ claims'[d] = claims[d] /\ d \in OpenIn(claims)
  BY <1>2, <1>6, <1>8 DEF OpenIn
<1>9. ASSUME NEW c \in W PROVE NewRow(c, s)'
  <2>1. claims'[c].inc = sessions'[s].inc /\ Registered(s)'
    BY <1>1, <1>3, <1>7 DEF IsCaller, Live, Registered
  <2>2. claims'[c].shared => \A h \in claims'[c].scopes : ~OnSlots(h)
    BY <1>3, <1>7 DEF MayClaim
  <2>3. ASSUME NEW d \in OpenIn(claims'), claims'[c].slug = claims'[d].slug PROVE c = d
    <3>1. d \in OpenIn(claims) /\ claims[d].slug = r.slug
      BY <1>2, <1>5, <1>7, <1>8, <2>3
    <3>2. c \in OpenIn(claims) /\ claims[c].slug = r.slug
      BY <1>2, <1>5
    <3>3. QED  BY <3>1, <3>2 DEF LedgerInv, SlugsAreUnique
  <2>4. ASSUME NEW d \in OpenIn(claims'), claims'[d].owner # s PROVE MayStand(c, d)'
    <3>1. /\ d \in OpenIn(cl)
          /\ claims'[d] = claims[d]
          /\ claims[d].owner # s
      BY <1>7, <1>8, <2>4
    <3>2. QED  BY <1>1, <1>4, <1>7, <3>1, RequestStands DEF cl
  <2>5. QED  BY <1>7, <2>1, <2>2, <2>3, <2>4 DEF NewRow, ParkedRight
<1>10. ASSUME NEW d \in OpenIn(claims'), d \notin W PROVE Kept(d)
  BY <1>1, <1>8, <1>10, UnchangedIsKept
<1>11. QED  BY <1>9, <1>10, StepKeepsInv

(* A row handed to t: nothing but its holder and its parking changes. *)
HandedRow(old, new, t) ==
  /\ new.owner = t
  /\ new.inc = sessions[t].inc
  /\ new.slug = old.slug
  /\ new.shared = old.shared
  /\ new.scopes = old.scopes
  /\ new.inRun # NoClaim =>
       /\ new.producer # NoSession
       /\ \A h \in new.scopes : ~InBuddyDir(h)

(* Handing claims to a peer keeps the invariant: the scan runs from the
   receiver's side, and marks on what the receiver takes over come off. *)
LEMMA HandInv ==
  ASSUME LedgerInv, TypeOK', sessions' = sessions, NEW t, Registered(t),
         NEW moved \in SUBSET OpenIn(claims),
         DOMAIN claims' = DOMAIN claims,
         \A c \in DOMAIN claims \ moved : claims'[c] = claims[c],
         \A c \in moved : HandedRow(claims[c], claims'[c], t),
         Lands(claims', moved, t)
  PROVE  LedgerInv'
<1>1. ASSUME NEW d \in OpenIn(claims'), d \notin moved
      PROVE  d \in OpenIn(claims) /\ claims'[d] = claims[d] /\ Kept(d)
  BY <1>1, UnchangedIsKept DEF OpenIn
<1>2. ASSUME NEW c \in moved, NEW d \in OpenIn(claims'), claims'[d].owner # t
      PROVE  MayStand(c, d)'
  <2>1. d \notin moved
    BY <1>2 DEF HandedRow
  <2>2. d \in OpenIn(claims) /\ claims'[d] = claims[d]
    BY <1>1, <2>1
  <2>3. claims[d].inRun # NoClaim => claims[d].producer # NoSession
    BY <2>2 DEF LedgerInv, OpenClaimsAreOwned
  <2>4. claims'[c].inRun # NoClaim => claims'[c].producer # NoSession
    BY <1>2 DEF HandedRow
  <2>5. ~Conflicts(claims', t, claims'[c].scopes, Marks(claims', c))
    BY <1>2 DEF Lands
  <2>6. ASSUME Live(claims'[d].owner), ~(claims'[c].shared /\ claims'[d].shared),
               NEW n \in claims'[c].scopes, NEW h \in claims'[d].scopes, Overlap(n, h)
        PROVE  \/ claims'[d].inRun # NoClaim /\ ~OnSlots(h) /\ claims'[c].basedOn # NoClaim
               \/ claims'[c].inRun # NoClaim /\ ~OnSlots(n) /\ claims'[d].basedOn # NoClaim
    <3> DEFINE req == Marks(claims', c)
    <3>1. ~Ended(claims'[d].owner)
      BY <2>6 DEF Live, Ended
    <3>2. /\ req.shared = claims'[c].shared
          /\ req.inRun = claims'[c].inRun
          /\ req.basedOn = claims'[c].basedOn
      BY DEF Marks
    <3> HIDE DEF req
    <3>3. QED  BY <1>2, <2>5, <2>6, <3>1, <3>2, NoConflictRides DEF req
  <2>7. Live(claims'[d].owner) <=> Live(claims[d].owner)'
    BY <2>2 DEF Live, Registered
  <2>8. QED  BY <2>2, <2>3, <2>4, <2>6, <2>7 DEF MayStand, RiderBeside
<1>3. ASSUME NEW c \in moved, c \in OpenIn(claims') PROVE NewRow(c, t)'
  <2>1. ASSUME NEW d \in OpenIn(claims'), claims'[c].slug = claims'[d].slug PROVE c = d
    <3>1. d \in OpenIn(claims) /\ claims[d].slug = claims'[d].slug
      BY <1>1, <2>1 DEF HandedRow
    <3>2. c \in OpenIn(claims) /\ claims[c].slug = claims'[c].slug
      BY DEF HandedRow
    <3>3. QED  BY <2>1, <3>1, <3>2 DEF LedgerInv, SlugsAreUnique
  <2>2. claims'[c].shared => \A h \in claims'[c].scopes : ~OnSlots(h)
    BY DEF LedgerInv, SharedOffSlots, HandedRow
  <2>3. Registered(t)' /\ claims'[c].inc = sessions'[t].inc /\ claims'[c].owner = t
    BY DEF Registered, HandedRow
  <2>4. ParkedRight(c)'
    BY DEF ParkedRight, HandedRow
  <2>5. QED  BY <1>2, <2>1, <2>2, <2>3, <2>4 DEF NewRow
<1>4. QED  BY <1>1, <1>3, StepKeepsInv

(* TransferClaims keeps the invariant. *)
LEMMA TransferInv ==
  ASSUME LedgerInv, TypeOK', NEW s, NEW i, NEW slugs, NEW t, NEW j,
         TransferClaims(s, i, slugs, t, j)
  PROVE  LedgerInv'
<1> DEFINE moved == Selected(s, i, slugs)
           handed == [c \in moved |-> HandTo(claims[c], t, j)]
           cl == Write(claims, handed)
           lost == {m \in moved : ~(cl[m].inRun \in DOMAIN cl /\ cl[cl[m].inRun].owner = t)}
           rows == [c \in lost |-> Unmarked(cl[c])]
<1>1. TypeOK /\ sessions' = sessions /\ Registered(t) /\ j = sessions[t].inc
  BY DEF LedgerInv, TransferClaims, MayHandOn, IsCaller, Live
<1>2. moved \in SUBSET OpenIn(claims) /\ moved \subseteq DOMAIN claims
  BY SelectedOpen DEF OpenIn
<1>3. claims' = Write(cl, rows) /\ Lands(claims', moved, t)
  BY DEF TransferClaims
<1>4. /\ DOMAIN cl = DOMAIN claims
      /\ \A c \in moved : cl[c] = HandTo(claims[c], t, j)
      /\ \A c \in DOMAIN claims \ moved : cl[c] = claims[c]
  <2> HIDE DEF moved
  <2>1. QED  BY <1>2 DEF Write
<1>5. lost \subseteq moved
  OBVIOUS
<1> HIDE DEF cl, lost, moved
<1>6. /\ DOMAIN claims' = DOMAIN claims
      /\ \A c \in lost : claims'[c] = Unmarked(cl[c])
      /\ \A c \in DOMAIN claims \ lost : claims'[c] = cl[c]
  BY <1>2, <1>3, <1>4, <1>5 DEF Write
<1>7. ASSUME NEW c \in moved PROVE HandedRow(claims[c], claims'[c], t)
  <2>1. claims[c] \in ClaimRow /\ c \in OpenIn(claims)
    BY <1>1, <1>2 DEF TypeOK
  <2>2. claims'[c] = IF c \in lost THEN Unmarked(HandTo(claims[c], t, j))
                                   ELSE HandTo(claims[c], t, j)
    BY <1>2, <1>4, <1>6
  <2>3. claims[c].inRun # NoClaim =>
          /\ claims[c].producer # NoSession
          /\ \A h \in claims[c].scopes : ~InBuddyDir(h)
    BY <2>1 DEF LedgerInv, OpenClaimsAreOwned, ParkedNeverCoordination
  <2>4. /\ claims'[c].owner = t
        /\ claims'[c].inc = j
        /\ claims'[c].slug = claims[c].slug
        /\ claims'[c].shared = claims[c].shared
        /\ claims'[c].scopes = claims[c].scopes
        /\ claims'[c].inRun \in {claims[c].inRun, NoClaim}
        /\ claims'[c].inRun # NoClaim => claims'[c].producer = claims[c].producer
    BY <2>1, <2>2 DEF Unmarked, HandTo, ClaimRow
  <2>5. QED  BY <1>1, <2>3, <2>4 DEF HandedRow
<1>8. \A c \in DOMAIN claims \ moved : claims'[c] = claims[c]
  BY <1>4, <1>5, <1>6
<1>9. QED  BY <1>1, <1>2, <1>3, <1>6, <1>7, <1>8, HandInv

(* TransferClaimsInRun keeps the invariant. *)
LEMMA TransferInRunInv ==
  ASSUME LedgerInv, TypeOK', NEW s \in Session, NEW i, NEW slugs, NEW t, NEW j, NEW run,
         TransferClaimsInRun(s, i, slugs, t, j, run)
  PROVE  LedgerInv'
<1> DEFINE moved == Selected(s, i, slugs)
<1>1. TypeOK /\ sessions' = sessions /\ Registered(t) /\ j = sessions[t].inc
  BY DEF LedgerInv, TransferClaimsInRun, MayHandOn, IsCaller, Live
<1>2. moved \in SUBSET OpenIn(claims) /\ moved \subseteq DOMAIN claims
  BY SelectedOpen DEF OpenIn
<1>3. PICK r \in ParkTarget(t, run, moved) :
        /\ claims' = Write(claims, [c \in moved |-> Parked(HandTo(claims[c], t, j), r, s)])
        /\ Lands(claims', moved, t)
  BY DEF TransferClaimsInRun
<1>4. \A c \in moved : \A h \in claims[c].scopes : ~InBuddyDir(h)
  BY <1>3 DEF ParkTarget
<1> HIDE DEF moved
<1>5. /\ DOMAIN claims' = DOMAIN claims
      /\ \A c \in moved : claims'[c] = Parked(HandTo(claims[c], t, j), r, s)
      /\ \A c \in DOMAIN claims \ moved : claims'[c] = claims[c]
  BY <1>2, <1>3 DEF Write
<1>6. ASSUME NEW c \in moved PROVE HandedRow(claims[c], claims'[c], t)
  <2>1. claims[c] \in ClaimRow
    BY <1>1, <1>2 DEF TypeOK
  <2>2. /\ claims'[c].owner = t
        /\ claims'[c].inc = j
        /\ claims'[c].slug = claims[c].slug
        /\ claims'[c].shared = claims[c].shared
        /\ claims'[c].scopes = claims[c].scopes
        /\ claims'[c].producer # NoSession
    <3> DEFINE h == HandTo(claims[c], t, j)
    <3>1. /\ claims'[c] = Parked(h, r, s)
          /\ h = [claims[c] EXCEPT !.owner = t, !.inc = j, !.renewed = now]
      BY <1>5 DEF HandTo
    <3> HIDE DEF h
    <3>2. /\ claims'[c].owner = h.owner
          /\ claims'[c].inc = h.inc
          /\ claims'[c].slug = h.slug
          /\ claims'[c].shared = h.shared
          /\ claims'[c].scopes = h.scopes
          /\ claims'[c].producer # NoSession
      BY <2>1, <3>1, NullAssumption DEF Parked, ClaimRow
    <3>3. QED  BY <2>1, <3>1, <3>2 DEF ClaimRow
  <2>3. QED  BY <1>1, <1>4, <2>2 DEF HandedRow
<1>7. QED  BY <1>1, <1>2, <1>3, <1>5, <1>6, HandInv

-----------------------------------------------------------------------------
(* The empty ledger satisfies the invariant. *)
LEMMA InitInv == Init => LedgerInv
<1> SUFFICES ASSUME Init PROVE LedgerInv
  OBVIOUS
<1>1. OpenIn(claims) = {}
  BY DEF Init, OpenIn
<1>2. QED
  BY <1>1, InitType DEF LedgerInv, OpenClaimsAreOwned, OpenClaimsAreCurrent, SlugsAreUnique,
     ParkedNeverCoordination, SharedOffSlots, StandingOverlapsAreRiders

(* Every hand-over step keeps the invariant. *)
LEMMA HandStepInv ==
  ASSUME LedgerInv, TypeOK', NEW s \in Session, NEW i, HandStep(s, i)
  PROVE  LedgerInv'
<1>1. ASSUME NEW slugs, NEW run, ParkClaims(s, i, slugs, run) PROVE LedgerInv'
  BY <1>1, ParkInv
<1>2. ASSUME NEW slug, UnparkClaim(s, i, slug) PROVE LedgerInv'
  BY <1>2, UnparkInv
<1>3. ASSUME NEW slugs, NEW t, NEW j, TransferClaims(s, i, slugs, t, j) PROVE LedgerInv'
  BY <1>3, TransferInv
<1>4. ASSUME NEW slugs, NEW t, NEW j, NEW run, TransferClaimsInRun(s, i, slugs, t, j, run)
      PROVE  LedgerInv'
  BY <1>4, TransferInRunInv
<1>5. QED  BY <1>1, <1>2, <1>3, <1>4 DEF HandStep

(* The invariant is inductive: every step of the ledger keeps it. *)
LEMMA NextInv ==
  ASSUME LedgerInv, TypeOK', [Next]_vars
  PROVE  LedgerInv'
<1>1. ASSUME UNCHANGED <<sessions, claims>> PROVE LedgerInv'
  BY <1>1, SameTableKeeps, KeepingKeepsInv DEF LedgerInv, OwnerKeeps
<1>2. CASE Tick \/ UNCHANGED vars
  BY <1>1, <1>2 DEF Tick, vars
<1>3. ASSUME NEW s \in Session, SessionStep(s) PROVE LedgerInv'
  BY <1>3, SessionStepInv
<1>4. ASSUME NEW s \in Session, NEW i, ClaimStep(s, i) PROVE LedgerInv'
  BY <1>4, ClaimNewInv, ClaimRefreshInv, RequestAssumption DEF ClaimStep
<1>5. ASSUME NEW s \in Session, NEW i, ReleaseStep(s, i) PROVE LedgerInv'
  BY <1>5, ReleaseStepInv
<1>6. ASSUME NEW s \in Session, NEW i, HandStep(s, i) PROVE LedgerInv'
  BY <1>6, HandStepInv
<1>7. ASSUME NEW force, Sweep(force) PROVE LedgerInv'
  BY <1>7, SweepInv
<1>8. QED  BY <1>2, <1>3, <1>4, <1>5, <1>6, <1>7 DEF Next, HolderStep

(* The invariant the exclusion rests on holds in every reachable ledger.   *)
THEOREM LedgerInvariant == Spec => []LedgerInv
<1>1. LedgerInv /\ TypeOK' /\ [Next]_vars => LedgerInv'
  BY NextInv
<1>2. QED  BY <1>1, InitInv, TypeCorrect, PTL DEF Spec

(* No claim outlives the registration it is held under. *)
THEOREM ClaimsStayCurrent == Spec => []OpenClaimsAreCurrent
<1>1. LedgerInv => OpenClaimsAreCurrent
  BY DEF LedgerInv
<1>2. QED  BY <1>1, LedgerInvariant, PTL

(* A claim parked in a run never reaches .buddy. *)
THEOREM ParkedStaysOffCoordination == Spec => []ParkedNeverCoordination
<1>1. LedgerInv => ParkedNeverCoordination
  BY DEF LedgerInv
<1>2. QED  BY <1>1, LedgerInvariant, PTL

(* Overlapping claims of two live sessions are both shared, or one was     *)
(* parked and the other declares a run, whichever operations brought them  *)
(* together.                                                               *)
THEOREM OnlyRidersOverlap == Spec => []StandingOverlapsAreRiders
<1>1. LedgerInv => StandingOverlapsAreRiders
  BY DEF LedgerInv
<1>2. QED  BY <1>1, LedgerInvariant, PTL

(* Two live sessions never both hold a slot. *)
THEOREM SlotsAreExclusive == Spec => []SlotHasOneHolder
<1>1. ASSUME LedgerInv,
             NEW c \in OpenIn(claims), NEW d \in OpenIn(claims),
             Live(claims[c].owner), Live(claims[d].owner),
             NEW g \in claims[c].scopes, NEW h \in claims[d].scopes,
             Overlap(g, h), OnSlots(g), OnSlots(h)
      PROVE  claims[c].owner = claims[d].owner
  <2>1. ~claims[c].shared
    BY <1>1 DEF LedgerInv, SharedOffSlots
  <2>2. ~RiderBeside(c, g, d) /\ ~RiderBeside(d, h, c)
    BY <1>1 DEF RiderBeside
  <2>3. QED  BY <1>1, <2>1, <2>2 DEF LedgerInv, StandingOverlapsAreRiders
<1>2. LedgerInv => SlotHasOneHolder
  BY <1>1 DEF SlotHasOneHolder
<1>3. QED  BY <1>2, LedgerInvariant, PTL

(* A slug names at most one open claim. *)
THEOREM SlugsNameOneClaim == Spec => []OneOpenClaimPerSlug
<1>1. ASSUME LedgerInv, NEW slug \in Slug
      PROVE  Cardinality(NamedIn(claims, slug)) <= 1
  <2>1. \A c, d \in NamedIn(claims, slug) : c = d
    BY <1>1 DEF LedgerInv, SlugsAreUnique, NamedIn
  <2>2. CASE NamedIn(claims, slug) = {}
    BY <2>2, FS_EmptySet
  <2>3. CASE NamedIn(claims, slug) # {}
    <3>1. PICK c : NamedIn(claims, slug) = {c}
      BY <2>1, <2>3
    <3>2. Cardinality({c}) = 1
      BY FS_Singleton, Zenon
    <3>3. QED  BY <3>1, <3>2
  <2>4. QED  BY <2>2, <2>3
<1>2. LedgerInv => OneOpenClaimPerSlug
  BY <1>1 DEF OneOpenClaimPerSlug
<1>3. QED  BY <1>2, LedgerInvariant, PTL

(* The invariant of the run: claims are of the current registration of     *)
(* their owner, and a slot has one holder.                                 *)
THEOREM ClaimsStayHeld == Spec => []ClaimsAreHeld
<1>1. TypeOK /\ OpenClaimsAreCurrent /\ SlotHasOneHolder => ClaimsAreHeld
  BY DEF ClaimsAreHeld
<1>2. QED  BY <1>1, TypeCorrect, ClaimsStayCurrent, SlotsAreExclusive, PTL

(* And what overlaps was admitted by a door of its own.                    *)
THEOREM OverlapsStayAdmitted == Spec => []OverlapsAreAdmitted
<1>1. ParkedNeverCoordination /\ StandingOverlapsAreRiders => OverlapsAreAdmitted
  BY DEF OverlapsAreAdmitted
<1>2. QED  BY <1>1, ParkedStaysOffCoordination, OnlyRidersOverlap, PTL

-----------------------------------------------------------------------------
(* How claims end.                                                         *)

(* The table a step leaves: nothing that was minted before comes back, a   *)
(* row that is closed stays as it is, and an open one is orphaned only     *)
(* when its owner has ended or been silent.                                *)
Gone(s) == Ended(s) \/ now - sessions[s].seen > ForceAfter

EndsRight(cl) ==
  /\ DOMAIN cl \cap minted \subseteq DOMAIN claims
  /\ \A c \in DOMAIN cl \cap DOMAIN claims : c \notin OpenIn(claims) => cl[c] = claims[c]
  /\ \A c \in DOMAIN cl \cap OpenIn(claims) : cl[c].state = "orphaned" => Gone(claims[c].owner)

(* Writing rows that were open does so, if those it orphans are of the     *)
(* gone.                                                                   *)
LEMMA WriteEndsRight ==
  ASSUME TypeOK, NEW S \in SUBSET OpenIn(claims), NEW rows, DOMAIN rows = S,
         \A c \in S : rows[c].state = "orphaned" => Gone(claims[c].owner)
  PROVE  EndsRight(Write(claims, rows))
<1>1. S \subseteq DOMAIN claims
  BY DEF OpenIn
<1>2. /\ DOMAIN Write(claims, rows) = DOMAIN claims
      /\ \A c \in S : Write(claims, rows)[c] = rows[c]
      /\ \A c \in DOMAIN claims \ S : Write(claims, rows)[c] = claims[c]
  BY <1>1 DEF Write
<1>3. \A c \in OpenIn(claims) : claims[c].state # "orphaned"
  BY DEF OpenIn
<1>4. QED  BY <1>2, <1>3 DEF EndsRight

(* So does the tidying up after the sessions that ended. *)
LEMMA OrphanEndedEndsRight == TypeOK => EndsRight(OrphanEnded(claims))
<1> SUFFICES ASSUME TypeOK PROVE EndsRight(OrphanEnded(claims))
  OBVIOUS
<1>1. \A c \in OpenIn(claims) : claims[c].state # "orphaned"
  BY DEF OpenIn
<1>2. QED  BY <1>1, OrphanEndedOpen DEF EndsRight, Gone

(* A claim asked for anew, or rewritten, touches only what is open and     *)
(* what was never minted.                                                  *)
LEMMA ClaimStepEndsRight ==
  ASSUME TypeOK, NEW s, NEW i, ClaimStep(s, i)
  PROVE  EndsRight(claims')
<1> DEFINE cl == OrphanEnded(claims)
<1>1. EndsRight(cl) /\ DOMAIN cl = DOMAIN claims /\ OpenIn(cl) \subseteq OpenIn(claims)
  BY OrphanEndedEndsRight, OrphanEndedOpen
<1> HIDE DEF cl
<1>2. ASSUME NEW r, NEW id, ClaimNew(s, i, r, id) PROVE EndsRight(claims')
  <2>1. /\ id \notin minted /\ id \notin DOMAIN claims
        /\ DOMAIN claims' = DOMAIN claims \cup {id}
        /\ \A c \in DOMAIN claims : claims'[c] = cl[c]
    <3>1. PICK new : claims' = Write(cl, [c \in {id} |-> new]) /\ id \notin minted
      BY <1>2 DEF ClaimNew, cl
    <3>2. id \notin DOMAIN claims
      BY <3>1 DEF TypeOK
    <3>3. QED  BY <1>1, <3>1, <3>2 DEF Write
  <2>2. OpenIn(claims) \subseteq DOMAIN claims
    BY DEF OpenIn
  <2>3. QED  BY <1>1, <2>1, <2>2 DEF EndsRight
<1>3. ASSUME NEW r, ClaimRefresh(s, i, r) PROVE EndsRight(claims')
  <2> DEFINE W == NamedIn(cl, r.slug)
             run == DeclaredRun(cl, r.basedOn)
             rows == [c \in W |-> Rewritten(cl[c], i, r, run)]
  <2>1. claims' = Write(cl, rows) /\ DOMAIN rows = W
    BY <1>3 DEF ClaimRefresh, cl
  <2>2. W \subseteq OpenIn(cl) /\ W \subseteq DOMAIN cl
    BY DEF NamedIn, OpenIn
  <2>3. \A c \in W : rows[c].state # "orphaned"
    <3>1. \A c \in W : cl[c].state = "open" /\ claims[c] = cl[c] /\ claims[c] \in ClaimRow
      BY <1>1, <2>2, OrphanEndedOpen DEF OpenIn, TypeOK, cl
    <3>2. QED  BY <3>1 DEF Rewritten, ClaimRow
  <2> HIDE DEF W, rows
  <2>4. /\ DOMAIN claims' = DOMAIN claims
        /\ \A c \in W : claims'[c] = rows[c]
        /\ \A c \in DOMAIN claims \ W : claims'[c] = cl[c]
    BY <1>1, <2>1, <2>2 DEF Write
  <2>5. QED  BY <1>1, <2>2, <2>3, <2>4 DEF EndsRight
<1>4. QED  BY <1>2, <1>3 DEF ClaimStep

(* A session that comes, is heard or goes renews or orphans. *)
LEMMA SessionStepEndsRight ==
  ASSUME TypeOK, NEW s \in Session, SessionStep(s)
  PROVE  EndsRight(claims')
<1>1. EndsRight(claims)
  BY DEF EndsRight, OpenIn
<1>2. ASSUME NEW S \in SUBSET OpenIn(claims), Renew(S) PROVE EndsRight(claims')
  <2> DEFINE rows == [c \in S |-> Renewed(claims[c])]
  <2>1. \A c \in S : rows[c].state # "orphaned"
    BY DEF Renewed, OpenIn, TypeOK, ClaimRow
  <2>2. claims' = Write(claims, rows) /\ DOMAIN rows = S
    BY <1>2 DEF Renew
  <2> HIDE DEF rows
  <2>3. QED  BY <2>1, <2>2, WriteEndsRight
<1>3. CASE claims' = OrphanEnded(claims)
  BY <1>3, OrphanEndedEndsRight
<1>4. CASE claims' = claims
  BY <1>1, <1>4
<1>5. ASSUME NEW p, BeatFrom(s, p) PROVE EndsRight(claims')
  BY <1>2, <1>5 DEF BeatFrom
<1>6. ASSUME NEW i, NEW p, BeatLogical(s, i, p) \/ RenewLogical(s, i, p)
      PROVE  EndsRight(claims')
  <2>1. {c \in HeldIn(claims, s, i) : CoversPath(c, p)} \in SUBSET OpenIn(claims)
    BY DEF HeldIn
  <2>2. QED  BY <1>2, <1>6, <2>1 DEF BeatLogical, RenewLogical
<1>7. QED
  BY <1>3, <1>4, <1>5, <1>6
  DEF SessionStep, Arrive, Proceed, HelloNew, HelloLive, BeginLogical, Bye, ByeFrom, EndLogical,
      End, Heard, RefreshLogical, Seen

(* What a holder gives back, parks or hands on was open, and none of it is *)
(* orphaned.                                                               *)
LEMMA HolderStepEndsRight ==
  ASSUME TypeOK, NEW s \in Session, NEW i, HolderStep(s, i)
  PROVE  EndsRight(claims')
<1>1. ASSUME NEW slugs, NEW rows, DOMAIN rows = Selected(s, i, slugs),
             \A c \in Selected(s, i, slugs) : rows[c].state # "orphaned",
             claims' = Write(claims, rows)
      PROVE  EndsRight(claims')
  <2>1. Selected(s, i, slugs) \in SUBSET OpenIn(claims)
    BY SelectedOpen
  <2>2. QED  BY <1>1, <2>1, WriteEndsRight
<1>2. \A slugs : \A c \in Selected(s, i, slugs) : claims[c] \in ClaimRow /\ claims[c].state = "open"
  BY SelectedOpen DEF OpenIn, TypeOK
<1>3. ASSUME NEW slugs, Release(Selected(s, i, slugs)) PROVE EndsRight(claims')
  <2> DEFINE rows == [c \in Selected(s, i, slugs) |-> Released(claims[c])]
  <2>1. \A c \in Selected(s, i, slugs) : rows[c].state # "orphaned"
    BY <1>2 DEF Released, ClaimRow
  <2>2. claims' = Write(claims, rows) /\ DOMAIN rows = Selected(s, i, slugs)
    BY <1>3 DEF Release
  <2> HIDE DEF rows
  <2>3. QED  BY <1>1, <2>1, <2>2
<1>4. ASSUME NEW slug, NEW drop, ReleaseScopes(s, i, slug, drop) PROVE EndsRight(claims')
  <2> DEFINE rows == [c \in Selected(s, i, {slug}) |-> Narrowed(claims[c], drop)]
  <2>1. \A c \in Selected(s, i, {slug}) : rows[c].state # "orphaned"
    BY <1>2 DEF Narrowed, Released, Renewed, ClaimRow
  <2>2. claims' = Write(claims, rows) /\ DOMAIN rows = Selected(s, i, {slug})
    BY <1>4 DEF ReleaseScopes
  <2> HIDE DEF rows
  <2>3. QED  BY <1>1, <2>1, <2>2
<1>5. ASSUME NEW slugs, NEW run, ParkClaims(s, i, slugs, run) PROVE EndsRight(claims')
  <2>1. PICK r : claims' = Write(claims, [c \in Selected(s, i, slugs) |-> Renewed(Parked(claims[c], r, s))])
    BY <1>5 DEF ParkClaims
  <2> DEFINE rows == [c \in Selected(s, i, slugs) |-> Renewed(Parked(claims[c], r, s))]
  <2>2. \A c \in Selected(s, i, slugs) : rows[c].state # "orphaned"
    BY <1>2 DEF Renewed, Parked, ClaimRow
  <2>3. claims' = Write(claims, rows) /\ DOMAIN rows = Selected(s, i, slugs)
    BY <2>1
  <2> HIDE DEF rows
  <2>4. QED  BY <1>1, <2>2, <2>3
<1>6. ASSUME NEW slug, UnparkClaim(s, i, slug) PROVE EndsRight(claims')
  <2> DEFINE rows == [c \in Selected(s, i, {slug}) |-> Renewed(Unparked(claims[c]))]
  <2>1. \A c \in Selected(s, i, {slug}) : rows[c].state # "orphaned"
    BY <1>2 DEF Unparked, Renewed, ClaimRow
  <2>2. claims' = Write(claims, rows) /\ DOMAIN rows = Selected(s, i, {slug})
    BY <1>6 DEF UnparkClaim
  <2> HIDE DEF rows
  <2>3. QED  BY <1>1, <2>1, <2>2
<1>7. ASSUME NEW slugs, NEW t, NEW j, NEW run, TransferClaimsInRun(s, i, slugs, t, j, run)
      PROVE  EndsRight(claims')
  <2>1. PICK r : claims' = Write(claims, [c \in Selected(s, i, slugs) |-> Parked(HandTo(claims[c], t, j), r, s)])
    BY <1>7 DEF TransferClaimsInRun
  <2> DEFINE rows == [c \in Selected(s, i, slugs) |-> Parked(HandTo(claims[c], t, j), r, s)]
  <2>2. \A c \in Selected(s, i, slugs) : rows[c].state # "orphaned"
    BY <1>2 DEF HandTo, Parked, ClaimRow
  <2>3. claims' = Write(claims, rows) /\ DOMAIN rows = Selected(s, i, slugs)
    BY <2>1
  <2> HIDE DEF rows
  <2>4. QED  BY <1>1, <2>2, <2>3
<1>8. ASSUME NEW slugs, NEW t, NEW j, TransferClaims(s, i, slugs, t, j) PROVE EndsRight(claims')
  <2> DEFINE moved == Selected(s, i, slugs)
             handed == [c \in moved |-> HandTo(claims[c], t, j)]
             cl == Write(claims, handed)
             lost == {m \in moved : ~(cl[m].inRun \in DOMAIN cl /\ cl[cl[m].inRun].owner = t)}
             rows == [c \in lost |-> Unmarked(cl[c])]
  <2>1. claims' = Write(cl, rows)
    BY <1>8 DEF TransferClaims
  <2>2. moved \subseteq OpenIn(claims) /\ moved \subseteq DOMAIN claims
    BY SelectedOpen DEF OpenIn
  <2>3. /\ DOMAIN cl = DOMAIN claims
        /\ \A c \in moved : cl[c] = HandTo(claims[c], t, j)
        /\ \A c \in DOMAIN claims \ moved : cl[c] = claims[c]
    <3> HIDE DEF moved
    <3>1. QED  BY <2>2 DEF Write
  <2>4. lost \subseteq moved
    OBVIOUS
  <2> HIDE DEF cl, lost, moved
  <2>5. /\ DOMAIN claims' = DOMAIN claims
        /\ \A c \in lost : claims'[c] = Unmarked(cl[c])
        /\ \A c \in DOMAIN claims \ lost : claims'[c] = cl[c]
    BY <2>1, <2>2, <2>3, <2>4 DEF Write
  <2>6. \A c \in moved : claims'[c].state # "orphaned"
    <3>1. \A c \in moved : claims[c] \in ClaimRow /\ claims[c].state = "open"
      BY <1>2 DEF moved
    <3>2. ASSUME NEW c \in moved
          PROVE  claims'[c] \in {HandTo(claims[c], t, j), Unmarked(HandTo(claims[c], t, j))}
      BY <2>2, <2>3, <2>4, <2>5, <3>2
    <3>3. \A row \in ClaimRow : HandTo(row, t, j).state = row.state
      BY DEF HandTo, ClaimRow
    <3>4. \A row \in ClaimRow : Unmarked(HandTo(row, t, j)).state = row.state
      BY DEF HandTo, Unmarked, ClaimRow
    <3>5. QED  BY <3>1, <3>2, <3>3, <3>4
  <2>7. \A c \in DOMAIN claims \ moved : claims'[c] = claims[c]
    BY <2>3, <2>4, <2>5
  <2>8. QED  BY <2>2, <2>5, <2>6, <2>7 DEF EndsRight, OpenIn
<1>9. QED
  BY <1>3, <1>4, <1>5, <1>6, <1>7, <1>8
  DEF HolderStep, ReleaseStep, HandStep, ReleaseOutcome, ReleaseClaims

(* A sweep orphans what the ended hold and, forced, what the silent do. *)
LEMMA SweepEndsRight ==
  ASSUME TypeOK, NEW force, Sweep(force)
  PROVE  EndsRight(claims')
<1> DEFINE cl == OrphanEnded(claims)
           quiet == {c \in OpenIn(cl) : force /\ Silent(cl[c].owner)}
           rows == [c \in quiet |-> Orphaned(cl[c])]
           swept == Write(cl, rows)
           old == {c \in DOMAIN swept :
                     swept[c].state # "open" /\ swept[c].renewed < now - TTL}
<1>1. claims' = [c \in DOMAIN swept \ old |-> swept[c]]
  BY DEF Sweep
<1>2. EndsRight(cl) /\ DOMAIN cl = DOMAIN claims
  BY OrphanEndedEndsRight, OrphanEndedOpen
<1>3. \A c \in OpenIn(cl) : c \in OpenIn(claims) /\ cl[c] = claims[c]
  BY OrphanEndedOpen
<1>4. quiet \subseteq OpenIn(cl) /\ quiet \subseteq DOMAIN cl /\ DOMAIN rows = quiet
  BY DEF OpenIn
<1>5. \A c \in quiet : Gone(claims[c].owner)
  <2>1. \A c \in quiet : claims[c].owner \in Session /\ Silent(claims[c].owner)
    BY <1>3, <1>4 DEF TypeOK, OpenIn, ClaimRow
  <2>2. \A s \in Session : Silent(s) => Gone(s)
    BY PeriodAssumption DEF Silent, Gone, TypeOK, SessionRow
  <2>3. QED  BY <2>1, <2>2
<1>6. /\ DOMAIN swept = DOMAIN claims
      /\ \A c \in DOMAIN claims \ quiet : swept[c] = cl[c]
  <2> HIDE DEF cl, quiet, rows
  <2>1. QED  BY <1>2, <1>4 DEF Write
<1> HIDE DEF cl, quiet, rows, swept, old
<1>7. QED  BY <1>1, <1>2, <1>3, <1>4, <1>5, <1>6 DEF EndsRight

(* The table every step leaves. *)
LEMMA NextEndsRight ==
  ASSUME TypeOK, Next
  PROVE  EndsRight(claims')
<1>1. CASE Tick
  BY <1>1 DEF Tick, EndsRight, OpenIn
<1>2. QED
  BY <1>1, SessionStepEndsRight, ClaimStepEndsRight, HolderStepEndsRight, SweepEndsRight DEF Next

(* A claim ends once, whatever runs: no step reopens, changes or brings    *)
(* back a claim that was closed, and none takes a claim from a session     *)
(* that is registered and heard.                                           *)
THEOREM ClaimsEndJustly == Spec => ClaimsEndOnce
<1>1. ASSUME TypeOK, Next PROVE ClosedStays /\ OrphanedOnlyIfGone
  <2>1. EndsRight(claims')
    BY <1>1, NextEndsRight
  <2>2. OpenIn(claims) \subseteq DOMAIN claims
    BY DEF OpenIn
  <2>3. QED  BY <2>1, <2>2 DEF EndsRight, Gone, ClosedStays, OrphanedOnlyIfGone
<1>2. TypeOK /\ [Next]_vars => [ClosedStays /\ OrphanedOnlyIfGone]_vars
  BY <1>1
<1>3. QED  BY <1>2, TypeCorrect, PTL DEF Spec, ClaimsEndOnce

-----------------------------------------------------------------------------
(* The gate.                                                               *)

(* A claim that declares something is exclusive and not parked in an open  *)
(* run: no claim plays both roles at once.                                 *)
LEMMA OneRole ==
  ASSUME TypeOK, NEW c \in OpenIn(claims), Declaration(Marks(claims, c)) # NoClaim
  PROVE  /\ ~claims[c].shared
         /\ ~(Marks(claims, c).inRun # NoClaim /\ Marks(claims, c).runOpen)
BY DEF Declaration, Marks, TypeOK, ClaimRow, OpenIn

(* The gate asks for a declaration only: a held claim it passes over is    *)
(* parked, in the very run that declaration names, and that run is open.   *)
LEMMA YieldsToDeclared ==
  ASSUME NEW run, NEW p, NEW m, NEW h, Exempts(Declaring(run), p, m, h)
  PROVE  m.inRun # NoClaim /\ m.runOpen /\ m.inRun = run
BY DEF Exempts, Declaring, Declaration, ParkedYields

(* An exclusive claim over p that is not parked in an open run refuses the *)
(* path to every other session.                                            *)
LEMMA ActiveRefuses ==
  ASSUME TypeOK, NEW p, NEW c \in OpenIn(claims), CoversPath(c, p), ~claims[c].shared,
         ~(Marks(claims, c).inRun # NoClaim /\ Marks(claims, c).runOpen),
         NEW t, claims[c].owner # t
  PROVE  ~Passes(t, p)
<1>1. PICK h \in claims[c].scopes : Covers(h, p)
  BY DEF CoversPath
<1>2. \A run : ~Exempts(Declaring(run), p, Marks(claims, c), h)
  BY YieldsToDeclared
<1>3. c \in StandingAt(t, p)
  BY <1>1, <1>2 DEF StandingAt
<1>4. QED  BY <1>3 DEF Passes

(* A session that passes an exclusive claim of another over p has itself   *)
(* an exclusive claim over p, not parked in an open run.                   *)
LEMMA PasserIsActive ==
  ASSUME TypeOK, NEW p, NEW e \in OpenIn(claims), CoversPath(e, p), ~claims[e].shared,
         NEW s, claims[e].owner # s, Passes(s, p)
  PROVE  \E c \in MineAt(s, p) :
            /\ ~claims[c].shared
            /\ ~(Marks(claims, c).inRun # NoClaim /\ Marks(claims, c).runOpen)
<1>1. PICK h \in claims[e].scopes : Covers(h, p)
  BY DEF CoversPath
<1>2. e \notin StandingAt(s, p)
  BY DEF Passes
<1>3. PICK run \in DeclaredAt(s, p) : Exempts(Declaring(run), p, Marks(claims, e), h)
  BY <1>1, <1>2 DEF StandingAt
<1>4. PICK c \in MineAt(s, p) : Declaration(Marks(claims, c)) # NoClaim
  BY <1>3 DEF DeclaredAt
<1>5. c \in OpenIn(claims)
  BY DEF MineAt
<1>6. QED  BY <1>4, <1>5, OneRole

(* The gate's exclusion in one state: of two sessions that pass, one does  *)
(* not own the exclusive claim, so it is active over the path, and what it *)
(* holds refuses the other.                                                *)
LEMMA TypeGivesExclusion == TypeOK => GateExclusion
<1> SUFFICES ASSUME TypeOK, NEW p \in Path, NEW e \in OpenIn(claims),
                    CoversPath(e, p), ~claims[e].shared,
                    NEW s \in Session, NEW t \in Session,
                    Passes(s, p), Passes(t, p), s # t
             PROVE  FALSE
  BY DEF GateExclusion
<1>1. ASSUME NEW x \in Session, NEW y \in Session, x # y, claims[e].owner # x,
             Passes(x, p), Passes(y, p)
      PROVE  FALSE
  <2>1. PICK c \in MineAt(x, p) :
          /\ ~claims[c].shared
          /\ ~(Marks(claims, c).inRun # NoClaim /\ Marks(claims, c).runOpen)
    BY <1>1, PasserIsActive
  <2>2. c \in OpenIn(claims) /\ claims[c].owner # y /\ CoversPath(c, p)
    BY <1>1 DEF MineAt
  <2>3. QED  BY <1>1, <2>1, <2>2, ActiveRefuses
<1>2. QED  BY <1>1

(* On a path that any exclusive claim covers, at most one session ever     *)
(* passes the gate, in every reachable ledger.                             *)
THEOREM GateIsExclusive == Spec => []GateExclusion
BY TypeCorrect, TypeGivesExclusion, PTL

(* Two scopes that cover the same path overlap: both are prefixes of it.   *)
LEMMA CoversMeet ==
  ASSUME NEW n \in Seq(STRING), NEW h \in Seq(STRING), NEW p \in Seq(STRING),
         Covers(n, p), Covers(h, p)
  PROVE  Overlap(n, h)
<1>1. ASSUME NEW x \in Seq(STRING), NEW y \in Seq(STRING),
             Covers(x, p), Covers(y, p), Len(x) <= Len(y)
      PROVE  Covers(x, y)
  <2>1. /\ Len(x) \in Nat /\ Len(y) \in Nat /\ Len(p) \in Nat /\ Len(y) <= Len(p)
        /\ SubSeq(x, 1, Len(x)) = SubSeq(p, 1, Len(x))
        /\ SubSeq(y, 1, Len(y)) = SubSeq(p, 1, Len(y))
    BY <1>1 DEF Covers, IsPrefix
  <2>2. y = SubSeq(y, 1, Len(y))
    OBVIOUS
  <2>3. \A k \in 1 .. Len(y) : y[k] = p[k]
    BY <2>1, <2>2
  <2>4. SubSeq(y, 1, Len(x)) = SubSeq(p, 1, Len(x))
    BY <1>1, <2>1, <2>3
  <2>5. QED  BY <1>1, <2>1, <2>4 DEF Covers, IsPrefix
<1>2. Len(n) <= Len(h) \/ Len(h) <= Len(n)
  OBVIOUS
<1>3. QED  BY <1>1, <1>2 DEF Overlap

(* What a step does to a claim that is open after it: the claim stays with *)
(* its holder, no wider,                                                   *)
Rests(c) ==
  /\ c \in OpenIn(claims)
  /\ claims'[c].owner = claims[c].owner
  /\ claims'[c].scopes \subseteq claims[c].scopes
  /\ claims'[c].shared = claims[c].shared
  /\ claims'[c].basedOn = claims[c].basedOn

(* or it is handed to another, who was checked for it,                     *)
HandedOn(c) ==
  /\ c \in OpenIn(claims)
  /\ claims'[c].owner # claims[c].owner
  /\ claims'[c].scopes = claims[c].scopes
  /\ sessions' = sessions
  /\ ~Conflicts(claims', claims'[c].owner, claims'[c].scopes, Marks(claims', c))

(* or it was asked for, and checked against what the others hold.          *)
AskedFor(c) ==
  \E r, run :
    /\ sessions' = sessions
    /\ claims'[c].scopes = r.scopes
    /\ claims'[c].shared = r.shared
    /\ claims'[c].basedOn = run
    /\ claims'[c].inRun = NoClaim
    /\ ~Conflicts(OrphanEnded(claims), claims'[c].owner, r.scopes, Asked(r, run))
    /\ \A d \in OpenIn(claims') :
         claims'[d].owner # claims'[c].owner =>
           d \in OpenIn(OrphanEnded(claims)) /\ claims'[d] = claims[d]
    /\ \A x : RunOpenIn(OrphanEnded(claims), x) => RunOpenIn(claims', x)

(* A step that keeps the table lets every claim rest. *)
LEMMA KeepingRests ==
  ASSUME TableKeeps(claims'), NEW c \in OpenIn(claims')
  PROVE  Rests(c)
BY DEF TableKeeps, RowKeeps, OpenIn, Rests

(* A claim step asks for one claim, and lets the others rest. *)
LEMMA ClaimNewSorts ==
  ASSUME TypeOK, NEW s, NEW i, NEW r \in ClaimRequest, NEW id, ClaimNew(s, i, r, id),
         NEW c \in OpenIn(claims')
  PROVE  Rests(c) \/ AskedFor(c)
<1> DEFINE cl == OrphanEnded(claims)
           run == DeclaredRun(cl, r.basedOn)
<1>1. id \notin DOMAIN claims /\ sessions' = sessions
  BY DEF ClaimNew, TypeOK
<1>2. /\ DOMAIN cl = DOMAIN claims
      /\ \A d \in OpenIn(cl) : d \in OpenIn(claims) /\ cl[d] = claims[d]
  BY OrphanEndedOpen
<1>3. /\ claims'[id].owner = s
      /\ claims'[id].scopes = r.scopes
      /\ claims'[id].shared = r.shared
      /\ claims'[id].inRun = NoClaim
      /\ claims'[id].basedOn = run
      /\ DOMAIN claims' = DOMAIN cl \cup {id}
      /\ \A d \in DOMAIN claims' : d # id => d \in DOMAIN cl /\ claims'[d] = cl[d]
  <2> HIDE DEF cl
  <2>1. QED  BY DEF ClaimNew, Write, cl
<1>4. ~Conflicts(cl, s, r.scopes, Asked(r, run))
  BY DEF ClaimNew, MayClaim, Asked
<1> HIDE DEF cl, run
<1>5. \A d \in OpenIn(claims') : d # id =>
        d \in OpenIn(cl) /\ claims'[d] = claims[d] /\ d \in OpenIn(claims)
  BY <1>2, <1>3 DEF OpenIn
<1>6. \A x : RunOpenIn(cl, x) => RunOpenIn(claims', x)
  BY <1>1, <1>2, <1>3 DEF RunOpenIn, OpenIn
<1>7. CASE c = id
  BY <1>1, <1>3, <1>4, <1>5, <1>6, <1>7 DEF AskedFor, cl
<1>8. CASE c # id
  BY <1>5, <1>8 DEF Rests
<1>9. QED  BY <1>7, <1>8

LEMMA ClaimRefreshSorts ==
  ASSUME TypeOK, NEW s, NEW i, NEW r \in ClaimRequest, ClaimRefresh(s, i, r),
         NEW c \in OpenIn(claims')
  PROVE  Rests(c) \/ AskedFor(c)
<1> DEFINE cl == OrphanEnded(claims)
           run == DeclaredRun(cl, r.basedOn)
           W == NamedIn(cl, r.slug)
           rows == [d \in W |-> Rewritten(cl[d], i, r, run)]
<1>1. sessions' = sessions
  BY DEF ClaimRefresh
<1>2. /\ DOMAIN cl = DOMAIN claims
      /\ \A d \in OpenIn(cl) : d \in OpenIn(claims) /\ cl[d] = claims[d]
  BY OrphanEndedOpen
<1>3. ~Conflicts(cl, s, r.scopes, Asked(r, run))
  BY DEF ClaimRefresh, MayClaim, Asked
<1>4. W \subseteq OpenIn(cl) /\ \A d \in W : cl[d].owner = s
  BY DEF ClaimRefresh, MayClaim, NamedIn
<1>5. /\ DOMAIN claims' = DOMAIN cl
      /\ \A d \in W : claims'[d] = Rewritten(cl[d], i, r, run)
      /\ \A d \in DOMAIN cl \ W : claims'[d] = cl[d]
  <2>1. claims' = Write(cl, rows) /\ DOMAIN rows = W /\ W \subseteq DOMAIN cl
    BY <1>4 DEF ClaimRefresh, OpenIn
  <2> HIDE DEF cl, W, run
  <2>2. QED  BY <2>1 DEF Write
<1> HIDE DEF cl, run, W
<1>6. \A d \in W : /\ claims'[d].state = "open"
                   /\ claims'[d].owner = s
                   /\ claims'[d].scopes = r.scopes
                   /\ claims'[d].shared = r.shared
                   /\ claims'[d].inRun = NoClaim
                   /\ claims'[d].basedOn = run
  <2> TAKE d \in W
  <2>1. cl[d] \in ClaimRow /\ cl[d].state = "open" /\ cl[d].owner = s
    BY <1>2, <1>4 DEF TypeOK, OpenIn
  <2>2. claims'[d] = Rewritten(cl[d], i, r, run)
    BY <1>5
  <2>3. QED  BY <2>1, <2>2 DEF Rewritten, ClaimRow
<1>7. \A d \in OpenIn(claims') : d \notin W =>
        d \in OpenIn(cl) /\ claims'[d] = claims[d] /\ d \in OpenIn(claims)
  BY <1>2, <1>5 DEF OpenIn
<1>8. \A x : RunOpenIn(cl, x) => RunOpenIn(claims', x)
  <2> SUFFICES ASSUME NEW x, RunOpenIn(cl, x) PROVE RunOpenIn(claims', x)
    OBVIOUS
  <2>1. x \in DOMAIN cl /\ cl[x].state = "open" /\ Live(cl[x].owner)
    BY DEF RunOpenIn, OpenIn
  <2>2. claims'[x].state = "open" /\ claims'[x].owner = cl[x].owner
    BY <1>4, <1>5, <1>6, <2>1
  <2>3. QED  BY <1>5, <2>1, <2>2 DEF RunOpenIn, OpenIn
<1>9. CASE c \in W
  <2>1. \A d \in OpenIn(claims') :
          claims'[d].owner # s => d \in OpenIn(cl) /\ claims'[d] = claims[d]
    BY <1>6, <1>7
  <2>2. QED  BY <1>1, <1>3, <1>6, <1>8, <1>9, <2>1 DEF AskedFor, cl
<1>10. CASE c \notin W
  BY <1>7, <1>10 DEF Rests
<1>11. QED  BY <1>9, <1>10

(* Parking moves nothing. *)
LEMMA ParkSorts ==
  ASSUME TypeOK, NEW s, NEW i, NEW slugs, NEW run, ParkClaims(s, i, slugs, run),
         NEW c \in OpenIn(claims')
  PROVE  Rests(c)
<1> DEFINE moved == Selected(s, i, slugs)
<1>1. PICK r : claims' = Write(claims, [d \in moved |-> Renewed(Parked(claims[d], r, s))])
  BY DEF ParkClaims
<1>2. moved \subseteq OpenIn(claims) /\ moved \subseteq DOMAIN claims
  BY SelectedOpen DEF OpenIn
<1> HIDE DEF moved
<1>3. /\ DOMAIN claims' = DOMAIN claims
      /\ \A d \in moved : claims'[d] = Renewed(Parked(claims[d], r, s))
      /\ \A d \in DOMAIN claims \ moved : claims'[d] = claims[d]
  BY <1>1, <1>2 DEF Write
<1>4. CASE c \in moved
  <2>1. claims[c] \in ClaimRow /\ c \in OpenIn(claims)
    BY <1>2, <1>4 DEF TypeOK
  <2>2. QED  BY <1>3, <1>4, <2>1 DEF Renewed, Parked, ClaimRow, Rests
<1>5. CASE c \notin moved
  BY <1>3, <1>5 DEF Rests, OpenIn
<1>6. QED  BY <1>4, <1>5

(* Handing on moves what it selects to t, with the scopes it had. *)
LEMMA HandSorts ==
  ASSUME TypeOK, NEW s, NEW i, NEW slugs, NEW t, t # s, sessions' = sessions,
         DOMAIN claims' = DOMAIN claims,
         \A d \in Selected(s, i, slugs) :
           claims'[d].owner = t /\ claims'[d].scopes = claims[d].scopes,
         \A d \in DOMAIN claims \ Selected(s, i, slugs) : claims'[d] = claims[d],
         Lands(claims', Selected(s, i, slugs), t),
         NEW c \in OpenIn(claims')
  PROVE  Rests(c) \/ HandedOn(c)
<1>1. CASE c \in Selected(s, i, slugs)
  <2>1. c \in OpenIn(claims) /\ claims[c].owner = s
    BY <1>1 DEF Selected, HeldIn
  <2>2. QED  BY <1>1, <2>1 DEF HandedOn, Lands
<1>2. CASE c \notin Selected(s, i, slugs)
  BY <1>2 DEF Rests, OpenIn
<1>3. QED  BY <1>1, <1>2

LEMMA TransferSorts ==
  ASSUME TypeOK, NEW s, NEW i, NEW slugs, NEW t, NEW j, TransferClaims(s, i, slugs, t, j),
         NEW c \in OpenIn(claims')
  PROVE  Rests(c) \/ HandedOn(c)
<1> DEFINE moved == Selected(s, i, slugs)
           handed == [d \in moved |-> HandTo(claims[d], t, j)]
           cl == Write(claims, handed)
           lost == {m \in moved : ~(cl[m].inRun \in DOMAIN cl /\ cl[cl[m].inRun].owner = t)}
           rows == [d \in lost |-> Unmarked(cl[d])]
<1>1. sessions' = sessions /\ t # s
  BY DEF TransferClaims, MayHandOn
<1>2. moved \subseteq OpenIn(claims) /\ moved \subseteq DOMAIN claims
  BY SelectedOpen DEF OpenIn
<1>3. claims' = Write(cl, rows) /\ Lands(claims', moved, t)
  BY DEF TransferClaims
<1>4. /\ DOMAIN cl = DOMAIN claims
      /\ \A d \in moved : cl[d] = HandTo(claims[d], t, j)
      /\ \A d \in DOMAIN claims \ moved : cl[d] = claims[d]
  <2> HIDE DEF moved
  <2>1. QED  BY <1>2 DEF Write
<1>5. lost \subseteq moved
  OBVIOUS
<1> HIDE DEF cl, lost, moved
<1>6. /\ DOMAIN claims' = DOMAIN claims
      /\ \A d \in lost : claims'[d] = Unmarked(cl[d])
      /\ \A d \in DOMAIN claims \ lost : claims'[d] = cl[d]
  BY <1>2, <1>3, <1>4, <1>5 DEF Write
<1>7. \A d \in moved : claims'[d].owner = t /\ claims'[d].scopes = claims[d].scopes
  <2> TAKE d \in moved
  <2>1. claims[d] \in ClaimRow
    BY <1>2 DEF TypeOK
  <2>2. claims'[d] = IF d \in lost THEN Unmarked(HandTo(claims[d], t, j))
                                   ELSE HandTo(claims[d], t, j)
    BY <1>2, <1>4, <1>6
  <2>3. QED  BY <2>1, <2>2 DEF Unmarked, HandTo, ClaimRow
<1>8. \A d \in DOMAIN claims \ moved : claims'[d] = claims[d]
  BY <1>4, <1>5, <1>6
<1>9. QED  BY <1>1, <1>3, <1>6, <1>7, <1>8, HandSorts DEF moved

LEMMA TransferInRunSorts ==
  ASSUME TypeOK, NEW s, NEW i, NEW slugs, NEW t, NEW j, NEW run,
         TransferClaimsInRun(s, i, slugs, t, j, run), NEW c \in OpenIn(claims')
  PROVE  Rests(c) \/ HandedOn(c)
<1> DEFINE moved == Selected(s, i, slugs)
<1>1. sessions' = sessions /\ t # s
  BY DEF TransferClaimsInRun, MayHandOn
<1>2. moved \subseteq OpenIn(claims) /\ moved \subseteq DOMAIN claims
  BY SelectedOpen DEF OpenIn
<1>3. PICK r : /\ claims' = Write(claims, [d \in moved |-> Parked(HandTo(claims[d], t, j), r, s)])
               /\ Lands(claims', moved, t)
  BY DEF TransferClaimsInRun
<1> HIDE DEF moved
<1>4. /\ DOMAIN claims' = DOMAIN claims
      /\ \A d \in moved : claims'[d] = Parked(HandTo(claims[d], t, j), r, s)
      /\ \A d \in DOMAIN claims \ moved : claims'[d] = claims[d]
  BY <1>2, <1>3 DEF Write
<1>5. \A row \in ClaimRow : /\ Parked(HandTo(row, t, j), r, s).owner = t
                            /\ Parked(HandTo(row, t, j), r, s).scopes = row.scopes
  BY DEF Parked, HandTo, ClaimRow
<1>6. \A d \in moved : claims'[d].owner = t /\ claims'[d].scopes = claims[d].scopes
  BY <1>2, <1>4, <1>5 DEF TypeOK
<1>7. QED  BY <1>1, <1>3, <1>4, <1>6, HandSorts DEF moved

(* Every step sorts the open claims so. *)
LEMMA StepSorts ==
  ASSUME TypeOK, Next, NEW c \in OpenIn(claims')
  PROVE  Rests(c) \/ HandedOn(c) \/ AskedFor(c)
<1>1. CASE Tick
  BY <1>1 DEF Tick, Rests, OpenIn
<1>2. ASSUME NEW s \in Session, SessionStep(s) PROVE Rests(c)
  BY <1>2, SessionStepKeeps, KeepingRests
<1>3. ASSUME NEW s \in Session, NEW i, ClaimStep(s, i) PROVE Rests(c) \/ AskedFor(c)
  BY <1>3, ClaimNewSorts, ClaimRefreshSorts, RequestAssumption DEF ClaimStep
<1>4. ASSUME NEW s \in Session, NEW i, ReleaseStep(s, i) PROVE Rests(c)
  BY <1>4, ReleaseStepKeeps, KeepingRests
<1>5. ASSUME NEW s \in Session, NEW i, HandStep(s, i) PROVE Rests(c) \/ HandedOn(c)
  <2>1. ASSUME NEW slug, UnparkClaim(s, i, slug) PROVE Rests(c)
    BY <2>1, UnparkKeeps, KeepingRests
  <2>2. QED  BY <1>5, <2>1, ParkSorts, TransferSorts, TransferInRunSorts DEF HandStep
<1>6. ASSUME NEW force, Sweep(force) PROVE Rests(c)
  BY <1>6, SweepKeeps, KeepingRests
<1>7. QED  BY <1>1, <1>2, <1>3, <1>4, <1>5, <1>6 DEF Next, HolderStep

(* The scopes of an open claim are paths, so two claims over one path      *)
(* overlap on the scopes that cover it.                                    *)
LEMMA ScopesMeet ==
  ASSUME NEW S \in SUBSET Path, NEW T \in SUBSET Path, NEW p \in Path,
         NEW n \in S, NEW h \in T, Covers(n, p), Covers(h, p)
  PROVE  Overlap(n, h)
BY CoversMeet, PathAssumption

(* What is read of the claims after a step that moves no session. *)
LEMMA MarksAfter ==
  ASSUME sessions' = sessions
  PROVE  /\ \A x : RunOpenIn(claims, x)' <=> RunOpenIn(claims', x)
         /\ \A d : Marks(claims, d)' = Marks(claims', d)
<1>1. \A x : RunOpenIn(claims, x)' = RunOpenIn(claims', x)
  BY DEF RunOpenIn, Live, Registered
<1>2. ASSUME NEW d PROVE Marks(claims, d)' = Marks(claims', d)
  <2>1. RunOpenIn(claims, claims[d].inRun)' = RunOpenIn(claims', claims'[d].inRun)
    BY <1>1
  <2>2. QED  BY <2>1, Zenon DEF Marks
<1>3. QED  BY <1>1, <1>2

(* Beside a claim it was just granted, a session finds only claims that    *)
(* are shared like its own, or parked in the open run its claim declares.  *)
LEMMA AskedAdmits ==
  ASSUME TypeOK, TypeOK', NEW c \in OpenIn(claims'), AskedFor(c),
         NEW s, NEW p \in Path, (c \in MineAt(s, p))'
  PROVE  Passes(s, p)'
<1>1. PICK r, run :
        /\ sessions' = sessions
        /\ claims'[c].scopes = r.scopes
        /\ claims'[c].shared = r.shared
        /\ claims'[c].basedOn = run
        /\ claims'[c].inRun = NoClaim
        /\ ~Conflicts(OrphanEnded(claims), claims'[c].owner, r.scopes, Asked(r, run))
        /\ \A d \in OpenIn(claims') :
             claims'[d].owner # claims'[c].owner =>
               d \in OpenIn(OrphanEnded(claims)) /\ claims'[d] = claims[d]
        /\ \A x : RunOpenIn(OrphanEnded(claims), x) => RunOpenIn(claims', x)
  BY DEF AskedFor
<1> DEFINE cl == OrphanEnded(claims)
<1>2. claims'[c].owner = s /\ \E n \in claims'[c].scopes : Covers(n, p)
  BY DEF MineAt, CoversPath
<1>3. PICK n \in r.scopes : Covers(n, p)
  BY <1>1, <1>2
<1>4. ASSUME NEW d \in StandingAt(s, p)' PROVE claims'[d].shared /\ claims'[c].shared
  <2>1. d \in OpenIn(claims') /\ claims'[d].owner # s
    BY DEF StandingAt
  <2>2. PICK h \in claims'[d].scopes :
          /\ Covers(h, p)
          /\ \A x \in DeclaredAt(s, p)' : ~Exempts(Declaring(x), p, Marks(claims', d), h)
    BY <1>1, MarksAfter DEF StandingAt
  <2>3. d \in OpenIn(cl) /\ cl[d] = claims[d] /\ claims'[d] = claims[d] /\ ~Ended(cl[d].owner)
    BY <1>1, <1>2, <2>1, OrphanEndedOpen
  <2>4. Overlap(n, h)
    <3>1. claims'[c].scopes \in SUBSET Path /\ claims'[d].scopes \in SUBSET Path
      BY <2>1 DEF TypeOK, OpenIn, ClaimRow
    <3>2. QED  BY <1>1, <1>3, <2>2, <3>1, ScopesMeet
  <2>5. \/ Asked(r, run).shared /\ cl[d].shared
        \/ Exempts(Asked(r, run), n, Marks(cl, d), h)
    <3>1. h \in cl[d].scopes /\ cl[d].owner # s
      BY <2>1, <2>2, <2>3
    <3>2. ~Conflicts(cl, s, r.scopes, Asked(r, run))
      BY <1>1, <1>2
    <3> HIDE DEF cl
    <3>3. QED  BY <1>3, <2>3, <2>4, <3>1, <3>2 DEF Conflicts
  <2>6. CASE Asked(r, run).shared /\ cl[d].shared
    BY <1>1, <2>3, <2>6 DEF Asked
  <2>7. CASE Exempts(Asked(r, run), n, Marks(cl, d), h)
    <3>1. /\ claims[d].inRun # NoClaim
          /\ RunOpenIn(cl, claims[d].inRun)
          /\ claims[d].inRun = Declaration(Asked(r, run))
          /\ ~OnSlots(h)
      BY <2>3, <2>7 DEF Exempts, ParkedYields, Asked, Marks
    <3>2. ~r.shared /\ run = claims[d].inRun
      BY <3>1 DEF Declaration, Asked
    <3>3. run \in DeclaredAt(s, p)'
      <4>1. Declaration(Marks(claims, c)') = run
        BY <1>1, <3>2 DEF Declaration, Marks
      <4>2. run # NoClaim
        BY <3>1, <3>2
      <4>3. QED  BY <4>1, <4>2 DEF DeclaredAt
    <3>4. Exempts(Declaring(run), p, Marks(claims', d), h)
      <4>1. RunOpenIn(claims', claims'[d].inRun)
        BY <1>1, <2>3, <3>1
      <4>2. Declaration(Declaring(run)) = run
        BY DEF Declaration, Declaring
      <4>3. QED  BY <2>3, <3>1, <3>2, <4>1, <4>2 DEF Exempts, ParkedYields, Marks
    <3>5. QED  BY <2>2, <3>3, <3>4
  <2>8. QED  BY <2>5, <2>6, <2>7
<1>5. QED  BY <1>4 DEF Passes

(* A claim asked for beside s's active one would have conflicted with it. *)
LEMMA AskedNeverDenies ==
  ASSUME TypeOK, TypeOK', NEW s, NEW p \in Path, NEW c \in OpenIn(claims'),
         ActiveHolder(s, c, p)', NEW f \in StandingAt(s, p)', AskedFor(f)
  PROVE  FALSE
<1>1. PICK r, run :
        /\ sessions' = sessions
        /\ claims'[f].scopes = r.scopes
        /\ claims'[f].shared = r.shared
        /\ ~Conflicts(OrphanEnded(claims), claims'[f].owner, r.scopes, Asked(r, run))
        /\ \A d \in OpenIn(claims') :
             claims'[d].owner # claims'[f].owner =>
               d \in OpenIn(OrphanEnded(claims)) /\ claims'[d] = claims[d]
        /\ \A x : RunOpenIn(OrphanEnded(claims), x) => RunOpenIn(claims', x)
  BY DEF AskedFor
<1> DEFINE cl == OrphanEnded(claims)
           t == claims'[f].owner
<1>2. f \in OpenIn(claims') /\ t # s /\ \E n \in claims'[f].scopes : Covers(n, p)
  BY DEF StandingAt
<1>3. PICK n \in r.scopes : Covers(n, p)
  BY <1>1, <1>2
<1>4. /\ claims'[c].owner = s
      /\ \E h \in claims'[c].scopes : Covers(h, p)
      /\ ~claims'[c].shared
      /\ ~(claims'[c].inRun # NoClaim /\ RunOpenIn(claims', claims'[c].inRun))
  BY <1>1, MarksAfter DEF ActiveHolder, MineAt, CoversPath
<1>5. PICK h \in claims'[c].scopes : Covers(h, p)
  BY <1>4
<1>6. /\ c \in OpenIn(cl)
      /\ cl[c] = claims'[c]
      /\ ~Ended(cl[c].owner)
  BY <1>1, <1>2, <1>4, OrphanEndedOpen
<1>7. Overlap(n, h)
  <2>1. claims'[f].scopes \in SUBSET Path /\ claims'[c].scopes \in SUBSET Path
    BY <1>2 DEF TypeOK, OpenIn, ClaimRow
  <2>2. QED  BY <1>1, <1>3, <1>5, <2>1, ScopesMeet
<1>8. Exempts(Asked(r, run), n, Marks(cl, c), h)
  <2>1. ~Conflicts(cl, t, r.scopes, Asked(r, run)) /\ cl[c].owner # t /\ ~cl[c].shared
    BY <1>1, <1>2, <1>4, <1>6
  <2> HIDE DEF cl, t
  <2>2. QED  BY <1>3, <1>5, <1>6, <1>7, <2>1 DEF Conflicts
<1>9. cl[c].inRun # NoClaim /\ RunOpenIn(cl, cl[c].inRun)
  BY <1>8 DEF Exempts, ParkedYields, Asked, Marks
<1>10. QED  BY <1>1, <1>4, <1>6, <1>9

(* A claim s hands on beside its own active one yields to it, or would     *)
(* have conflicted with it where it landed.                                *)
LEMMA HandedNeverDenies ==
  ASSUME TypeOK, TypeOK', NEW s, NEW p \in Path, NEW c \in OpenIn(claims'),
         ActiveHolder(s, c, p)', NEW f \in StandingAt(s, p)', HandedOn(f)
  PROVE  FALSE
<1> DEFINE t == claims'[f].owner
<1>1. f \in OpenIn(claims') /\ t # s
  BY DEF StandingAt
<1>2. PICK n \in claims'[f].scopes :
        /\ Covers(n, p)
        /\ \A x \in DeclaredAt(s, p)' : ~Exempts(Declaring(x), p, Marks(claims', f), n)
  BY MarksAfter DEF StandingAt, HandedOn
<1>3. /\ (c \in MineAt(s, p))'
      /\ claims'[c].owner = s
      /\ \E h \in claims'[c].scopes : Covers(h, p)
      /\ ~Ended(s)'
      /\ ~claims'[c].shared
      /\ ~(claims'[c].inRun # NoClaim /\ RunOpenIn(claims', claims'[c].inRun))
  BY MarksAfter DEF ActiveHolder, MineAt, CoversPath, Live, Ended, HandedOn
<1>4. PICK h \in claims'[c].scopes : Covers(h, p)
  BY <1>3
<1>5. Overlap(n, h)
  <2>1. claims'[f].scopes \in SUBSET Path /\ claims'[c].scopes \in SUBSET Path
    BY <1>1 DEF TypeOK, OpenIn, ClaimRow
  <2>2. QED  BY <1>2, <1>4, <2>1, ScopesMeet
<1>6. Exempts(Marks(claims', f), n, Marks(claims', c), h)
  <2>1. ~Conflicts(claims', t, claims'[f].scopes, Marks(claims', f))
    BY DEF HandedOn
  <2>2. ~Ended(claims'[c].owner) /\ claims'[c].owner # t
    BY <1>1, <1>3 DEF HandedOn, Ended, Registered
  <2> HIDE DEF t
  <2>3. QED  BY <1>2, <1>3, <1>4, <1>5, <2>1, <2>2 DEF Conflicts
<1>7. ParkedYields(Marks(claims', f), n, Declaration(Marks(claims', c)))
  BY <1>3, <1>6 DEF Exempts, ParkedYields, Marks
<1> DEFINE run == Declaration(Marks(claims', c))
<1>8. run # NoClaim
  BY <1>7 DEF ParkedYields
<1>9. run \in DeclaredAt(s, p)'
  <2>1. Declaration(Marks(claims, c)') = run
    BY MarksAfter DEF HandedOn
  <2>2. QED  BY <1>3, <1>8, <2>1 DEF DeclaredAt
<1>10. Declaration(Declaring(run)) = run
  BY DEF Declaration, Declaring
<1>11. Exempts(Declaring(run), p, Marks(claims', f), n)
  <2> HIDE DEF run
  <2>1. QED  BY <1>7, <1>10 DEF Exempts, run
<1>12. QED  BY <1>2, <1>9, <1>11

(* Each step of the ledger: what it grants passes, and what it leaves      *)
(* standing against an active holder stood there before.                   *)
LEMMA StepAgrees ==
  ASSUME TypeOK, TypeOK', Next
  PROVE  GrantAdmits /\ NewcomersNeverDeny
<1>1. ASSUME NEW c \in ClaimId, Granted(c), NEW s \in Session, NEW p \in Path,
             (c \in MineAt(s, p))'
      PROVE  Passes(s, p)'
  <2>1. c \in OpenIn(claims')
    BY <1>1 DEF Granted
  <2>2. ~Rests(c) /\ ~HandedOn(c)
    BY <1>1 DEF Granted, Rests, HandedOn
  <2>3. AskedFor(c)
    BY <2>1, <2>2, StepSorts
  <2>4. QED  BY <1>1, <2>1, <2>3, AskedAdmits
<1>2. ASSUME NEW c \in OpenIn(claims), NEW s \in Session, NEW p \in Path,
             ActiveHolder(s, c, p)', NEW f \in StandingAt(s, p)'
      PROVE  f \in OpenIn(claims) /\ claims[f].owner # s /\ CoversPath(f, p)
  <2>1. c \in OpenIn(claims')
    BY <1>2 DEF ActiveHolder, MineAt
  <2>2. /\ f \in OpenIn(claims')
        /\ claims'[f].owner # s
        /\ \E h \in claims'[f].scopes : Covers(h, p)
    BY DEF StandingAt
  <2>3. Rests(f)
    BY <1>2, <2>1, <2>2, StepSorts, AskedNeverDenies, HandedNeverDenies
  <2>4. QED  BY <2>2, <2>3 DEF Rests, CoversPath
<1>3. QED  BY <1>1, <1>2 DEF GrantAdmits, NewcomersNeverDeny

(* The claim door and the write gate agree, in every step of any ledger:   *)
(* whoever is granted a claim passes the gate on all it covers, and no     *)
(* later grant or handover turns the gate against an active holder.        *)
THEOREM DoorAndGateAgree == Spec => GateAgrees
<1>1. TypeOK /\ TypeOK' /\ [Next]_vars => [GrantAdmits /\ NewcomersNeverDeny]_vars
  BY StepAgrees
<1>2. QED  BY <1>1, TypeCorrect, PTL DEF Spec, GateAgrees

-----------------------------------------------------------------------------
(* The wait register.                                                      *)

(* What is on its way to a wait was found of the declaration it names,     *)
(* and no declaration it names is yet to come.                             *)
SentIsDue ==
  \A m \in sent :
    /\ m.decl <= waits[m.to].decl
    /\ m.decl = waits[m.to].decl =>
         /\ m.does \in {"landed", "tell"} => waits[m.to].targets # {}
         /\ m.does = "expired" => now >= waits[m.to].deadline

(* The inductive invariant. *)
WaitInv ==
  /\ WaitTypeOK
  /\ WaitsAreCurrent
  /\ TimersNeverLand
  /\ ExpiredOnlyPastDeadline
  /\ SentIsDue

(* A wait row is left as it is, or only closed for what it does not say    *)
(* itself.                                                                 *)
WaitKept(s) ==
  /\ waits'[s].decl = waits[s].decl
  /\ waits'[s].inc = waits[s].inc
  /\ waits'[s].deadline = waits[s].deadline
  /\ waits'[s].targets = waits[s].targets
  /\ waits'[s].told = waits[s].told
  /\ waits'[s].reason \in {waits[s].reason, "ended", "cleared"}

(* A step that leaves every wait, takes no time back and sends nothing.    *)
LEMMA KeptWaits ==
  ASSUME WaitInv, WaitTypeOK', WaitsAreCurrent', now' >= now, sent' \subseteq sent,
         \A s \in Waiter : WaitKept(s)
  PROVE  WaitInv'
<1>1. TimersNeverLand'
  BY DEF WaitInv, TimersNeverLand, WaitKept
<1>2. ExpiredOnlyPastDeadline'
  <2>1. now \in Nat /\ now' \in Nat /\ \A s \in Waiter : waits[s].deadline \in Nat
    BY DEF WaitInv, WaitTypeOK, TypeOK, WaitRow
  <2>2. QED  BY <2>1 DEF WaitInv, ExpiredOnlyPastDeadline, WaitKept
<1>3. SentIsDue'
  <2>1. /\ now \in Nat /\ now' \in Nat
        /\ \A m \in sent : m.to \in Waiter /\ waits[m.to].deadline \in Nat
    BY DEF WaitInv, WaitTypeOK, TypeOK, WaitRow, Sent
  <2>2. QED  BY <2>1 DEF WaitInv, SentIsDue, WaitKept
<1>4. QED  BY <1>1, <1>2, <1>3 DEF WaitInv

(* cleanupEnded leaves open the waits of the sessions that are registered  *)
(* as they were when they declared them.                                   *)
LEMMA ClearEndedKeeps ==
  ASSUME WaitTypeOK, NEW ss, ClearEndedWaits(ss)
  PROVE  /\ waits' \in [Waiter -> WaitRow]
         /\ \A s \in Waiter : WaitKept(s)
         /\ \A s \in Waiter : IsOpen(waits'[s]) => waits'[s].inc = ss[s].inc
<1>1. waits \in [Waiter -> WaitRow]
  BY DEF WaitTypeOK
<1>2. ASSUME NEW s \in Waiter
      PROVE  /\ waits'[s] \in WaitRow
             /\ WaitKept(s)
             /\ IsOpen(waits'[s]) => waits'[s].inc = ss[s].inc
  <2>1. CASE IsOpen(waits[s]) /\ (ss[s].ended \/ ss[s].inc # waits[s].inc)
    <3>1. waits'[s] = [waits[s] EXCEPT !.reason = "ended"]
      BY <2>1 DEF ClearEndedWaits
    <3>2. QED  BY <1>1, <3>1 DEF WaitRow, Reason, WaitKept, IsOpen
  <2>2. CASE ~(IsOpen(waits[s]) /\ (ss[s].ended \/ ss[s].inc # waits[s].inc))
    <3>1. waits'[s] = waits[s]
      BY <2>2 DEF ClearEndedWaits
    <3>2. QED  BY <1>1, <2>2, <3>1 DEF WaitKept
  <2>3. QED  BY <2>1, <2>2
<1>3. waits' \in [Waiter -> WaitRow]
  <2>1. waits' = [s \in Waiter |-> waits'[s]]
    BY DEF ClearEndedWaits
  <2>2. QED  BY <1>2, <2>1
<1>4. QED  BY <1>2, <1>3

(* The housekeeping of a check keeps the ledger's type. *)
LEMMA SettleType ==
  ASSUME TypeOK, SettleEnded
  PROVE  TypeOK'
<1>1. claims' \in [DOMAIN claims -> ClaimRow]
  BY OrphanEndedType DEF TypeOK, SettleEnded
<1>2. QED  BY <1>1 DEF TypeOK, SettleEnded

(* A verb of the ledger that tidies up keeps the register. *)
LEMMA TidyingInv ==
  ASSUME WaitInv, TidyingStep
  PROVE  WaitInv'
<1>1. Next
  BY DEF TidyingStep, Next, SessionStep
<1>2. TypeOK'
  BY <1>1, TypeStep DEF WaitInv, WaitTypeOK
<1>3. now' = now
  BY DEF TidyingStep, Arrive, HelloNew, HelloLive, BeginLogical, ClaimStep, ClaimNew,
         ClaimRefresh, Sweep
<1>4. /\ waits' \in [Waiter -> WaitRow]
      /\ \A s \in Waiter : WaitKept(s)
      /\ \A s \in Waiter : IsOpen(waits'[s]) => waits'[s].inc = sessions'[s].inc
  BY ClearEndedKeeps DEF TidyingStep, WaitInv
<1>5. WaitTypeOK' /\ WaitsAreCurrent'
  BY <1>2, <1>4 DEF WaitInv, WaitTypeOK, WaitsAreCurrent, TidyingStep
<1>6. QED  BY <1>2, <1>3, <1>4, <1>5, KeptWaits DEF TidyingStep, TypeOK

(* What a holder does with its claims is no news of any session. *)
LEMMA HolderKeeps ==
  ASSUME NEW s, NEW i, HolderStep(s, i) PROVE now' = now /\ sessions' = sessions
<1>1. CASE ReleaseStep(s, i)
  <2>1. ASSUME NEW slug, ReleaseOutcome(s, i, slug) PROVE now' = now /\ sessions' = sessions
    BY <2>1 DEF ReleaseOutcome
  <2>2. ASSUME NEW slugs, ReleaseClaims(s, i, slugs) PROVE now' = now /\ sessions' = sessions
    BY <2>2 DEF ReleaseClaims
  <2>3. ASSUME NEW slug, NEW drop, ReleaseScopes(s, i, slug, drop)
        PROVE  now' = now /\ sessions' = sessions
    BY <2>3 DEF ReleaseScopes
  <2>4. QED  BY <1>1, <2>1, <2>2, <2>3 DEF ReleaseStep
<1>2. CASE HandStep(s, i)
  <2>1. ASSUME NEW slugs, NEW run, ParkClaims(s, i, slugs, run)
        PROVE  now' = now /\ sessions' = sessions
    BY <2>1 DEF ParkClaims
  <2>2. ASSUME NEW slug, UnparkClaim(s, i, slug) PROVE now' = now /\ sessions' = sessions
    BY <2>2 DEF UnparkClaim
  <2>3. ASSUME NEW slugs, NEW t, NEW j, TransferClaims(s, i, slugs, t, j)
        PROVE  now' = now /\ sessions' = sessions
    BY <2>3 DEF TransferClaims
  <2>4. ASSUME NEW slugs, NEW t, NEW j, NEW run, TransferClaimsInRun(s, i, slugs, t, j, run)
        PROVE  now' = now /\ sessions' = sessions
    BY <2>4 DEF TransferClaimsInRun
  <2>5. QED  BY <1>2, <2>1, <2>2, <2>3, <2>4 DEF HandStep
<1>3. QED  BY <1>1, <1>2 DEF HolderStep

(* Neither the clock nor a beat, a bye or a release changes who declared   *)
(* a wait.                                                                 *)
LEMMA OtherInv ==
  ASSUME WaitInv, OtherStep
  PROVE  WaitInv'
<1>1. Next
  BY DEF OtherStep, Next, SessionStep
<1>2. TypeOK /\ TypeOK'
  BY <1>1, TypeStep DEF WaitInv, WaitTypeOK
<1>3. now' >= now
  <2>1. CASE Tick
    BY <1>2, <2>1 DEF Tick, TypeOK
  <2>2. ASSUME NEW s, Proceed(s) PROVE now' = now
    BY <2>2 DEF Proceed, Bye, ByeFrom, EndLogical, End, BeatFrom, BeatLogical, RenewLogical,
       Heard, RefreshLogical, Seen
  <2>3. ASSUME NEW s, NEW i, HolderStep(s, i) PROVE now' = now
    BY <2>3, HolderKeeps
  <2>4. QED  BY <1>2, <2>1, <2>2, <2>3 DEF OtherStep, TypeOK
<1>4. \A s \in Session : sessions'[s].inc = sessions[s].inc
  <2>1. CASE Tick
    BY <2>1 DEF Tick
  <2>2. ASSUME NEW s \in Session, Proceed(s)
        PROVE  \/ sessions' = sessions
               \/ sessions' = [sessions EXCEPT ![s].seen = now]
               \/ sessions' = [sessions EXCEPT ![s].ended = TRUE]
    BY <2>2 DEF Proceed, Bye, ByeFrom, EndLogical, End, BeatFrom, BeatLogical, RenewLogical,
       Heard, RefreshLogical, Seen
  <2>3. ASSUME NEW s, NEW i, HolderStep(s, i) PROVE sessions' = sessions
    BY <2>3, HolderKeeps
  <2>4. QED  BY <1>2, <2>1, <2>2, <2>3 DEF OtherStep, TypeOK, SessionRow
<1>5. UNCHANGED <<waits, sent>>
  BY DEF OtherStep
<1>6. WaitTypeOK' /\ WaitsAreCurrent'
  BY <1>2, <1>4, <1>5, WaiterAssumption DEF WaitInv, WaitTypeOK, WaitsAreCurrent
<1>7. QED  BY <1>3, <1>5, <1>6, KeptWaits DEF WaitKept

(* A declaration replaces what its session had declared: what is still on  *)
(* its way names an earlier one.                                           *)
LEMMA DeclareInv ==
  ASSUME WaitInv, NEW s \in Waiter, NEW i \in Incarnation, NEW slugs \in SUBSET Slug,
         NEW until \in Until, DeclareWait(s, i, slugs, until)
  PROVE  WaitInv'
<1> DEFINE row == [decl |-> waits[s].decl + 1, inc |-> i, deadline |-> now + until,
                   targets |-> UNION {NamedIn(claims, slug) : slug \in slugs},
                   told |-> FALSE, reason |-> ""]
<1>1. waits' = [waits EXCEPT ![s] = row] /\ UNCHANGED <<sessions, claims, minted, now, sent>>
  BY DEF DeclareWait, ledger
<1>2. waits \in [Waiter -> WaitRow] /\ TypeOK /\ sent \subseteq Sent
  BY DEF WaitInv, WaitTypeOK
<1>3. row \in WaitRow
  <2>1. row.targets \subseteq ClaimId
    BY <1>2 DEF NamedIn, OpenIn, TypeOK
  <2>2. i \in Nat /\ now + until \in Nat /\ waits[s].decl + 1 \in Nat
    BY <1>2, UntilAssumption, BoundAssumption DEF Incarnation, WaitRow, TypeOK
  <2>3. QED  BY <2>1, <2>2 DEF WaitRow, Reason
<1>4. row.decl = waits[s].decl + 1 /\ row.inc = i /\ ~row.told /\ row.reason = ""
  OBVIOUS
<1> HIDE DEF row
<1>5. waits'[s] = row /\ \A x \in Waiter \ {s} : waits'[x] = waits[x]
  BY <1>1, <1>2
<1>6. TypeOK'
  BY <1>1, <1>2 DEF TypeOK
<1>7. WaitTypeOK'
  BY <1>1, <1>2, <1>3, <1>6 DEF WaitTypeOK
<1>8. WaitsAreCurrent'
  <2>1. sessions'[s].inc = i
    BY <1>1 DEF DeclareWait, IsCaller
  <2>2. QED  BY <1>1, <1>4, <1>5, <2>1 DEF WaitInv, WaitsAreCurrent
<1>9. TimersNeverLand' /\ ExpiredOnlyPastDeadline'
  BY <1>1, <1>4, <1>5 DEF WaitInv, TimersNeverLand, ExpiredOnlyPastDeadline
<1>10. SentIsDue'
  <2>1. \A m \in sent : m.to \in Waiter /\ m.decl \in Nat /\ waits[m.to].decl \in Nat
    BY <1>2 DEF Sent, WaitRow
  <2>2. ASSUME NEW m \in sent, m.to = s
        PROVE  m.decl <= waits'[m.to].decl /\ m.decl # waits'[m.to].decl
    <3>1. m.decl <= waits[s].decl
      BY <2>2 DEF WaitInv, SentIsDue
    <3>2. waits'[m.to].decl = waits[s].decl + 1
      BY <1>4, <1>5, <2>2
    <3>3. m.decl \in Nat /\ waits[s].decl \in Nat
      BY <2>1, <2>2
    <3>4. QED  BY <3>1, <3>2, <3>3
  <2>3. ASSUME NEW m \in sent, m.to # s PROVE waits'[m.to] = waits[m.to]
    BY <1>5, <2>1, <2>3
  <2>4. QED  BY <1>1, <2>2, <2>3 DEF WaitInv, SentIsDue
<1>11. QED  BY <1>7, <1>8, <1>9, <1>10 DEF WaitInv


(* wait clear closes the wait of its caller. *)
LEMMA ClearInv ==
  ASSUME WaitInv, NEW s \in Waiter, NEW i, ClearWait(s, i)
  PROVE  WaitInv'
<1>1. waits' = [waits EXCEPT ![s].reason = "cleared"] /\ UNCHANGED <<sessions, claims, minted, now, sent>>
  BY DEF ClearWait, ledger
<1>2. waits \in [Waiter -> WaitRow] /\ TypeOK
  BY DEF WaitInv, WaitTypeOK
<1>3. \A x \in Waiter : WaitKept(x)
  BY <1>1, <1>2 DEF WaitKept, WaitRow
<1>4. waits' \in [Waiter -> WaitRow]
  BY <1>1, <1>2 DEF WaitRow, Reason
<1>5. WaitTypeOK'
  BY <1>1, <1>2, <1>4 DEF WaitInv, WaitTypeOK, TypeOK
<1>6. WaitsAreCurrent'
  BY <1>1, <1>2 DEF WaitInv, WaitsAreCurrent, IsOpen, WaitRow
<1>7. QED  BY <1>1, <1>2, <1>3, <1>5, <1>6, KeptWaits DEF TypeOK

(* The housekeeping alone. *)
LEMMA SettleInv ==
  ASSUME WaitInv, SettleEnded, sent' \subseteq Sent,
         \A m \in sent' \ sent :
           /\ m.decl <= waits[m.to].decl
           /\ m.does \in {"landed", "tell"} => waits[m.to].targets # {}
           /\ m.does = "expired" => now >= waits[m.to].deadline
  PROVE  WaitInv'
<1>1. /\ waits' \in [Waiter -> WaitRow]
      /\ \A s \in Waiter : WaitKept(s)
      /\ \A s \in Waiter : IsOpen(waits'[s]) => waits'[s].inc = sessions[s].inc
  BY ClearEndedKeeps DEF SettleEnded, WaitInv
<1>2. TypeOK' /\ UNCHANGED <<sessions, minted, now>>
  BY SettleType DEF WaitInv, WaitTypeOK, SettleEnded
<1>3. WaitTypeOK' /\ WaitsAreCurrent'
  BY <1>1, <1>2 DEF WaitTypeOK, WaitsAreCurrent
<1>4. TimersNeverLand' /\ ExpiredOnlyPastDeadline'
  BY <1>1, <1>2 DEF WaitInv, TimersNeverLand, ExpiredOnlyPastDeadline, WaitKept
<1>5. SentIsDue'
  <2>1. \A m \in sent' : m.to \in Waiter
    BY DEF Sent
  <2>2. \A m \in sent' : /\ waits'[m.to].decl = waits[m.to].decl
                         /\ waits'[m.to].targets = waits[m.to].targets
                         /\ waits'[m.to].deadline = waits[m.to].deadline
    BY <1>1, <2>1 DEF WaitKept
  <2>3. QED  BY <1>2, <2>2 DEF WaitInv, SentIsDue
<1>6. QED  BY <1>3, <1>4, <1>5 DEF WaitInv

(* A verdict is sent of the declaration it was found of, and says of it    *)
(* what is so.                                                             *)
LEMMA VerdictIsDue ==
  ASSUME WaitTypeOK, NEW s \in Waiter, NEW cl, Verdict(cl, s, waits[s]) # "pending",
         Send(s, Verdict(cl, s, waits[s])), sent \subseteq Sent
  PROVE  /\ sent' \subseteq Sent
         /\ \A m \in sent' \ sent :
              /\ m.decl <= waits[m.to].decl
              /\ m.does \in {"landed", "tell"} => waits[m.to].targets # {}
              /\ m.does = "expired" => now >= waits[m.to].deadline
<1> DEFINE new == [to |-> s, decl |-> waits[s].decl, does |-> Verdict(cl, s, waits[s])]
<1>1. sent' = sent \cup {new}
  BY DEF Send
<1>2. waits[s].decl \in Nat
  BY DEF WaitTypeOK, WaitRow
<1>3. Verdict(cl, s, waits[s]) \in {"landed", "expired"}
  BY DEF Verdict
<1>4. new \in Sent
  BY <1>2, <1>3 DEF Sent
<1>5. /\ Verdict(cl, s, waits[s]) = "landed" => waits[s].targets # {}
      /\ Verdict(cl, s, waits[s]) = "expired" => now >= waits[s].deadline
  BY DEF Verdict, Landed
<1>6. /\ new.decl <= waits[new.to].decl
      /\ new.does \in {"landed", "tell"} => waits[new.to].targets # {}
      /\ new.does = "expired" => now >= waits[new.to].deadline
  BY <1>2, <1>3, <1>5
<1> HIDE DEF new
<1>7. QED  BY <1>1, <1>4, <1>6

LEMMA CheckInv ==
  ASSUME WaitInv, NEW s \in Waiter, NEW i, WaitCheck(s, i)
  PROVE  WaitInv'
<1>1. SettleEnded /\ WaitTypeOK /\ sent \subseteq Sent
  BY DEF WaitCheck, WaitInv, WaitTypeOK
<1>2. CASE sent' = sent
  BY <1>1, <1>2, SettleInv
<1>3. CASE sent' # sent
  <2>1. /\ Verdict(OrphanEnded(claims), s, waits[s]) # "pending"
        /\ Send(s, Verdict(OrphanEnded(claims), s, waits[s]))
    BY <1>3 DEF WaitCheck
  <2>2. QED  BY <1>1, <2>1, VerdictIsDue, SettleInv
<1>4. QED  BY <1>2, <1>3

(* A beat announces a landing of the wait it read. *)
LEMMA NoticeInv ==
  ASSUME WaitInv, NEW s \in Waiter, WaitNotice(s)
  PROVE  WaitInv'
<1> DEFINE new == [to |-> s, decl |-> waits[s].decl, does |-> "tell"]
<1>1. sent' = sent \cup {new} /\ UNCHANGED <<sessions, claims, minted, now, waits>>
  BY DEF WaitNotice, Send, ledger
<1>2. waits[s].decl \in Nat /\ waits[s].targets # {}
  BY DEF WaitNotice, Landed, WaitInv, WaitTypeOK, WaitRow
<1>3. new \in Sent /\ new.decl = waits[s].decl /\ new.to = s /\ new.does = "tell"
  BY <1>2 DEF Sent
<1> HIDE DEF new
<1>4. WaitTypeOK'
  BY <1>1, <1>3 DEF WaitInv, WaitTypeOK, TypeOK
<1>5. WaitsAreCurrent' /\ TimersNeverLand' /\ ExpiredOnlyPastDeadline'
  BY <1>1 DEF WaitInv, WaitsAreCurrent, TimersNeverLand, ExpiredOnlyPastDeadline
<1>6. SentIsDue'
  BY <1>1, <1>2, <1>3 DEF WaitInv, SentIsDue
<1>7. QED  BY <1>4, <1>5, <1>6 DEF WaitInv

(* What arrives late, or twice, finds another declaration or a closed one, *)
(* and touches nothing.                                                    *)
LEMMA ArrivalInv ==
  ASSUME WaitInv, NEW m \in sent, sent' = sent \ {m}, UNCHANGED <<sessions, claims, minted, now>>,
         \/ waits' = waits
         \/ /\ waits[m.to].decl = m.decl
            /\ m.does \in {"landed", "expired"}
            /\ waits' = [waits EXCEPT ![m.to].reason = m.does]
         \/ /\ waits[m.to].decl = m.decl
            /\ m.does = "tell"
            /\ waits' = [waits EXCEPT ![m.to].told = TRUE]
  PROVE  WaitInv'
<1>1. waits \in [Waiter -> WaitRow] /\ TypeOK /\ sent \subseteq Sent
  BY DEF WaitInv, WaitTypeOK
<1>2. /\ m.to \in Waiter
      /\ m.decl = waits[m.to].decl =>
           /\ m.does \in {"landed", "tell"} => waits[m.to].targets # {}
           /\ m.does = "expired" => now >= waits[m.to].deadline
  BY <1>1 DEF WaitInv, SentIsDue, Sent
<1>3. TypeOK'
  BY <1>1 DEF TypeOK
<1>4. waits' \in [Waiter -> WaitRow]
  <2>1. CASE waits' = [waits EXCEPT ![m.to].reason = m.does] /\ m.does \in {"landed", "expired"}
    <3>1. m.does \in Reason
      BY <2>1 DEF Reason
    <3>2. [waits[m.to] EXCEPT !.reason = m.does] \in WaitRow
      BY <1>1, <1>2, <3>1 DEF WaitRow
    <3> QED  BY <1>1, <1>2, <2>1, <3>2
  <2>2. CASE waits' = [waits EXCEPT ![m.to].told = TRUE]
    BY <1>1, <1>2, <2>2 DEF WaitRow
  <2>3. QED  BY <1>1, <2>1, <2>2
<1>5. ASSUME NEW s \in Waiter
      PROVE  /\ waits'[s].decl = waits[s].decl
             /\ waits'[s].inc = waits[s].inc
             /\ waits'[s].deadline = waits[s].deadline
             /\ waits'[s].targets = waits[s].targets
             /\ IsOpen(waits'[s]) => IsOpen(waits[s])
  <2>1. CASE waits' = [waits EXCEPT ![m.to].reason = m.does] /\ m.does \in {"landed", "expired"}
    BY <1>1, <1>2, <2>1 DEF WaitRow, IsOpen
  <2>2. CASE waits' = [waits EXCEPT ![m.to].told = TRUE]
    BY <1>1, <1>2, <2>2 DEF WaitRow, IsOpen
  <2>3. QED  BY <2>1, <2>2
<1>6. WaitTypeOK' /\ WaitsAreCurrent'
  BY <1>1, <1>3, <1>4, <1>5 DEF WaitInv, WaitTypeOK, WaitsAreCurrent
<1>7. ASSUME NEW s \in Waiter, waits'[s].told \/ waits'[s].reason = "landed"
      PROVE  waits'[s].targets # {}
  <2>1. CASE waits'[s] = waits[s]
    BY <1>7, <2>1 DEF WaitInv, TimersNeverLand
  <2>2. CASE waits'[s] # waits[s]
    <3>1. s = m.to /\ waits[m.to].decl = m.decl
      BY <1>1, <1>2, <2>2
    <3>2. CASE m.does \in {"landed", "tell"}
      BY <1>2, <1>5, <3>1, <3>2
    <3>3. CASE m.does = "expired"
      <4>1. waits' = [waits EXCEPT ![s].reason = "expired"]
        BY <2>2, <3>1, <3>3
      <4>2. waits'[s].reason = "expired" /\ waits'[s].told = waits[s].told
        BY <1>1, <4>1 DEF WaitRow
      <4>3. QED  BY <1>5, <1>7, <4>2 DEF WaitInv, TimersNeverLand
    <3>4. QED  BY <1>1, <3>2, <3>3 DEF Sent
  <2>3. QED  BY <2>1, <2>2
<1>8. ASSUME NEW s \in Waiter, waits'[s].reason = "expired"
      PROVE  now' >= waits'[s].deadline
  <2>1. CASE waits[s].reason = "expired"
    BY <1>5, <2>1 DEF WaitInv, ExpiredOnlyPastDeadline
  <2>2. CASE waits[s].reason # "expired"
    <3>1. s = m.to /\ waits[m.to].decl = m.decl /\ m.does = "expired"
      BY <1>1, <1>2, <1>8, <2>2 DEF WaitRow
    <3>2. QED  BY <1>2, <1>5, <3>1
  <2>3. QED  BY <2>1, <2>2
<1>9. SentIsDue'
  <2>1. \A x \in sent' : x.to \in Waiter /\ x \in sent
    BY <1>1 DEF Sent
  <2>2. QED  BY <1>5, <2>1 DEF WaitInv, SentIsDue
<1>10. QED  BY <1>6, <1>7, <1>8, <1>9 DEF WaitInv, TimersNeverLand, ExpiredOnlyPastDeadline

(* Every step keeps the register. *)
LEMMA WaitStepInv ==
  ASSUME WaitInv, WaitNext
  PROVE  WaitInv'
<1>1. CASE TidyingStep
  BY <1>1, TidyingInv
<1>2. CASE OtherStep
  BY <1>2, OtherInv
<1>3. ASSUME NEW s \in Waiter, WaitStep(s) PROVE WaitInv'
  BY <1>3, DeclareInv, ClearInv, CheckInv, NoticeInv DEF WaitStep
<1>4. CASE SettleEnded /\ UNCHANGED sent
  BY <1>4, SettleInv DEF WaitInv, WaitTypeOK
<1>5. ASSUME NEW m \in sent, CloseWait(m) \/ MarkWaitTold(m) \/ Lost(m) PROVE WaitInv'
  BY <1>5, ArrivalInv DEF CloseWait, MarkWaitTold, Lost, ledger
<1>6. QED  BY <1>1, <1>2, <1>3, <1>4, <1>5 DEF WaitNext

LEMMA WaitInitInv ==
  ASSUME WaitInit PROVE WaitInv
<1>1. TypeOK
  BY InitType DEF WaitInit
<1>2. WaitTypeOK
  BY <1>1 DEF WaitInit, WaitTypeOK, WaitRow, Reason
<1>3. \A s \in Waiter : waits[s].decl = 0 /\ waits[s].reason = "" /\ ~waits[s].told
  BY DEF WaitInit
<1>4. sent = {}
  BY DEF WaitInit
<1>5. WaitsAreCurrent
  BY WaiterAssumption DEF WaitInit, Init, WaitsAreCurrent
<1>6. TimersNeverLand /\ ExpiredOnlyPastDeadline
  BY <1>3 DEF TimersNeverLand, ExpiredOnlyPastDeadline
<1>7. SentIsDue
  BY <1>4 DEF SentIsDue
<1>8. QED  BY <1>2, <1>5, <1>6, <1>7 DEF WaitInv

(* What the register rests on holds whatever is declared, closed, replaced *)
(* and delivered late.                                                     *)
THEOREM WaitInvariant == WaitSpec => []WaitInv
<1>1. WaitInit => WaitInv
  BY WaitInitInv
<1>2. WaitInv /\ [WaitNext]_waitVars => WaitInv'
  <2>1. WaitInv /\ UNCHANGED waitVars => WaitInv'
    BY DEF waitVars, WaitInv, WaitTypeOK, TypeOK, WaitsAreCurrent, TimersNeverLand,
           ExpiredOnlyPastDeadline, SentIsDue
  <2>2. QED  BY <2>1, WaitStepInv
<1>3. QED  BY <1>1, <1>2, PTL DEF WaitSpec

(* No notice and no close is ever taken for one of another wait or another *)
(* registration of the session.                                            *)
THEOREM WaitsStayOwn == WaitSpec => []WaitsAreOwn
<1>1. WaitInv => WaitsAreOwn
  BY DEF WaitInv, WaitsAreOwn
<1>2. QED  BY <1>1, WaitInvariant, PTL

(* Only a check says that a wait ran out, and it says so of a wait whose   *)
(* targets another still holds in the settled ledger.                      *)
LEMMA ExpiryIsOfTheLiving ==
  ASSUME WaitInv, WaitNext
  PROVE  ExpiredOnlyOnTheLiving
<1> SUFFICES ASSUME NEW m \in sent' \ sent, m.does = "expired"
             PROVE  \/ waits[m.to].targets = {}
                    \/ \E c \in waits[m.to].targets \cap OpenIn(claims) : ~Ended(claims[c].owner)
  BY DEF ExpiredOnlyOnTheLiving
<1>1. PICK s \in Waiter : WaitStep(s)
  BY DEF WaitNext, TidyingStep, OtherStep, CloseWait, MarkWaitTold, Lost
<1>2. PICK i : WaitCheck(s, i)
  <2>1. ~WaitNotice(s)
    BY DEF WaitNotice, Send
  <2>2. QED  BY <1>1, <2>1 DEF WaitStep, DeclareWait, ClearWait
<1>3. m.to = s /\ Verdict(OrphanEnded(claims), s, waits[s]) = "expired"
  BY <1>2 DEF WaitCheck, Send
<1>4. ~Landed(OrphanEnded(claims), s, waits[s])
  BY <1>3 DEF Verdict
<1>5. CASE waits[s].targets # {}
  <2>1. PICK c \in waits[s].targets : c \in OpenIn(OrphanEnded(claims))
    BY <1>4, <1>5 DEF Landed, Pending
  <2>2. c \in OpenIn(claims) /\ ~Ended(claims[c].owner)
    BY <2>1, OrphanEndedOpen DEF WaitInv, WaitTypeOK
  <2>3. QED  BY <1>3, <2>1, <2>2
<1>6. QED  BY <1>3, <1>5

-----------------------------------------------------------------------------
(* wait --block.                                                           *)

(* No registration comes back: a session moves on to the next one, or, if  *)
(* it has ended, stays so.                                                 *)
Onward(s) ==
  \/ sessions'[s].inc > sessions[s].inc
  \/ sessions'[s].inc = sessions[s].inc /\ (sessions[s].ended => sessions'[s].ended)

(* A wait row is replaced by a later declaration of the session as it is   *)
(* registered, and closed as ended only when its registration is over.     *)
WaitOnward(s) ==
  /\ \/ /\ waits'[s].decl = waits[s].decl /\ waits'[s].inc = waits[s].inc
        /\ waits'[s].targets = waits[s].targets
     \/ waits'[s].decl > waits[s].decl /\ waits'[s].inc = sessions'[s].inc
  /\ waits'[s].reason = "ended" =>
       \/ waits[s].reason = "ended" /\ waits'[s].inc = waits[s].inc
       \/ sessions'[s].ended \/ sessions'[s].inc # waits'[s].inc

(* What a blocked process knows of its wait: the row it declared, or a     *)
(* later one, by its own registration, or a later one; and what has ended  *)
(* is over for good.                                                       *)
BlockKnows(s) ==
  /\ waits[s].inc <= sessions[s].inc
  /\ waits[s].reason = "ended" => ~IsCaller(s, waits[s].inc)
  /\ block[s].inc <= sessions[s].inc
  /\ block[s].decl <= waits[s].decl
  /\ block[s].time <= now
  /\ block[s].decl = waits[s].decl => block[s].inc = waits[s].inc
  /\ block[s].at \in Polling => block[s].decl > 0
  /\ block[s].at = "ended" => ~IsCaller(s, block[s].inc)

(* A process stays where it is, or goes on with its poll. *)
Stays(s) == block'[s].at = block[s].at
GoesOn(s) == block[s].at \in Polling /\ block'[s].at \in Polling

BlockAt == Polling \cup Exited \cup {"none"}
BlockRow ==
  [at: BlockAt, decl: Nat, inc: Nat, time: Nat, gone: SUBSET (Session \X Nat)]

(* The inductive invariant. *)
BlockInv ==
  /\ WaitInv
  /\ block \in [Waiter -> BlockRow]
  /\ \A s \in Waiter : BlockKnows(s)

LEMMA ArrivalsGoOnward ==
  ASSUME TypeOK, NEW a \in Session, SessionStep(a), NEW s \in Session
  PROVE  Onward(s)
<1>1. /\ sessions \in [Session -> SessionRow]
      /\ sessions[s].inc \in Nat /\ sessions[a].inc \in Nat
  BY DEF TypeOK, SessionRow
<1>2. \/ sessions' = sessions
      \/ sessions' = [sessions EXCEPT ![a].seen = now]
      \/ sessions' = [sessions EXCEPT ![a].ended = TRUE]
      \/ Register(a)
  BY DEF SessionStep, Arrive, Proceed, HelloNew, HelloLive, BeginLogical, Bye, ByeFrom,
         EndLogical, End, BeatFrom, BeatLogical, RenewLogical, Heard, RefreshLogical, Seen
<1>3. CASE sessions' = sessions
  BY <1>3 DEF Onward
<1>4. CASE sessions' = [sessions EXCEPT ![a].seen = now]
  BY <1>1, <1>4 DEF Onward, SessionRow
<1>5. CASE sessions' = [sessions EXCEPT ![a].ended = TRUE]
  BY <1>1, <1>5 DEF Onward, SessionRow
<1>6. CASE Register(a)
  <2>1. sessions' = [sessions EXCEPT ![a] =
                       [inc |-> sessions[a].inc + 1, ended |-> FALSE, seen |-> now]]
    BY <1>6 DEF Register
  <2>2. CASE s = a
    <3>1. sessions'[s].inc = sessions[s].inc + 1
      BY <1>1, <2>1, <2>2
    <3>2. QED  BY <1>1, <3>1 DEF Onward
  <2>3. CASE s # a
    <3>1. sessions'[s] = sessions[s]
      BY <1>1, <2>1, <2>3
    <3>2. QED  BY <3>1 DEF Onward
  <2>4. QED  BY <2>2, <2>3
<1>7. QED  BY <1>2, <1>3, <1>4, <1>5, <1>6

(* The verbs on claims, and the sweep, leave the registrations alone. *)
LEMMA LedgerGoesOnward ==
  ASSUME TypeOK, Next, NEW s \in Session
  PROVE  Onward(s)
<1>1. CASE Tick
  BY <1>1 DEF Tick, Onward
<1>2. ASSUME NEW a \in Session, SessionStep(a) PROVE Onward(s)
  BY <1>2, ArrivalsGoOnward
<1>3. ASSUME NEW a, NEW i, ClaimStep(a, i) PROVE Onward(s)
  BY <1>3 DEF ClaimStep, ClaimNew, ClaimRefresh, Onward
<1>4. ASSUME NEW a, NEW i, HolderStep(a, i) PROVE Onward(s)
  BY <1>4, HolderKeeps DEF Onward
<1>5. ASSUME NEW force, Sweep(force) PROVE Onward(s)
  BY <1>5 DEF Sweep, Onward
<1>6. QED  BY <1>1, <1>2, <1>3, <1>4, <1>5 DEF Next

LEMMA ClearedGoOnward ==
  ASSUME WaitTypeOK, ClearEndedWaits(sessions'), NEW s \in Waiter
  PROVE  WaitOnward(s)
<1>1. waits[s] \in WaitRow
  BY DEF WaitTypeOK
<1>2. CASE IsOpen(waits[s]) /\ (sessions'[s].ended \/ sessions'[s].inc # waits[s].inc)
  <2>1. waits'[s] = [waits[s] EXCEPT !.reason = "ended"]
    BY <1>2 DEF ClearEndedWaits
  <2>2. QED  BY <1>1, <1>2, <2>1 DEF WaitRow, WaitOnward
<1>3. CASE ~(IsOpen(waits[s]) /\ (sessions'[s].ended \/ sessions'[s].inc # waits[s].inc))
  <2>1. waits'[s] = waits[s]
    BY <1>3 DEF ClearEndedWaits
  <2>2. QED  BY <2>1 DEF WaitOnward
<1>4. QED  BY <1>2, <1>3

(* No step of the register takes a registration, a row or the clock back.  *)
LEMMA RegisterGoesOnward ==
  ASSUME WaitInv, WaitNext
  PROVE  /\ now' >= now
         /\ \A s \in Waiter : Onward(s) /\ WaitOnward(s)
<1>1. /\ TypeOK /\ WaitTypeOK /\ now \in Nat
      /\ waits \in [Waiter -> WaitRow] /\ sent \subseteq Sent
  BY DEF WaitInv, WaitTypeOK, TypeOK
<1>2. CASE TidyingStep
  <2>1. Next
    BY <1>2 DEF TidyingStep, Next, SessionStep
  <2>2. now' = now
    BY <1>2 DEF TidyingStep, Arrive, HelloNew, HelloLive, BeginLogical, ClaimStep, ClaimNew,
           ClaimRefresh, Sweep
  <2>3. ClearEndedWaits(sessions')
    BY <1>2 DEF TidyingStep
  <2>4. QED  BY <1>1, <2>1, <2>2, <2>3, LedgerGoesOnward, ClearedGoOnward, WaiterAssumption
<1>3. CASE OtherStep
  <2>1. Next
    BY <1>3 DEF OtherStep, Next, SessionStep
  <2>2. now' >= now
    <3>1. CASE Tick
      BY <1>1, <3>1 DEF Tick
    <3>2. ASSUME NEW s, Proceed(s) PROVE now' = now
      BY <3>2 DEF Proceed, Bye, ByeFrom, EndLogical, End, BeatFrom, BeatLogical, RenewLogical,
         Heard, RefreshLogical, Seen
    <3>3. ASSUME NEW s, NEW i, HolderStep(s, i) PROVE now' = now
      BY <3>3, HolderKeeps
    <3>4. QED  BY <1>1, <1>3, <3>1, <3>2, <3>3 DEF OtherStep
  <2>3. \A s \in Waiter : WaitOnward(s)
    BY <1>3 DEF OtherStep, WaitOnward
  <2>4. QED  BY <1>1, <2>1, <2>2, <2>3, LedgerGoesOnward, WaiterAssumption
<1>4. ASSUME sessions' = sessions, now' = now, \A s \in Waiter : WaitOnward(s)
      PROVE  now' >= now /\ \A s \in Waiter : Onward(s) /\ WaitOnward(s)
  BY <1>1, <1>4 DEF Onward
<1>5. ASSUME NEW a \in Waiter, NEW i \in Incarnation, NEW slugs \in SUBSET Slug,
             NEW until \in Until, DeclareWait(a, i, slugs, until)
      PROVE  sessions' = sessions /\ now' = now /\ \A s \in Waiter : WaitOnward(s)
  <2> DEFINE row == [decl |-> waits[a].decl + 1, inc |-> i, deadline |-> now + until,
                     targets |-> UNION {NamedIn(claims, slug) : slug \in slugs},
                     told |-> FALSE, reason |-> ""]
  <2>1. waits' = [waits EXCEPT ![a] = row] /\ sessions' = sessions /\ now' = now
    BY <1>5 DEF DeclareWait, ledger
  <2>2. row.decl = waits[a].decl + 1 /\ row.inc = i /\ row.reason = ""
    OBVIOUS
  <2> HIDE DEF row
  <2>3. sessions'[a].inc = i /\ waits[a].decl \in Nat
    BY <1>1, <1>5, <2>1 DEF DeclareWait, IsCaller, WaitRow
  <2>4. ASSUME NEW s \in Waiter PROVE WaitOnward(s)
    <3>1. CASE s = a
      <4>1. waits'[s] = row
        BY <1>1, <2>1, <3>1
      <4>2. waits'[a].decl = waits[a].decl + 1
        BY <2>2, <3>1, <4>1
      <4>3. waits'[a].decl > waits[a].decl
        BY <2>3, <4>2
      <4>4. waits'[a].inc = sessions'[a].inc /\ waits'[a].reason # "ended"
        BY <2>2, <2>3, <3>1, <4>1
      <4>5. QED  BY <3>1, <4>3, <4>4 DEF WaitOnward
    <3>2. CASE s # a
      BY <1>1, <2>1, <3>2 DEF WaitOnward
    <3>3. QED  BY <3>1, <3>2
  <2>5. QED  BY <2>1, <2>4
<1>6. ASSUME NEW a \in Waiter, NEW i, ClearWait(a, i)
      PROVE  sessions' = sessions /\ now' = now /\ \A s \in Waiter : WaitOnward(s)
  <2>1. waits' = [waits EXCEPT ![a].reason = "cleared"] /\ sessions' = sessions /\ now' = now
    BY <1>6 DEF ClearWait, ledger
  <2>2. QED  BY <1>1, <2>1 DEF WaitOnward, WaitRow
<1>7. ASSUME SettleEnded
      PROVE  sessions' = sessions /\ now' = now /\ \A s \in Waiter : WaitOnward(s)
  <2>1. sessions' = sessions /\ now' = now /\ ClearEndedWaits(sessions')
    BY <1>7 DEF SettleEnded
  <2>2. QED  BY <1>1, <2>1, ClearedGoOnward
<1>8. ASSUME NEW a, WaitNotice(a)
      PROVE  sessions' = sessions /\ now' = now /\ \A s \in Waiter : WaitOnward(s)
  BY <1>8 DEF WaitNotice, ledger, WaitOnward
<1>9. ASSUME NEW m \in sent, CloseWait(m) \/ MarkWaitTold(m) \/ Lost(m)
      PROVE  sessions' = sessions /\ now' = now /\ \A s \in Waiter : WaitOnward(s)
  <2>1. sessions' = sessions /\ now' = now
    BY <1>9 DEF CloseWait, MarkWaitTold, Lost, ledger
  <2>2. \/ waits' = waits
        \/ waits' = [waits EXCEPT ![m.to].reason = m.does] /\ m.does \in {"landed", "expired"}
        \/ waits' = [waits EXCEPT ![m.to].told = TRUE]
    BY <1>9 DEF CloseWait, MarkWaitTold, Lost
  <2>3. QED  BY <1>1, <2>1, <2>2 DEF WaitOnward, WaitRow
<1>10. CASE \E a \in Waiter : WaitStep(a)
  BY <1>4, <1>5, <1>6, <1>7, <1>8, <1>10 DEF WaitStep, WaitCheck
<1>11. QED  BY <1>2, <1>3, <1>4, <1>7, <1>9, <1>10 DEF WaitNext

(* What a process knew stays so while others go on and it stays where it   *)
(* is, or moves on from a read to the next.                                *)
LEMMA KnowledgeStands ==
  ASSUME BlockInv, WaitTypeOK', NEW s \in Waiter, now' >= now, Onward(s), WaitOnward(s),
         block'[s].decl = block[s].decl, block'[s].inc = block[s].inc,
         block'[s].time = block[s].time, Stays(s) \/ GoesOn(s)
  PROVE  BlockKnows(s)'
<1>1. /\ sessions[s].inc \in Nat /\ sessions'[s].inc \in Nat
      /\ waits[s].inc \in Nat /\ waits[s].decl \in Nat
      /\ waits'[s].inc \in Nat /\ waits'[s].decl \in Nat
      /\ block[s].inc \in Nat /\ block[s].decl \in Nat /\ block[s].time \in Nat
      /\ now \in Nat /\ now' \in Nat
  BY WaiterAssumption DEF BlockInv, WaitInv, WaitTypeOK, TypeOK, SessionRow, WaitRow, BlockRow
<1>2. BlockKnows(s)
  BY DEF BlockInv
<1>3. ASSUME NEW i \in Nat, i <= sessions[s].inc, ~IsCaller(s, i)
      PROVE  ~IsCaller(s, i)'
  BY <1>1, <1>3 DEF Onward, IsCaller, Live, Registered
<1>4. waits'[s].inc <= sessions'[s].inc
  BY <1>1, <1>2 DEF BlockKnows, Onward, WaitOnward
<1>5. ASSUME waits'[s].reason = "ended"
      PROVE  ~IsCaller(s, waits[s].inc)'
  <2>1. CASE waits[s].reason = "ended" /\ waits'[s].inc = waits[s].inc
    <3>1. ~IsCaller(s, waits[s].inc)
      BY <1>2, <2>1 DEF BlockKnows
    <3>2. waits[s].inc <= sessions[s].inc
      BY <1>2 DEF BlockKnows
    <3>3. ~(Live(s)' /\ sessions'[s].inc = waits[s].inc)
      BY <1>1, <1>3, <3>1, <3>2 DEF IsCaller
    <3>4. QED  BY <2>1, <3>3 DEF IsCaller
  <2>2. CASE sessions'[s].ended \/ sessions'[s].inc # waits'[s].inc
    BY <2>2 DEF IsCaller, Live
  <2>3. QED  BY <1>5, <2>1, <2>2 DEF WaitOnward
<1>6. block'[s].inc <= sessions'[s].inc
  BY <1>1, <1>2 DEF BlockKnows, Onward
<1>7. block'[s].decl <= waits'[s].decl
  BY <1>1, <1>2 DEF BlockKnows, WaitOnward
<1>8. block'[s].time <= now'
  BY <1>1, <1>2 DEF BlockKnows
<1>9. block'[s].decl = waits'[s].decl => block'[s].inc = waits'[s].inc
  BY <1>1, <1>2 DEF BlockKnows, WaitOnward
<1>10. ASSUME block'[s].at = "ended"
       PROVE  ~IsCaller(s, block[s].inc)'
  <2>1. block[s].at = "ended"
    BY <1>10 DEF Polling, Stays, GoesOn
  <2>2. block[s].inc <= sessions[s].inc /\ ~IsCaller(s, block[s].inc)
    BY <1>2, <2>1 DEF BlockKnows
  <2>3. ~(Live(s)' /\ sessions'[s].inc = block[s].inc)
    BY <1>1, <1>3, <2>2 DEF IsCaller
  <2>4. QED  BY <2>3 DEF IsCaller
<1>11. block'[s].at \in Polling => block'[s].decl > 0
  BY <1>2 DEF BlockKnows, Stays, GoesOn
<1>12. QED  BY <1>4, <1>5, <1>6, <1>7, <1>8, <1>9, <1>10, <1>11 DEF BlockKnows

(* A verdict of a blocked process says of the row it was found of what is  *)
(* so: the clock it judged by has been passed.                             *)
LEMMA JudgedInv ==
  ASSUME BlockInv, NEW s \in Waiter, UNCHANGED <<ledger, waits>>,
         \/ sent' = sent
         \/ VerdictAt(s) # "asleep" /\ Send(s, VerdictAt(s))
  PROVE  WaitInv'
<1> DEFINE new == [to |-> s, decl |-> waits[s].decl, does |-> VerdictAt(s)]
<1>1. /\ WaitInv /\ TypeOK /\ sent \subseteq Sent
      /\ UNCHANGED <<sessions, claims, minted, now, waits>>
  BY DEF BlockInv, WaitInv, WaitTypeOK, ledger
<1>2. /\ waits[s].decl \in Nat /\ waits[s].deadline \in Nat
      /\ now \in Nat /\ block[s].time \in Nat /\ block[s].time <= now
  BY DEF BlockInv, WaitInv, WaitTypeOK, TypeOK, WaitRow, BlockRow, BlockKnows
<1>3. CASE sent' = sent
  BY <1>1, <1>3 DEF WaitInv, WaitTypeOK, TypeOK, WaitsAreCurrent, TimersNeverLand,
     ExpiredOnlyPastDeadline, SentIsDue
<1>4. CASE VerdictAt(s) # "asleep" /\ Send(s, VerdictAt(s))
  <2>1. VerdictAt(s) \in {"landed", "expired"}
    BY <1>4 DEF VerdictAt
  <2>2. VerdictAt(s) = "landed" => waits[s].targets # {}
    BY DEF VerdictAt, Landed
  <2>3. VerdictAt(s) = "expired" => now >= waits[s].deadline
    BY <1>2 DEF VerdictAt
  <2>4. sent' = sent \cup {new}
    BY <1>4 DEF Send
  <2>5. new \in Sent /\ new.to = s /\ new.decl = waits[s].decl
    BY <1>2, <2>1 DEF Sent
  <2>6. /\ new.does \in {"landed", "tell"} => waits[s].targets # {}
        /\ new.does = "expired" => now >= waits[s].deadline
    BY <2>1, <2>2, <2>3
  <2> HIDE DEF new
  <2>7. WaitTypeOK'
    BY <1>1, <2>4, <2>5 DEF WaitInv, WaitTypeOK, TypeOK
  <2>8. WaitsAreCurrent' /\ TimersNeverLand' /\ ExpiredOnlyPastDeadline'
    BY <1>1 DEF WaitInv, WaitsAreCurrent, TimersNeverLand, ExpiredOnlyPastDeadline
  <2>9. new.decl <= waits[new.to].decl
    BY <1>2, <2>5
  <2>10. SentIsDue'
    BY <1>1, <2>4, <2>5, <2>6, <2>9 DEF WaitInv, SentIsDue
  <2>11. QED  BY <2>7, <2>8, <2>10 DEF WaitInv
<1>5. QED  BY <1>3, <1>4

(* A process that moves on over a ledger that stands knows what it knew.   *)
LEMMA GotoKnows ==
  ASSUME BlockInv, WaitInv', NEW s \in Waiter, NEW x \in BlockAt, Goto(s, x),
         block[s].at \in Polling, UNCHANGED <<sessions, waits, now>>,
         x = "ended" => ~IsCaller(s, block[s].inc)
  PROVE  BlockInv'
<1>1. /\ block \in [Waiter -> BlockRow]
      /\ block' = [block EXCEPT ![s].at = x, ![s].gone = {}]
  BY DEF BlockInv, Goto
<1>2. block' \in [Waiter -> BlockRow]
  BY <1>1 DEF BlockRow
<1>3. ASSUME NEW a \in Waiter PROVE BlockKnows(a)'
  <2>1. BlockKnows(a)
    BY DEF BlockInv
  <2>2. /\ block'[a].decl = block[a].decl /\ block'[a].inc = block[a].inc
        /\ block'[a].time = block[a].time
        /\ block'[a].at = block[a].at \/ (a = s /\ block'[a].at = x)
    BY <1>1 DEF BlockRow
  <2>3. block'[a].at = "ended" => ~IsCaller(a, block[a].inc)
    BY <2>1, <2>2 DEF BlockKnows
  <2>4. block'[a].at \in Polling => block'[a].decl > 0
    BY <2>1, <2>2 DEF BlockKnows
  <2>5. QED  BY <2>1, <2>2, <2>3, <2>4 DEF BlockKnows, IsCaller, Live, Registered
<1>4. QED  BY <1>2, <1>3 DEF BlockInv

(* What a process finds in a row of its own, and what its verdict is worth.*)
LEMMA JudgeIsTrue ==
  ASSUME BlockInv, NEW s \in Waiter, Judge(s), UNCHANGED <<ledger, waits>>,
         block[s].at \in Polling, waits[s].decl = block[s].decl
  PROVE  /\ BlockInv'
         /\ block'[s].at = "expired" => now >= waits[s].deadline
<1>1. /\ UNCHANGED <<sessions, now, waits>>
      /\ waits[s] \in WaitRow /\ BlockKnows(s) /\ WaitInv
      /\ block \in [Waiter -> BlockRow]
  BY DEF ledger, BlockInv, WaitInv, WaitTypeOK
<1>2. CASE IsOpen(waits[s])
  <2>1. Goto(s, VerdictAt(s)) /\ VerdictAt(s) \in {"landed", "expired", "asleep"}
    BY <1>2 DEF Judge, VerdictAt
  <2>2. WaitInv'
    BY <1>2, JudgedInv DEF Judge
  <2>3. BlockInv'
    <3>1. VerdictAt(s) \in BlockAt /\ VerdictAt(s) # "ended"
      BY <2>1 DEF BlockAt, Polling, Exited
    <3>2. QED  BY <1>1, <2>1, <2>2, <3>1, GotoKnows
  <2>4. VerdictAt(s) = "expired" => now >= waits[s].deadline
    <3>1. /\ waits[s].deadline \in Nat /\ now \in Nat
          /\ block[s].time \in Nat /\ block[s].time <= now
      BY <1>1 DEF WaitInv, WaitTypeOK, TypeOK, WaitRow, BlockRow, BlockKnows
    <3>2. QED  BY <3>1 DEF VerdictAt
  <2>5. block'[s].at = VerdictAt(s)
    BY <1>1, <2>1 DEF Goto, BlockRow
  <2>6. QED  BY <2>3, <2>4, <2>5
<1>3. CASE ~IsOpen(waits[s])
  <2>1. Goto(s, waits[s].reason) /\ sent' = sent
    BY <1>3 DEF Judge
  <2>2. WaitInv'
    BY <2>1, JudgedInv
  <2>3. waits[s].reason \in BlockAt
    <3>1. waits[s].decl > 0
      BY <1>1 DEF BlockKnows
    <3>2. waits[s].reason # ""
      BY <1>3, <3>1 DEF IsOpen
    <3>3. QED  BY <1>1, <3>2 DEF WaitRow, Reason, BlockAt, Exited
  <2>4. waits[s].reason = "ended" => ~IsCaller(s, block[s].inc)
    BY <1>1 DEF BlockKnows
  <2>5. BlockInv'
    BY <1>1, <2>1, <2>2, <2>3, <2>4, GotoKnows
  <2>6. block'[s].at = waits[s].reason
    BY <1>1, <2>1 DEF Goto, BlockRow
  <2>7. waits[s].reason = "expired" => now >= waits[s].deadline
    BY <1>1 DEF WaitInv, ExpiredOnlyPastDeadline
  <2>8. QED  BY <2>5, <2>6, <2>7
<1>4. QED  BY <1>2, <1>3

(* A process comes to exit 3 by a deadline of its own. *)
Expires(s) ==
  block'[s].at = "expired" => waits[s].decl = block[s].decl /\ now >= waits[s].deadline

LEMMA ReadSessionKnows ==
  ASSUME BlockInv, NEW s \in Waiter, ReadSession(s)
  PROVE  BlockInv' /\ Expires(s)
<1> DEFINE x == IF IsCaller(s, block[s].inc) THEN "reading" ELSE "ended"
<1>1. /\ UNCHANGED <<sessions, claims, minted, now, waits, sent>>
      /\ block \in [Waiter -> BlockRow] /\ WaitInv /\ now \in Nat
  BY DEF ReadSession, waitVars, BlockInv, WaitInv, WaitTypeOK, TypeOK
<1>2. WaitInv'
  BY <1>1 DEF WaitInv, WaitTypeOK, TypeOK, WaitsAreCurrent, TimersNeverLand,
     ExpiredOnlyPastDeadline, SentIsDue
<1>3. /\ block' = [block EXCEPT ![s].time = now, ![s].at = x]
      /\ x \in {"reading", "ended"} /\ (x = "ended" => ~IsCaller(s, block[s].inc))
  BY DEF ReadSession
<1> HIDE DEF x
<1>4. block' \in [Waiter -> BlockRow]
  <2>1. x \in BlockAt
    BY <1>3 DEF BlockAt, Polling, Exited
  <2>2. QED  BY <1>1, <1>3, <2>1 DEF BlockRow
<1>5. ASSUME NEW a \in Waiter PROVE BlockKnows(a)'
  <2>1. BlockKnows(a)
    BY DEF BlockInv
  <2>2. CASE a = s
    <3>1. /\ block'[a].decl = block[a].decl /\ block'[a].inc = block[a].inc
          /\ block'[a].time = now /\ block'[a].at = x
      BY <1>1, <1>3, <2>2 DEF BlockRow
    <3>2. now <= now
      BY <1>1
    <3>3. block[a].decl > 0
      BY <2>1, <2>2 DEF BlockKnows, ReadSession, Polling
    <3>4. x = "ended" => ~IsCaller(a, block[a].inc)
      BY <1>3, <2>2
    <3>5. QED
      BY <1>1, <2>1, <3>1, <3>2, <3>3, <3>4 DEF BlockKnows, IsCaller, Live, Registered
  <2>3. CASE a # s
    <3>1. block'[a] = block[a]
      BY <1>1, <1>3, <2>3
    <3>2. QED  BY <1>1, <2>1, <3>1 DEF BlockKnows, IsCaller, Live, Registered
  <2>4. QED  BY <2>2, <2>3
<1>6. Expires(s)
  <2>1. block'[s].at = x
    BY <1>1, <1>3 DEF BlockRow
  <2>2. QED  BY <1>3, <2>1 DEF Expires
<1>7. QED  BY <1>2, <1>4, <1>5, <1>6 DEF BlockInv

(* A row that is not the one declared is not judged. *)
LEMMA ReadKnows ==
  ASSUME BlockInv, NEW s \in Waiter, ReadWait(s) \/ RereadWait(s)
  PROVE  BlockInv' /\ Expires(s)
<1>1. /\ UNCHANGED <<ledger, waits>> /\ UNCHANGED <<sessions, now, waits>>
      /\ block \in [Waiter -> BlockRow] /\ block[s].at \in Polling
  BY DEF ReadWait, RereadWait, ledger, BlockInv, Polling
<1>2. CASE Judge(s) /\ waits[s].decl = block[s].decl
  BY <1>1, <1>2, JudgeIsTrue DEF Expires
<1>3. ASSUME NEW x \in {"cleared", "settling", "asleep"}, Goto(s, x), sent' = sent
      PROVE  BlockInv' /\ Expires(s)
  <2>1. WaitInv'
    BY <1>1, <1>3, JudgedInv
  <2>2. BlockInv'
    <3>1. x \in BlockAt /\ x # "ended"
      BY DEF BlockAt, Polling, Exited
    <3>2. QED  BY <1>1, <1>3, <2>1, <3>1, GotoKnows
  <2>3. block'[s].at = x
    BY <1>1, <1>3 DEF Goto, BlockRow
  <2>4. QED  BY <2>2, <2>3 DEF Expires
<1>4. QED  BY <1>2, <1>3 DEF ReadWait, RereadWait, Replaced

(* The steps of the register, and the settling that a process waits for.   *)
LEMMA RegisterKeepsKnowledge ==
  ASSUME BlockInv, WaitNext, block' \in [Waiter -> BlockRow],
         \A s \in Waiter :
           /\ block'[s].decl = block[s].decl /\ block'[s].inc = block[s].inc
           /\ block'[s].time = block[s].time /\ (Stays(s) \/ GoesOn(s))
  PROVE  BlockInv'
<1>1. WaitInv' /\ WaitTypeOK'
  BY WaitStepInv DEF BlockInv, WaitInv
<1>2. now' >= now /\ \A s \in Waiter : Onward(s) /\ WaitOnward(s)
  BY RegisterGoesOnward DEF BlockInv
<1>3. \A s \in Waiter : BlockKnows(s)'
  BY <1>1, <1>2, KnowledgeStands
<1>4. QED  BY <1>1, <1>3 DEF BlockInv

LEMMA SettleKnows ==
  ASSUME BlockInv, NEW s \in Waiter, Settle(s)
  PROVE  BlockInv' /\ Expires(s)
<1>1. block \in [Waiter -> BlockRow]
  BY DEF BlockInv
<1>2. /\ WaitNext
      /\ block' = [block EXCEPT ![s].at = "rereading", ![s].gone = EndedRegistrations]
  BY DEF Settle, WaitNext
<1>3. block' \in [Waiter -> BlockRow]
  <2>1. "rereading" \in BlockAt
    BY DEF BlockAt, Polling
  <2>2. EndedRegistrations \in SUBSET (Session \X Nat)
    BY DEF BlockInv, WaitInv, WaitTypeOK, TypeOK, SessionRow, EndedRegistrations
  <2> HIDE DEF EndedRegistrations
  <2>3. QED  BY <1>1, <1>2, <2>1, <2>2 DEF BlockRow
<1>4. \A a \in Waiter :
        /\ block'[a].decl = block[a].decl /\ block'[a].inc = block[a].inc
        /\ block'[a].time = block[a].time /\ (Stays(a) \/ GoesOn(a))
  BY <1>1, <1>2 DEF Settle, BlockRow, Polling, Stays, GoesOn
<1>5. block'[s].at = "rereading"
  BY <1>1, <1>2 DEF BlockRow
<1>6. QED  BY <1>2, <1>3, <1>4, <1>5, RegisterKeepsKnowledge DEF Expires

LEMMA NotAboveItself == ASSUME NEW n \in Nat PROVE n <= n
OBVIOUS

LEMMA DeclaredKnows ==
  ASSUME BlockInv, NEW s \in Waiter, NEW i \in Incarnation, NEW slugs \in SUBSET Slug,
         NEW until \in Until, DeclareAndBlock(s, i, slugs, until)
  PROVE  BlockInv' /\ Expires(s)
<1> DEFINE row == [at |-> "asleep", decl |-> waits'[s].decl, inc |-> i, time |-> now,
                   gone |-> {}]
<1>1. /\ DeclareWait(s, i, slugs, until) /\ WaitNext
      /\ block' = [block EXCEPT ![s] = row] /\ UNCHANGED <<sessions, now>>
  BY DEF DeclareAndBlock, DeclareWait, ledger, WaitNext, WaitStep
<1>2. /\ block \in [Waiter -> BlockRow] /\ WaitInv /\ WaitInv' /\ WaitTypeOK'
      /\ now \in Nat /\ waits \in [Waiter -> WaitRow] /\ waits' \in [Waiter -> WaitRow]
  BY <1>1, WaitStepInv DEF BlockInv, WaitInv, WaitTypeOK, TypeOK
<1>3. now' >= now /\ \A a \in Waiter : Onward(a) /\ WaitOnward(a)
  BY <1>1, <1>2, RegisterGoesOnward
<1>4. /\ waits'[s].inc = i /\ waits'[s].reason = "" /\ waits'[s].decl \in Nat
      /\ i \in Nat /\ sessions'[s].inc = i
  BY <1>1, <1>2, BoundAssumption DEF DeclareWait, IsCaller, WaitRow, Incarnation
<1>5. row.at = "asleep" /\ row.decl = waits'[s].decl /\ row.inc = i /\ row.time = now
  OBVIOUS
<1>6. row \in BlockRow
  <2>1. "asleep" \in BlockAt
    BY DEF BlockAt, Polling
  <2>2. QED  BY <1>2, <1>4, <2>1 DEF BlockRow
<1> HIDE DEF row
<1>7. block' \in [Waiter -> BlockRow] /\ block'[s] = row
  BY <1>1, <1>2, <1>6
<1>8. ASSUME NEW a \in Waiter PROVE BlockKnows(a)'
  <2>1. CASE a = s
    <3>1. waits'[a].inc <= sessions'[a].inc /\ block'[a].inc <= sessions'[a].inc
      <4>1. waits'[a].inc = i
        BY <1>4, <2>1
      <4>2. sessions'[a].inc = i
        BY <1>4, <2>1
      <4>3. block'[a].inc = i
        BY <1>5, <1>7, <2>1
      <4>4. i <= i
        BY <1>4, NotAboveItself
      <4>5. QED  BY <4>1, <4>2, <4>3, <4>4
    <3>2. block'[a].decl <= waits'[a].decl /\ block'[a].decl > 0
      <4>1. waits'[s].decl = waits[s].decl + 1 /\ waits[s].decl \in Nat
        BY <1>1, <1>2 DEF DeclareWait, WaitRow
      <4>2. block'[a].decl = waits'[s].decl
        BY <1>5, <1>7, <2>1
      <4>3. waits'[s].decl <= waits'[s].decl /\ waits'[s].decl > 0
        BY <4>1
      <4>4. QED  BY <2>1, <4>2, <4>3
    <3>3. block'[a].time <= now'
      <4>1. block'[a].time = now /\ now' = now
        BY <1>1, <1>5, <1>7, <2>1
      <4>2. QED  BY <1>2, <4>1
    <3>4. block'[a].inc = waits'[a].inc /\ block'[a].at # "ended" /\ waits'[a].reason # "ended"
      BY <1>4, <1>5, <1>7, <2>1
    <3>5. QED  BY <3>1, <3>2, <3>3, <3>4 DEF BlockKnows
  <2>2. CASE a # s
    <3>1. block'[a] = block[a]
      BY <1>1, <1>2, <2>2
    <3>2. QED  BY <1>2, <1>3, <3>1, KnowledgeStands DEF Stays
  <2>3. QED  BY <2>1, <2>2
<1>9. Expires(s)
  BY <1>5, <1>7 DEF Expires
<1>10. QED  BY <1>2, <1>7, <1>8, <1>9 DEF BlockInv

(* A step of one process leaves the others where they are. *)
LEMMA OneProcessMoves ==
  ASSUME BlockInv, NEW s \in Waiter, NEW a \in Waiter, a # s,
         \/ \E i, slugs, until : DeclareAndBlock(s, i, slugs, until)
         \/ BlockStep(s)
  PROVE  block'[a] = block[a]
BY DEF BlockInv, DeclareAndBlock, BlockStep, ReadSession, ReadWait, Settle, RereadWait, Judge, Goto

(* Every step keeps what the processes know, and ends none as expired but  *)
(* by its own deadline.                                                    *)
LEMMA BlockNextKnows ==
  ASSUME BlockInv, BlockNext
  PROVE  BlockInv' /\ ExpiredIsItsOwn
<1>1. block \in [Waiter -> BlockRow]
  BY DEF BlockInv
<1>2. CASE WaitNext /\ UNCHANGED block
  <2>1. BlockInv'
    BY <1>1, <1>2, RegisterKeepsKnowledge DEF Stays
  <2>2. ExpiredIsItsOwn
    BY <1>2 DEF ExpiredIsItsOwn, Polling
  <2>3. QED  BY <2>1, <2>2
<1>3. ASSUME NEW s \in Waiter,
             \/ \E i \in Incarnation, slugs \in SUBSET Slug, until \in Until :
                  DeclareAndBlock(s, i, slugs, until)
             \/ BlockStep(s)
      PROVE  BlockInv' /\ ExpiredIsItsOwn
  <2>1. BlockInv' /\ Expires(s)
    BY <1>3, ReadSessionKnows, ReadKnows, SettleKnows, DeclaredKnows DEF BlockStep
  <2>2. \A a \in Waiter \ {s} : block'[a] = block[a]
    BY <1>3, OneProcessMoves
  <2>3. ExpiredIsItsOwn
    BY <2>1, <2>2 DEF ExpiredIsItsOwn, Expires, Polling
  <2>4. QED  BY <2>1, <2>3
<1>4. QED  BY <1>2, <1>3 DEF BlockNext

LEMMA BlockStarts ==
  ASSUME BlockInit PROVE BlockInv
<1>1. WaitInv
  BY WaitInitInv DEF BlockInit
<1>2. block \in [Waiter -> BlockRow]
  <2>1. "none" \in BlockAt
    BY DEF BlockAt
  <2>2. QED  BY <2>1 DEF BlockInit, BlockRow
<1>3. ASSUME NEW s \in Waiter PROVE BlockKnows(s)
  <2>1. /\ waits[s].inc = 0 /\ waits[s].decl = 0 /\ waits[s].reason = ""
        /\ sessions[s].inc = 0 /\ now = 0
        /\ block[s].inc = 0 /\ block[s].decl = 0 /\ block[s].time = 0 /\ block[s].at = "none"
    BY WaiterAssumption DEF BlockInit, WaitInit, Init
  <2>2. block[s].at \notin Polling /\ block[s].at # "ended" /\ waits[s].reason # "ended"
    BY <2>1 DEF Polling
  <2>3. /\ waits[s].inc <= sessions[s].inc /\ block[s].inc <= sessions[s].inc
        /\ block[s].decl <= waits[s].decl /\ block[s].time <= now
    BY <2>1, NotAboveItself, 0 \in Nat
  <2>4. QED  BY <2>1, <2>2, <2>3 DEF BlockKnows
<1>4. QED  BY <1>1, <1>2, <1>3 DEF BlockInv

LEMMA BlockStutters ==
  ASSUME BlockInv, UNCHANGED blockVars PROVE BlockInv'
BY DEF blockVars, BlockInv, BlockKnows, IsCaller, Live, Registered, WaitInv, WaitTypeOK,
   TypeOK, WaitsAreCurrent, TimersNeverLand, ExpiredOnlyPastDeadline, SentIsDue

(* What a blocked process knows holds whatever is declared, settled and    *)
(* registered between its reads.                                           *)
THEOREM BlockInvariant == BlockSpec => []BlockInv
BY BlockStarts, BlockNextKnows, BlockStutters, PTL DEF BlockSpec

(* Exit 5 means that the session that declared the wait is gone or         *)
(* registered again, and exit 3 that the deadline of the declaration the   *)
(* process made has passed, whatever is declared, settled and registered   *)
(* between its reads.                                                      *)
THEOREM ExitsStayTrue == BlockSpec => ExitsAreTrue
<1>1. BlockInv /\ BlockInv' /\ [BlockNext]_blockVars
        => [ExpiredIsItsOwn /\ EndedMeansGone']_blockVars
  BY BlockNextKnows DEF BlockInv, BlockKnows, EndedMeansGone
<1>2. QED  BY <1>1, BlockInvariant, PTL DEF BlockSpec, ExitsAreTrue
-----------------------------------------------------------------------------
(* Who a blocked process gives up on.                                      *)

(* A claim open after a step was open before it, held as it is, or its     *)
(* holder has not ended.                                                   *)
HeldOrHeard(c) ==
  \/ /\ c \in OpenIn(claims)
     /\ claims'[c].owner = claims[c].owner
     /\ claims'[c].inc = claims[c].inc
  \/ ~Ended(claims[c].owner)'

LEMMA KeptTableHeld ==
  ASSUME TableKeeps(claims')
  PROVE  \A c \in OpenIn(claims') : HeldOrHeard(c)
BY DEF TableKeeps, RowKeeps, OpenIn, HeldOrHeard

(* What a step writes of one holder who is heard leaves the rest held.     *)
LEMMA WrittenHeld ==
  ASSUME sessions' = sessions, NEW cl, TableKeeps(cl), NEW rows, claims' = Write(cl, rows),
         NEW o, ~Ended(o), \A c \in DOMAIN rows : rows[c].owner = o
  PROVE  \A c \in OpenIn(claims') : HeldOrHeard(c)
<1> SUFFICES ASSUME NEW c \in OpenIn(claims') PROVE HeldOrHeard(c)
  OBVIOUS
<1>1. CASE c \in DOMAIN rows
  <2>1. claims'[c] = rows[c]
    BY <1>1 DEF Write
  <2>2. QED  BY <1>1, <2>1 DEF HeldOrHeard, Ended, Registered
<1>2. CASE c \notin DOMAIN rows
  <2>1. c \in DOMAIN cl /\ claims'[c] = cl[c]
    BY <1>2 DEF Write, OpenIn
  <2>2. QED  BY <2>1 DEF TableKeeps, RowKeeps, OpenIn, HeldOrHeard
<1>3. QED  BY <1>1, <1>2

LEMMA RowOwners ==
  ASSUME NEW row \in ClaimRow
  PROVE  /\ \A t, j : HandTo(row, t, j).owner = t /\ Unmarked(HandTo(row, t, j)).owner = t
         /\ \A r, s, t, j : Parked(HandTo(row, t, j), r, s).owner = t
         /\ \A r, s : Renewed(Parked(row, r, s)).owner = row.owner
         /\ \A i, r, run : Rewritten(row, i, r, run).owner = row.owner
BY DEF ClaimRow, HandTo, Unmarked, Parked, Renewed, Rewritten

LEMMA SelectedOwners ==
  ASSUME TypeOK, NEW s, NEW i, NEW slugs
  PROVE  \A c \in Selected(s, i, slugs) : claims[c] \in ClaimRow /\ claims[c].owner = s
BY DEF TypeOK, Selected, HeldIn, OpenIn

LEMMA ClaimStepHeld ==
  ASSUME TypeOK, NEW s, NEW i, ClaimStep(s, i)
  PROVE  \A c \in OpenIn(claims') : HeldOrHeard(c)
<1> DEFINE cl == OrphanEnded(claims)
<1>1. TableKeeps(cl) /\ sessions' = sessions /\ ~Ended(s)
  BY OrphanEndedKeeps DEF ClaimStep, ClaimNew, ClaimRefresh, IsCaller, Live, Ended
<1>2. ASSUME NEW r, NEW id, ClaimNew(s, i, r, id)
      PROVE  \A c \in OpenIn(claims') : HeldOrHeard(c)
  <2> DEFINE row == [state |-> "open", owner |-> s, inc |-> i, slug |-> r.slug,
                     scopes |-> r.scopes, shared |-> r.shared, inRun |-> NoClaim,
                     basedOn |-> DeclaredRun(cl, r.basedOn), producer |-> NoSession,
                     renewed |-> now]
             rows == [c \in {id} |-> row]
  <2>1. claims' = Write(cl, rows)
    BY <1>2 DEF ClaimNew
  <2>2. \A c \in DOMAIN rows : rows[c].owner = s
    OBVIOUS
  <2> HIDE DEF cl, rows
  <2>3. QED  BY <1>1, <2>1, <2>2, WrittenHeld
<1>3. ASSUME NEW r, ClaimRefresh(s, i, r)
      PROVE  \A c \in OpenIn(claims') : HeldOrHeard(c)
  <2> DEFINE S == NamedIn(cl, r.slug)
             rows == [c \in S |-> Rewritten(cl[c], i, r, DeclaredRun(cl, r.basedOn))]
  <2>1. claims' = Write(cl, rows)
    BY <1>3 DEF ClaimRefresh
  <2>2. \A c \in S : cl[c].owner = s /\ cl[c] \in ClaimRow
    <3>1. \A c \in S : cl[c].owner = s /\ c \in DOMAIN cl
      BY <1>3 DEF ClaimRefresh, MayClaim, NamedIn, OpenIn
    <3>2. cl \in [DOMAIN claims -> ClaimRow] /\ DOMAIN cl = DOMAIN claims
      BY OrphanEndedType, OrphanEndedOpen DEF TypeOK
    <3> HIDE DEF cl
    <3>3. QED  BY <3>1, <3>2
  <2> HIDE DEF cl, S
  <2>3. \A c \in DOMAIN rows : rows[c].owner = s
    BY <2>2, RowOwners
  <2> HIDE DEF rows
  <2>4. QED  BY <1>1, <2>1, <2>3, WrittenHeld
<1>4. QED  BY <1>2, <1>3 DEF ClaimStep

LEMMA HandStepHeld ==
  ASSUME TypeOK, NEW s, NEW i, HandStep(s, i)
  PROVE  \A c \in OpenIn(claims') : HeldOrHeard(c)
<1>1. TableKeeps(claims)
  BY SameTableKeeps
<1>2. ASSUME NEW slugs, NEW run, ParkClaims(s, i, slugs, run)
      PROVE  \A c \in OpenIn(claims') : HeldOrHeard(c)
  <2> DEFINE S == Selected(s, i, slugs)
  <2>1. PICK r : claims' = Write(claims, [c \in S |-> Renewed(Parked(claims[c], r, s))])
    BY <1>2 DEF ParkClaims
  <2> DEFINE rows == [c \in S |-> Renewed(Parked(claims[c], r, s))]
  <2>2. \A c \in DOMAIN rows : rows[c].owner = s
    BY SelectedOwners, RowOwners
  <2>3. sessions' = sessions /\ ~Ended(s) /\ claims' = Write(claims, rows)
    BY <1>2, <2>1 DEF ParkClaims, IsCaller, Live, Ended
  <2> HIDE DEF rows
  <2>4. QED  BY <1>1, <2>2, <2>3, WrittenHeld
<1>3. ASSUME NEW slug, UnparkClaim(s, i, slug)
      PROVE  \A c \in OpenIn(claims') : HeldOrHeard(c)
  BY <1>3, UnparkKeeps, KeptTableHeld
<1>4. ASSUME NEW slugs, NEW t, NEW j, NEW run, TransferClaimsInRun(s, i, slugs, t, j, run)
      PROVE  \A c \in OpenIn(claims') : HeldOrHeard(c)
  <2> DEFINE S == Selected(s, i, slugs)
  <2>1. PICK r : claims' = Write(claims, [c \in S |-> Parked(HandTo(claims[c], t, j), r, s)])
    BY <1>4 DEF TransferClaimsInRun
  <2> DEFINE rows == [c \in S |-> Parked(HandTo(claims[c], t, j), r, s)]
  <2>2. \A c \in DOMAIN rows : rows[c].owner = t
    BY SelectedOwners, RowOwners
  <2>3. sessions' = sessions /\ ~Ended(t) /\ claims' = Write(claims, rows)
    BY <1>4, <2>1 DEF TransferClaimsInRun, MayHandOn, IsCaller, Live, Ended
  <2> HIDE DEF rows
  <2>4. QED  BY <1>1, <2>2, <2>3, WrittenHeld
<1>5. ASSUME NEW slugs, NEW t, NEW j, TransferClaims(s, i, slugs, t, j)
      PROVE  \A c \in OpenIn(claims') : HeldOrHeard(c)
  <2> DEFINE moved == Selected(s, i, slugs)
             handed == [c \in moved |-> HandTo(claims[c], t, j)]
             cl == Write(claims, handed)
             lost == {m \in moved : ~(cl[m].inRun \in DOMAIN cl /\ cl[cl[m].inRun].owner = t)}
             rows == [c \in lost |-> Unmarked(cl[c])]
  <2>1. claims' = Write(cl, rows) /\ sessions' = sessions /\ ~Ended(t)
    BY <1>5 DEF TransferClaims, MayHandOn, IsCaller, Live, Ended
  <2>2. \A c \in moved : cl[c] = HandTo(claims[c], t, j) /\ claims[c] \in ClaimRow
    BY SelectedOwners DEF Write
  <2>3. \A c \in DOMAIN cl \ moved : c \in DOMAIN claims /\ cl[c] = claims[c]
    BY DEF Write
  <2>4. lost \subseteq moved
    OBVIOUS
  <2> HIDE DEF cl, lost, moved
  <2>5. /\ \A c \in lost : claims'[c] = Unmarked(cl[c])
        /\ \A c \in DOMAIN claims' \ lost : c \in DOMAIN cl /\ claims'[c] = cl[c]
    BY <2>1 DEF Write
  <2>6. \A c \in moved : claims'[c].owner = t \/ c \notin DOMAIN claims'
    BY <2>2, <2>4, <2>5, RowOwners
  <2>7. \A c \in DOMAIN claims' \ moved : c \in DOMAIN claims /\ claims'[c] = claims[c]
    BY <2>3, <2>4, <2>5
  <2>8. ASSUME NEW c \in OpenIn(claims') PROVE HeldOrHeard(c)
    <3>1. c \in DOMAIN claims' /\ claims'[c].state = "open"
      BY DEF OpenIn
    <3>2. CASE c \in moved
      BY <2>1, <2>6, <3>1, <3>2 DEF HeldOrHeard, Ended, Registered
    <3>3. CASE c \notin moved
      BY <2>7, <3>1, <3>3 DEF HeldOrHeard, OpenIn
    <3>4. QED  BY <3>2, <3>3
  <2>9. QED  BY <2>8
<1>6. QED  BY <1>2, <1>3, <1>4, <1>5 DEF HandStep

(* No step of the ledger opens a claim of a holder that has ended.         *)
LEMMA StepHeld ==
  ASSUME TypeOK, Next
  PROVE  \A c \in OpenIn(claims') : HeldOrHeard(c)
<1>1. CASE claims' = claims
  BY <1>1, SameTableKeeps, KeptTableHeld
<1>2. ASSUME NEW s \in Session, SessionStep(s) PROVE \A c \in OpenIn(claims') : HeldOrHeard(c)
  BY <1>2, SessionStepKeeps, KeptTableHeld
<1>3. ASSUME NEW s \in Session, NEW i, ReleaseStep(s, i)
      PROVE  \A c \in OpenIn(claims') : HeldOrHeard(c)
  BY <1>3, ReleaseStepKeeps, KeptTableHeld
<1>4. ASSUME NEW force, Sweep(force) PROVE \A c \in OpenIn(claims') : HeldOrHeard(c)
  BY <1>4, SweepKeeps, KeptTableHeld
<1>5. QED  BY <1>1, <1>2, <1>3, <1>4, ClaimStepHeld, HandStepHeld DEF Next, Tick, HolderStep

(* A step of the register is a step of the ledger, or settles it.          *)
LEMMA RegisterStep ==
  ASSUME WaitInv, WaitNext, LedgerInv
  PROVE  LedgerInv' /\ \A c \in OpenIn(claims') : HeldOrHeard(c)
<1>1. TypeOK /\ TypeOK'
  BY WaitStepInv DEF WaitInv, WaitTypeOK
<1>2. CASE Next
  BY <1>1, <1>2, NextInv, StepHeld
<1>3. CASE sessions' = sessions /\ claims' = claims
  <2>1. TableKeeps(claims') /\ \A c \in OpenIn(claims') : OwnerKeeps(c)
    BY <1>1, <1>3, SameTableKeeps DEF OwnerKeeps
  <2>2. QED  BY <1>1, <2>1, KeepingKeepsInv, KeptTableHeld
<1>4. CASE SettleEnded
  <2>1. TableKeeps(claims') /\ \A c \in OpenIn(claims') : OwnerKeeps(c)
    BY <1>1, <1>4, OrphanEndedKeeps DEF SettleEnded, OwnerKeeps
  <2>2. QED  BY <1>1, <2>1, KeepingKeepsInv, KeptTableHeld
<1>5. CASE TidyingStep \/ OtherStep
  BY <1>2, <1>5 DEF TidyingStep, OtherStep, Next, SessionStep
<1>6. ASSUME NEW s, WaitStep(s)
      PROVE  SettleEnded \/ (sessions' = sessions /\ claims' = claims)
  BY <1>6 DEF WaitStep, DeclareWait, ClearWait, WaitCheck, WaitNotice, ledger
<1>7. ASSUME NEW m, CloseWait(m) \/ MarkWaitTold(m) \/ Lost(m)
      PROVE  sessions' = sessions /\ claims' = claims
  BY <1>7 DEF CloseWait, MarkWaitTold, Lost, ledger
<1>8. QED  BY <1>3, <1>4, <1>5, <1>6, <1>7 DEF WaitNext

(* What a poll settled stays so: who had ended does not come back under    *)
(* the same registration, and no claim is open that it held; and what the  *)
(* process waits on is some claim.                                         *)
Settled(s) ==
  /\ \A x \in Session, k \in Nat :
       <<x, k>> \in block[s].gone =>
         sessions[x].inc > k \/ (sessions[x].inc = k /\ sessions[x].ended)
  /\ \A c \in OpenIn(claims) : <<claims[c].owner, claims[c].inc>> \notin block[s].gone
  /\ block[s].at \in Polling /\ block[s].decl = waits[s].decl => waits[s].targets # {}

SettledInv ==
  /\ LedgerInv
  /\ BlockInv
  /\ \A s \in Waiter : Settled(s)

(* A process that stays, or whose history is let go, is as settled as it   *)
(* was.                                                                    *)
LEMMA SettledStays ==
  ASSUME SettledInv, LedgerInv', BlockInv', NEW s \in Waiter, Onward(s), WaitOnward(s),
         \A x \in Session : Onward(x),
         \A c \in OpenIn(claims') : HeldOrHeard(c),
         block'[s].gone \in {block[s].gone, {}},
         block'[s].decl = block[s].decl,
         Stays(s) \/ block[s].at \in Polling
  PROVE  Settled(s)'
<1>1. Settled(s)
  BY DEF SettledInv
<1>2. ASSUME NEW x \in Session, NEW k \in Nat, <<x, k>> \in block'[s].gone
      PROVE  sessions'[x].inc > k \/ (sessions'[x].inc = k /\ sessions'[x].ended)
  <2>1. /\ <<x, k>> \in block[s].gone
        /\ sessions[x].inc \in Nat /\ sessions'[x].inc \in Nat
    BY <1>2 DEF LedgerInv, SettledInv, TypeOK, SessionRow
  <2>2. sessions[x].inc > k \/ (sessions[x].inc = k /\ sessions[x].ended)
    BY <1>1, <2>1 DEF Settled
  <2>3. Onward(x)
    OBVIOUS
  <2>4. QED  BY <2>1, <2>2, <2>3 DEF Onward
<1>3. ASSUME NEW c \in OpenIn(claims')
      PROVE  <<claims'[c].owner, claims'[c].inc>> \notin block'[s].gone
  <2>1. HeldOrHeard(c)
    OBVIOUS
  <2>2. CASE /\ c \in OpenIn(claims)
             /\ claims'[c].owner = claims[c].owner /\ claims'[c].inc = claims[c].inc
    BY <1>1, <2>2 DEF Settled
  <2>3. CASE ~Ended(claims[c].owner)'
    <3>1. claims'[c].owner \in Session /\ claims'[c].inc \in Nat
      BY DEF LedgerInv, TypeOK, OpenIn, ClaimRow
    <3>2. claims'[c].inc = sessions'[claims'[c].owner].inc /\ ~sessions'[claims'[c].owner].ended
      BY <2>3 DEF LedgerInv, OpenClaimsAreCurrent, OpenClaimsAreOwned, Ended
    <3>3. QED  BY <1>2, <3>1, <3>2
  <2>4. QED  BY <2>1, <2>2, <2>3 DEF HeldOrHeard
<1>4. ASSUME block'[s].at \in Polling, block'[s].decl = waits'[s].decl
      PROVE  waits'[s].targets # {}
  <2>1. block[s].at \in Polling /\ block[s].decl <= waits[s].decl
    BY <1>4 DEF Stays, SettledInv, BlockInv, BlockKnows
  <2>2. /\ waits[s].decl \in Nat /\ waits'[s].decl \in Nat
        /\ block[s].decl \in Nat /\ block'[s].decl \in Nat
    BY DEF SettledInv, BlockInv, WaitInv, WaitTypeOK, WaitRow, BlockRow
  <2>3. ~(waits'[s].decl > waits[s].decl)
    BY <1>4, <2>1, <2>2
  <2>4. waits'[s].decl = waits[s].decl /\ waits'[s].targets = waits[s].targets
    BY <2>3 DEF WaitOnward
  <2>5. QED  BY <1>1, <1>4, <2>1, <2>4 DEF Settled
<1>5. QED  BY <1>2, <1>3, <1>4 DEF Settled

LEMMA SessionsGoOnward ==
  ASSUME TypeOK, WaitNext
  PROVE  \A x \in Session : Onward(x)
<1>1. CASE Next
  BY <1>1, LedgerGoesOnward
<1>2. CASE sessions' = sessions
  BY <1>2 DEF TypeOK, SessionRow, Onward
<1>3. CASE TidyingStep \/ OtherStep
  BY <1>1, <1>3 DEF TidyingStep, OtherStep, Next, SessionStep
<1>4. ASSUME NEW s, WaitStep(s) PROVE sessions' = sessions
  BY <1>4 DEF WaitStep, DeclareWait, ClearWait, WaitCheck, WaitNotice, SettleEnded, ledger
<1>5. ASSUME NEW m, CloseWait(m) \/ MarkWaitTold(m) \/ Lost(m) PROVE sessions' = sessions
  BY <1>5 DEF CloseWait, MarkWaitTold, Lost, ledger
<1>6. QED  BY <1>2, <1>3, <1>4, <1>5 DEF WaitNext, SettleEnded

(* The other processes are as settled as they were, whatever one does.     *)
LEMMA RegisterSettled ==
  ASSUME SettledInv, WaitNext, BlockInv'
  PROVE  /\ LedgerInv'
         /\ \A a \in Waiter :
              /\ block'[a].gone \in {block[a].gone, {}}
              /\ block'[a].decl = block[a].decl
              /\ Stays(a) \/ block[a].at \in Polling
              => Settled(a)'
<1>1. WaitInv /\ LedgerInv /\ BlockInv /\ TypeOK
  BY DEF SettledInv, BlockInv, WaitInv, WaitTypeOK
<1>2. LedgerInv' /\ \A c \in OpenIn(claims') : HeldOrHeard(c)
  BY <1>1, RegisterStep
<1>3. \A a \in Waiter : Onward(a) /\ WaitOnward(a)
  BY <1>1, RegisterGoesOnward
<1>4. \A x \in Session : Onward(x)
  BY <1>1, SessionsGoOnward
<1>5. QED  BY <1>2, <1>3, <1>4, SettledStays

(* A step that only reads leaves the ledger and the waits.                 *)
LEMMA ReadingSettled ==
  ASSUME SettledInv, BlockInv', UNCHANGED <<sessions, claims, minted, now, waits>>
  PROVE  /\ LedgerInv'
         /\ \A a \in Waiter :
              /\ block'[a].gone \in {block[a].gone, {}}
              /\ block'[a].decl = block[a].decl
              /\ Stays(a) \/ block[a].at \in Polling
              => Settled(a)'
<1>1. TypeOK /\ TypeOK' /\ LedgerInv
  BY DEF SettledInv, LedgerInv, BlockInv, WaitInv, WaitTypeOK
<1>2. /\ TableKeeps(claims')
      /\ \A c \in OpenIn(claims') : OwnerKeeps(c)
  BY <1>1, SameTableKeeps DEF OwnerKeeps
<1>3. LedgerInv' /\ \A c \in OpenIn(claims') : HeldOrHeard(c)
  BY <1>1, <1>2, KeepingKeepsInv, KeptTableHeld
<1>4. \A x \in Session : Onward(x)
  BY <1>1 DEF TypeOK, SessionRow, Onward
<1>5. \A a \in Waiter : Onward(a) /\ WaitOnward(a)
  <2>1. \A a \in Waiter : waits[a].decl \in Nat /\ waits'[a] = waits[a]
    BY DEF SettledInv, BlockInv, WaitInv, WaitTypeOK, WaitRow
  <2>2. QED  BY <1>4, <2>1, WaiterAssumption DEF WaitOnward
<1>6. QED  BY <1>3, <1>4, <1>5, SettledStays

LEMMA SettleSettled ==
  ASSUME SettledInv, NEW s \in Waiter, Settle(s), BlockInv'
  PROVE  SettledInv'
<1>1. /\ WaitNext /\ SettleEnded /\ sessions' = sessions /\ waits'[s].targets = waits[s].targets
      /\ waits'[s].decl = waits[s].decl
      /\ claims' = OrphanEnded(claims)
      /\ block' = [block EXCEPT ![s].at = "rereading", ![s].gone = EndedRegistrations]
      /\ block[s].at = "settling"
  <2>1. SettleEnded /\ WaitTypeOK
    BY DEF Settle, SettledInv, BlockInv, WaitInv
  <2>2. WaitKept(s)
    BY <2>1, ClearEndedKeeps DEF SettleEnded
  <2>3. QED  BY <2>1, <2>2 DEF Settle, WaitNext, SettleEnded, WaitKept
<1>2. /\ block \in [Waiter -> BlockRow] /\ TypeOK
      /\ Settled(s)
  BY DEF SettledInv, BlockInv, WaitInv, WaitTypeOK
<1>3. /\ block'[s].gone = EndedRegistrations /\ block'[s].decl = block[s].decl
      /\ \A a \in Waiter \ {s} : block'[a] = block[a]
  BY <1>1, <1>2 DEF BlockRow
<1>4. LedgerInv' /\ \A a \in Waiter \ {s} : Settled(a)'
  BY <1>1, <1>3, RegisterSettled DEF Stays
<1>5. Settled(s)'
  <2>1. ASSUME NEW x \in Session, NEW k \in Nat, <<x, k>> \in EndedRegistrations
        PROVE  sessions'[x].inc = k /\ sessions'[x].ended
    BY <1>1, <2>1 DEF EndedRegistrations, Ended
  <2>2. ASSUME NEW c \in OpenIn(claims')
        PROVE  <<claims'[c].owner, claims'[c].inc>> \notin EndedRegistrations
    BY <1>1, <1>2, OrphanEndedOpen DEF EndedRegistrations
  <2>3. block'[s].at \in Polling /\ block'[s].decl = waits'[s].decl => waits'[s].targets # {}
    BY <1>1, <1>2, <1>3 DEF Settled, Polling
  <2>4. QED  BY <1>3, <2>1, <2>2, <2>3 DEF Settled
<1>6. QED  BY <1>4, <1>5 DEF SettledInv

LEMMA DeclareSettled ==
  ASSUME SettledInv, NEW s \in Waiter, NEW i, NEW slugs, NEW until,
         DeclareAndBlock(s, i, slugs, until), BlockInv'
  PROVE  SettledInv'
<1>1. block \in [Waiter -> BlockRow] /\ waits \in [Waiter -> WaitRow]
  BY DEF SettledInv, BlockInv, WaitInv, WaitTypeOK
<1>2. /\ slugs # {} /\ \A slug \in slugs : NamedIn(claims, slug) # {}
      /\ waits' = [waits EXCEPT ![s] =
           [decl |-> @.decl + 1, inc |-> i, deadline |-> now + until,
            targets |-> UNION {NamedIn(claims, slug) : slug \in slugs},
            told |-> FALSE, reason |-> ""]]
      /\ UNCHANGED <<sessions, claims, minted, now>>
  BY DEF DeclareAndBlock, DeclareWait, ledger
<1>3. /\ block'[s].gone = {}
      /\ \A a \in Waiter \ {s} : block'[a] = block[a] /\ waits'[a] = waits[a]
  BY <1>1, <1>2 DEF DeclareAndBlock
<1>4. waits'[s].targets # {}
  <2>1. waits'[s].targets = UNION {NamedIn(claims, slug) : slug \in slugs}
    BY <1>1, <1>2
  <2>2. QED  BY <1>2, <2>1
<1>5. LedgerInv'
  <2>1. TypeOK /\ TypeOK' /\ LedgerInv
    BY DEF SettledInv, LedgerInv, BlockInv, WaitInv, WaitTypeOK
  <2>2. TableKeeps(claims') /\ \A c \in OpenIn(claims') : OwnerKeeps(c)
    BY <1>2, <2>1, SameTableKeeps DEF OwnerKeeps
  <2>3. QED  BY <2>1, <2>2, KeepingKeepsInv
<1>6. Settled(s)'
  BY <1>3, <1>4 DEF Settled
<1>7. ASSUME NEW a \in Waiter, a # s PROVE Settled(a)'
  BY <1>2, <1>3, <1>7 DEF SettledInv, Settled
<1>8. QED  BY <1>5, <1>6, <1>7 DEF SettledInv

LEMMA ReadSettled ==
  ASSUME SettledInv, NEW s \in Waiter, ReadSession(s) \/ ReadWait(s) \/ RereadWait(s), BlockInv'
  PROVE  SettledInv'
<1>1. block \in [Waiter -> BlockRow]
  BY DEF SettledInv, BlockInv
<1>2. /\ UNCHANGED <<sessions, claims, minted, now, waits>>
      /\ block[s].at \in Polling
  BY DEF ReadSession, ReadWait, RereadWait, waitVars, ledger, Polling
<1>3. /\ block'[s].decl = block[s].decl /\ block'[s].gone \in {block[s].gone, {}}
      /\ \A a \in Waiter \ {s} : block'[a] = block[a]
  <2>1. CASE ReadSession(s)
    BY <1>1, <2>1 DEF ReadSession, BlockRow
  <2>2. ASSUME NEW x, Goto(s, x)
        PROVE  /\ block'[s].decl = block[s].decl /\ block'[s].gone \in {block[s].gone, {}}
               /\ \A a \in Waiter \ {s} : block'[a] = block[a]
    BY <1>1, <2>2 DEF Goto, BlockRow
  <2>3. QED  BY <2>1, <2>2 DEF ReadWait, RereadWait, Judge
<1>4. QED  BY <1>2, <1>3, ReadingSettled DEF SettledInv, Stays

LEMMA BlockNextSettled ==
  ASSUME SettledInv, [BlockNext]_blockVars
  PROVE  SettledInv'
<1>1. BlockInv'
  BY BlockNextKnows, BlockStutters DEF SettledInv
<1>2. CASE UNCHANGED blockVars
  BY <1>1, <1>2, ReadingSettled DEF SettledInv, Stays, blockVars
<1>3. CASE WaitNext /\ UNCHANGED block
  BY <1>1, <1>3, RegisterSettled DEF SettledInv, Stays
<1>4. QED
  BY <1>1, <1>2, <1>3, SettleSettled, DeclareSettled, ReadSettled DEF BlockNext, BlockStep

(* A process gives up on a claim that was held when its poll looked.       *)
LEMMA ExpiryIsOfTheHeld ==
  ASSUME SettledInv, BlockNext
  PROVE  ExpiredOnlyOnTheHeld
<1> SUFFICES ASSUME NEW s \in Waiter, block[s].at \in Polling, block'[s].at = "expired",
                    IsOpen(waits[s])
             PROVE  \E c \in Pending(claims, s, waits[s]) : HeldSinceThePoll(s, c)
  BY DEF ExpiredOnlyOnTheHeld
<1>1. block \in [Waiter -> BlockRow] /\ Settled(s)
  BY DEF SettledInv, BlockInv
<1>2. BlockStep(s)
  <2>1. ~UNCHANGED block
    BY DEF Polling
  <2>2. ASSUME NEW a \in Waiter, NEW i, NEW slugs, NEW until, DeclareAndBlock(a, i, slugs, until)
        PROVE  FALSE
    BY <1>1, <2>2 DEF DeclareAndBlock, Polling
  <2>3. PICK a \in Waiter : BlockStep(a)
    BY <2>1, <2>2 DEF BlockNext
  <2>4. a = s
    BY <2>3, OneProcessMoves DEF SettledInv, Polling
  <2>5. QED  BY <2>3, <2>4
<1>3. ASSUME NEW x, Goto(s, x) PROVE x = "expired"
  BY <1>1, <1>3 DEF Goto, BlockRow
<1>4. /\ ReadWait(s) \/ RereadWait(s)
      /\ waits[s].decl = block[s].decl /\ Judge(s)
      /\ block[s].at = "reading" => ~PendingOnEnded(s)
  <2>1. ~ReadSession(s) /\ ~Settle(s)
    BY <1>1 DEF ReadSession, Settle, BlockRow
  <2>2. ~Goto(s, "cleared") /\ ~Goto(s, "settling") /\ ~Goto(s, "asleep")
    BY <1>3
  <2>3. QED  BY <1>2, <2>1, <2>2 DEF BlockStep, ReadWait, RereadWait, Replaced
<1>5. VerdictAt(s) = "expired"
  BY <1>3, <1>4 DEF Judge
<1>6. waits[s].targets # {}
  BY <1>1, <1>4 DEF Settled
<1>7. PICK c : c \in Pending(claims, s, waits[s])
  BY <1>5, <1>6 DEF VerdictAt, Landed
<1>8. HeldSinceThePoll(s, c)
  <2>1. CASE block[s].at = "reading"
    BY <1>4, <1>7, <2>1 DEF PendingOnEnded, HeldSinceThePoll
  <2>2. CASE block[s].at = "rereading"
    BY <1>1, <1>7, <2>2 DEF Pending, Settled, HeldSinceThePoll
  <2>3. QED  BY <1>4, <2>1, <2>2 DEF ReadWait, RereadWait
<1>9. QED  BY <1>7, <1>8

(* A wait runs out only past its own deadline, however late its close      *)
(* arrives; and a waiter is told to give up only on those who hold what it *)
(* waits for, as the check settles it or as its own poll did.              *)
THEOREM WaitsExpireJustly == BlockSpec => ExpiresJustly
<1>1. BlockInit => SettledInv
  <2>1. BlockInit => Init /\ BlockInv
    BY BlockStarts DEF BlockInit, WaitInit
  <2>2. ASSUME BlockInit, NEW s \in Waiter PROVE Settled(s)
    <3>1. block[s].gone = {} /\ block[s].at \notin Polling
      BY <2>2 DEF BlockInit, Polling
    <3>2. QED  BY <3>1 DEF Settled
  <2>3. QED  BY <2>1, <2>2, InitInv DEF SettledInv
<1>2. SettledInv /\ [BlockNext]_blockVars => SettledInv'
  BY BlockNextSettled
<1>3. SettledInv /\ SettledInv' /\ [BlockNext]_blockVars
        => [/\ ExpiredOnlyPastDeadline'
            /\ ExpiredOnlyOnTheHeld
            /\ UNCHANGED block => ExpiredOnlyOnTheLiving]_blockVars
  <2> SUFFICES ASSUME SettledInv, SettledInv', BlockNext
               PROVE  /\ ExpiredOnlyPastDeadline'
                      /\ ExpiredOnlyOnTheHeld
                      /\ UNCHANGED block => ExpiredOnlyOnTheLiving
    OBVIOUS
  <2>1. ExpiredOnlyPastDeadline'
    BY DEF SettledInv, BlockInv, WaitInv
  <2>2. ASSUME UNCHANGED block PROVE ExpiredOnlyOnTheLiving
    <3>1. CASE WaitNext
      BY <3>1, ExpiryIsOfTheLiving DEF SettledInv, BlockInv
    <3>2. CASE ~WaitNext
      <4>1. block \in [Waiter -> BlockRow]
        BY DEF SettledInv, BlockInv
      <4>2. PICK s \in Waiter :
              \/ \E i, slugs, until : DeclareAndBlock(s, i, slugs, until)
              \/ BlockStep(s)
        BY <3>2 DEF BlockNext
      <4>3. \A x : Goto(s, x) => x = block[s].at
        BY <2>2, <4>1 DEF Goto, BlockRow
      <4>4. ASSUME Judge(s), block[s].at \in {"reading", "rereading"} PROVE sent' = sent
        <5>1. CASE IsOpen(waits[s])
          <6>1. VerdictAt(s) = block[s].at
            BY <4>3, <4>4, <5>1 DEF Judge
          <6>2. VerdictAt(s) \in {"landed", "expired", "asleep"}
            BY DEF VerdictAt
          <6>3. QED  BY <4>4, <6>1, <6>2
        <5>2. CASE ~IsOpen(waits[s])
          BY <4>4, <5>2 DEF Judge
        <5>3. QED  BY <5>1, <5>2
      <4>5. ASSUME \E i, slugs, until : DeclareAndBlock(s, i, slugs, until) PROVE sent' = sent
        BY <4>5 DEF DeclareAndBlock, DeclareWait
      <4>6. ASSUME ReadWait(s) \/ RereadWait(s) PROVE sent' = sent
        BY <4>4, <4>6 DEF ReadWait, RereadWait
      <4>7. ASSUME ReadSession(s) \/ Settle(s) PROVE sent' = sent
        BY <4>7 DEF ReadSession, Settle, waitVars
      <4>8. sent' = sent
        BY <4>2, <4>5, <4>6, <4>7 DEF BlockStep
      <4>9. QED  BY <4>8 DEF ExpiredOnlyOnTheLiving
    <3>3. QED  BY <3>1, <3>2
  <2>3. QED  BY <2>1, <2>2, ExpiryIsOfTheHeld
<1>4. QED  BY <1>1, <1>2, <1>3, PTL DEF BlockSpec, ExpiresJustly

-----------------------------------------------------------------------------
(***************************************************************************)
(* The identifier register, for any spaces, takers and readers and any     *)
(* largest integer.  The inductive invariant adds to the properties of Ids *)
(* that every block lies at or below the ceiling, and that a ceiling       *)
(* somebody has read is not above the one that stands.                     *)
(***************************************************************************)
BlocksBelowCeiling ==
  \A sp \in Space : \A b \in blocks[sp] :
    ceiling[sp] # Unseeded /\ b.lo <= b.hi /\ b.hi <= ceiling[sp]

CeilingRead(q) ==
  q.space \in Space /\ q.id \in Id /\ q.ceiling \in Id
  /\ ceiling[q.space] # Unseeded /\ q.ceiling <= ceiling[q.space]

Answered(q) ==
  /\ q.space \in Space /\ q.id \in Id
  /\ q.verdict = "below ceiling, unreserved" =>
       ceiling[q.space] # Unseeded /\ q.id <= ceiling[q.space] /\ Holding(q.space, q.id) = {}

StatusInv ==
  /\ status = [r \in Reader |-> status[r]]
  /\ \A r \in Reader :
       /\ status[r].at = "ceiling read" => CeilingRead(status[r])
       /\ status[r].at = "answered" => Answered(status[r])

IdsInv == IdsTypeOK /\ NoIdTwice /\ BlocksBelowCeiling /\ StatusInv

(* Ids are integers. *)
LEMMA IdsAreIntegers == Id \subseteq Int
BY MaxIdAssumption DEF Id

(* A take gives exactly the next ids: the guard keeps the sums on the      *)
(* number line (IDTake).                                                   *)
LEMMA TakeIsNext ==
  ASSUME IdsTypeOK, NEW sp \in Space, NEW n \in Id, NEW who \in Taker, IDTake(sp, n, who)
  PROVE  /\ ceiling[sp] \in Id
         /\ n > 0 /\ ceiling[sp] + n \in Id
         /\ blocks' = [blocks EXCEPT ![sp] = @ \cup
              {[lo |-> ceiling[sp] + 1, hi |-> ceiling[sp] + n, who |-> who]}]
         /\ ceiling' = [ceiling EXCEPT ![sp] = ceiling[sp] + n]
<1>1. ceiling[sp] \in Id /\ ceiling \in [Space -> Id \cup {Unseeded}]
  BY DEF IdsTypeOK, IDTake
<1>2. n > 0 /\ n \in Int /\ ceiling[sp] \in Int /\ MaxId \in Int /\ ceiling[sp] >= 0
  BY <1>1, MaxIdAssumption DEF IDTake, Id
<1>3. ceiling[sp] + n <= MaxId
  BY <1>2 DEF IDTake
<1>4. Plus(ceiling[sp], n) = ceiling[sp] + n /\ Plus(ceiling[sp], 1) = ceiling[sp] + 1
  BY <1>2, <1>3 DEF Plus
<1>5. ceiling[sp] + n \in Id
  BY <1>2, <1>3, MaxIdAssumption DEF Id
<1> QED BY <1>1, <1>2, <1>4, <1>5 DEF IDTake

(* What status has read stays true while ceilings only rise and no block   *)
(* reaches down to an id at or below one.                                  *)
LEMMA StatusKeeps ==
  ASSUME IdsTypeOK, StatusInv, status' = status,
         \A s \in Space : ceiling[s] # Unseeded =>
           ceiling'[s] # Unseeded /\ ceiling[s] <= ceiling'[s] /\ ceiling'[s] \in Id,
         \A s \in Space, k \in Id :
           ceiling[s] # Unseeded /\ k <= ceiling[s] => Holding(s, k)' = Holding(s, k)
  PROVE  StatusInv'
<1> SUFFICES ASSUME NEW r \in Reader
             PROVE  /\ status[r].at = "ceiling read" => CeilingRead(status[r])'
                    /\ status[r].at = "answered" => Answered(status[r])'
  BY DEF StatusInv
<1> DEFINE q == status[r]
<1>1. ASSUME q.at = "ceiling read" PROVE CeilingRead(status[r])'
  <2>1. CeilingRead(q)
    BY <1>1 DEF StatusInv
  <2>2. ceiling[q.space] \in Id
    BY <2>1 DEF IdsTypeOK, CeilingRead
  <2>3. q.ceiling <= ceiling'[q.space] /\ ceiling'[q.space] # Unseeded
    BY <2>1, <2>2, MaxIdAssumption DEF CeilingRead, Id
  <2> QED BY <2>1, <2>3 DEF CeilingRead
<1>2. ASSUME q.at = "answered" PROVE Answered(status[r])'
  <2>1. Answered(q)
    BY <1>2 DEF StatusInv
  <2>2. CASE q.verdict = "below ceiling, unreserved"
    <3>1. ceiling[q.space] # Unseeded /\ ceiling[q.space] \in Id /\ q.id <= ceiling[q.space]
      BY <2>1, <2>2 DEF IdsTypeOK, Answered
    <3>2. q.id <= ceiling'[q.space] /\ ceiling'[q.space] # Unseeded
      <4>1. /\ q.space \in Space /\ q.id \in Int /\ ceiling[q.space] \in Int
            /\ ceiling'[q.space] # Unseeded /\ ceiling'[q.space] \in Int
            /\ ceiling[q.space] <= ceiling'[q.space]
        BY <2>1, <3>1, IdsAreIntegers DEF Answered
      <4> QED BY <3>1, <4>1
    <3>3. Holding(q.space, q.id)' = {}
      BY <2>1, <2>2, <3>1 DEF Answered
    <3> QED BY <2>1, <3>2, <3>3 DEF Answered
  <2> QED BY <2>1, <2>2 DEF Answered
<1> QED BY <1>1, <1>2

(* Seeding keeps the invariant: the ceiling of a space only rises. *)
LEMMA SeedInv ==
  ASSUME IdsInv, NEW sp \in Space, NEW n \in Id, IDSeed(sp, n)
  PROVE  IdsInv'
<1>1. IdsTypeOK' /\ NoIdTwice'
  BY DEF IdsInv, IdsTypeOK, NoIdTwice, IDSeed
<1>2. BlocksBelowCeiling'
  BY UnseededAssumption, MaxIdAssumption DEF IdsInv, IdsTypeOK, BlocksBelowCeiling, IDSeed, Id, Block
<1>3. StatusInv'
  <2>1. \A s \in Space : ceiling[s] # Unseeded =>
          ceiling'[s] # Unseeded /\ ceiling[s] <= ceiling'[s] /\ ceiling'[s] \in Id
    BY UnseededAssumption, MaxIdAssumption DEF IdsInv, IdsTypeOK, IDSeed, Id
  <2>2. \A s \in Space, k \in Id : Holding(s, k)' = Holding(s, k)
    BY DEF Holding, IDSeed
  <2> QED BY <2>1, <2>2, StatusKeeps DEF IdsInv, IDSeed
<1> QED BY <1>1, <1>2, <1>3 DEF IdsInv

(* A take keeps the invariant: the new block starts above every other. *)
LEMMA TakeInv ==
  ASSUME IdsInv, NEW sp \in Space, NEW n \in Id, NEW who \in Taker, IDTake(sp, n, who)
  PROVE  IdsInv'
<1> DEFINE new == [lo |-> ceiling[sp] + 1, hi |-> ceiling[sp] + n, who |-> who]
<1>1. /\ ceiling[sp] \in Id /\ n > 0 /\ ceiling[sp] + n \in Id
      /\ blocks' = [blocks EXCEPT ![sp] = @ \cup {new}]
      /\ ceiling' = [ceiling EXCEPT ![sp] = ceiling[sp] + n]
      /\ status' = status
  BY TakeIsNext DEF IdsInv, IDTake
<1>2. new \in Block
  BY <1>1, MaxIdAssumption DEF Block, Id
<1>3. IdsTypeOK'
  BY <1>1, <1>2 DEF IdsInv, IdsTypeOK
<1>4. BlocksBelowCeiling'
  BY <1>1, UnseededAssumption, MaxIdAssumption
  DEF IdsInv, IdsTypeOK, BlocksBelowCeiling, Id, Block
<1>5. \A b \in blocks[sp] : b.hi < new.lo
  BY <1>1, MaxIdAssumption DEF IdsInv, IdsTypeOK, BlocksBelowCeiling, Id, Block
<1>6. NoIdTwice'
  <2> SUFFICES ASSUME NEW s \in Space, NEW b \in blocks'[s], NEW c \in blocks'[s], b # c
               PROVE  b.hi < c.lo \/ c.hi < b.lo
    BY DEF NoIdTwice
  <2>1. CASE s # sp
    BY <1>1, <2>1 DEF IdsInv, IdsTypeOK, NoIdTwice
  <2>2. CASE s = sp
    BY <1>1, <1>5, <2>2 DEF IdsInv, IdsTypeOK, NoIdTwice
  <2> QED BY <2>1, <2>2
<1>7. \A s \in Space, k \in Id :
        ceiling[s] # Unseeded /\ k <= ceiling[s] => Holding(s, k)' = Holding(s, k)
  <2> SUFFICES ASSUME NEW s \in Space, NEW k \in Id, k <= ceiling[s], ceiling[s] # Unseeded
               PROVE  Holding(s, k)' = Holding(s, k)
    OBVIOUS
  <2>1. CASE s # sp
    BY <1>1, <2>1 DEF IdsInv, IdsTypeOK, Holding
  <2>2. CASE s = sp
    <3>1. ~(new.lo <= k)
      BY <1>1, <2>2, MaxIdAssumption DEF Id
    <3>2. blocks'[s] = blocks[s] \cup {new}
      BY <1>1, <2>2 DEF IdsInv, IdsTypeOK
    <3> QED BY <3>1, <3>2 DEF Holding
  <2> QED BY <2>1, <2>2
<1>8. \A s \in Space : ceiling[s] # Unseeded =>
        ceiling'[s] # Unseeded /\ ceiling[s] <= ceiling'[s] /\ ceiling[s] \in Id /\ ceiling'[s] \in Id
  BY <1>1, UnseededAssumption, MaxIdAssumption DEF IdsInv, IdsTypeOK, Id
<1>9. StatusInv'
  BY <1>1, <1>7, <1>8, StatusKeeps DEF IdsInv
<1> QED BY <1>3, <1>4, <1>6, <1>9 DEF IdsInv

(* The two reads of status keep the invariant. *)
LEMMA StatusStepInv ==
  ASSUME IdsInv, NEW r \in Reader, NEW sp \in Space, NEW n \in Id,
         StatusCeiling(r, sp, n) \/ StatusBlock(r)
  PROVE  IdsInv'
<1>1. ceiling' = ceiling /\ blocks' = blocks
  BY DEF StatusCeiling, StatusBlock
<1>2. IdsTypeOK' /\ NoIdTwice' /\ BlocksBelowCeiling'
  BY <1>1 DEF IdsInv, IdsTypeOK, NoIdTwice, BlocksBelowCeiling
<1>3. CASE StatusCeiling(r, sp, n)
  <2> DEFINE q == [at |-> "ceiling read", space |-> sp, id |-> n, ceiling |-> ceiling[sp]]
  <2>1. /\ status' = [status EXCEPT ![r] = q]
        /\ ceiling[sp] # Unseeded /\ ceiling[sp] \in Id
    BY <1>3 DEF StatusCeiling, IdsInv, IdsTypeOK
  <2>2. CeilingRead(q) /\ q.at # "answered"
    <3>1. ceiling[sp] <= ceiling[sp]
      <4>1. ceiling[sp] \in Int
        BY <2>1, IdsAreIntegers
      <4>2. \A x \in Int : x <= x
        OBVIOUS
      <4> QED BY <4>1, <4>2
    <3> QED BY <2>1, <3>1 DEF CeilingRead
  <2>3. \A k \in Reader : status'[k] = IF k = r THEN q ELSE status[k]
    <3> HIDE DEF q
    <3> QED BY <2>1 DEF IdsInv, StatusInv
  <2>4. StatusInv'
    BY <1>1, <2>1, <2>2, <2>3 DEF IdsInv, StatusInv, CeilingRead, Answered, Holding
  <2> QED BY <1>2, <2>4 DEF IdsInv
<1>4. CASE StatusBlock(r)
  <2>1. CeilingRead(status[r])
    BY <1>4 DEF StatusBlock, IdsInv, StatusInv
  <2> DEFINE v == StatusVerdict(status[r].space, status[r].id, status[r].ceiling)
             a == [at |-> "answered", space |-> status[r].space, id |-> status[r].id,
                   verdict |-> v]
  <2>2. v = "below ceiling, unreserved" =>
          Holding(status[r].space, status[r].id) = {} /\ ~(status[r].id > status[r].ceiling)
    BY DEF StatusVerdict
  <2>3. status' = [status EXCEPT ![r] = a]
    BY <1>4 DEF StatusBlock
  <2>4. v = "below ceiling, unreserved" =>
          /\ Holding(status[r].space, status[r].id) = {}
          /\ ceiling[status[r].space] # Unseeded
          /\ status[r].id <= ceiling[status[r].space]
    <3>1. ceiling[status[r].space] \in Id
      BY <2>1 DEF CeilingRead, IdsInv, IdsTypeOK
    <3>2. /\ status[r].id \in Int /\ status[r].ceiling \in Int
          /\ ceiling[status[r].space] \in Int
          /\ status[r].ceiling <= ceiling[status[r].space]
          /\ ceiling[status[r].space] # Unseeded
      BY <2>1, <3>1, IdsAreIntegers DEF CeilingRead
    <3>3. \A x, y, z \in Int : ~(x > y) /\ y <= z => x <= z
      OBVIOUS
    <3> HIDE DEF v, a
    <3> QED BY <2>2, <3>2, <3>3
  <2>5. Answered(a)
    <3> HIDE DEF v
    <3> QED BY <2>1, <2>4 DEF Answered, CeilingRead
  <2>6. a.at = "answered" /\ \A k \in Reader : status'[k] = IF k = r THEN a ELSE status[k]
    BY <2>3 DEF IdsInv, StatusInv
  <2>7. ASSUME NEW k \in Reader
        PROVE  /\ status'[k].at = "ceiling read" => CeilingRead(status'[k])
               /\ status'[k].at = "answered" => Answered(status'[k])
    <3> HIDE DEF a
    <3> QED BY <2>5, <2>6 DEF IdsInv, StatusInv
  <2>8. StatusInv'
    BY <1>1, <2>3, <2>7 DEF IdsInv, StatusInv, CeilingRead, Answered, Holding
  <2> QED BY <1>2, <2>8 DEF IdsInv
<1> QED BY <1>3, <1>4

(* IdsInv holds of every reachable state of the register. *)
THEOREM IdsInvariant == IdsSpec => []IdsInv
<1>1. IdsInit => IdsInv
  <2> SUFFICES ASSUME IdsInit PROVE IdsInv
    OBVIOUS
  <2>1. IdsTypeOK /\ NoIdTwice /\ BlocksBelowCeiling
    BY DEF IdsInit, IdsTypeOK, NoIdTwice, BlocksBelowCeiling
  <2>2. StatusInv
    BY DEF IdsInit, StatusInv, NoAnswer
  <2> QED BY <2>1, <2>2 DEF IdsInv
<1>2. IdsInv /\ [IdsNext]_idsVars => IdsInv'
  <2> SUFFICES ASSUME IdsInv, [IdsNext]_idsVars PROVE IdsInv'
    OBVIOUS
  <2>1. CASE UNCHANGED idsVars
    BY <2>1 DEF idsVars, IdsInv, IdsTypeOK, NoIdTwice, BlocksBelowCeiling, StatusInv, CeilingRead,
                Answered, Holding
  <2>2. CASE IdsNext
    BY <2>2, SeedInv, TakeInv, StatusStepInv DEF IdsNext
  <2> QED BY <2>1, <2>2
<1> QED BY <1>1, <1>2, PTL DEF IdsSpec

(* No id is handed out twice, whatever is seeded and taken, on a machine   *)
(* of any width (IDSeed and IDTake).                                       *)
THEOREM IdsAreUnique == IdsSpec => []NoIdTwice
<1>1. IdsInv => NoIdTwice
  BY DEF IdsInv
<1> QED BY <1>1, IdsInvariant, PTL

(* What status called unavailable stays unavailable (IDStatus).            *)
THEOREM BelowIsFinal == IdsSpec => []BelowStaysUnavailable
<1>1. IdsInv => BelowStaysUnavailable
  BY DEF IdsInv, StatusInv, Answered, BelowStaysUnavailable
<1> QED BY <1>1, IdsInvariant, PTL

(* Membership of Issued, without the nested unions. *)
LEMMA IssuedMember ==
  ASSUME NEW x
  PROVE  x \in Issued <=>
           \E sp \in Space : \E b \in blocks[sp] : \E n \in b.lo .. b.hi : x = <<sp, n, b.who>>
BY DEF Issued

(* The register refines its promise: seeds and status reads stutter, and a *)
(* take issues ids that nobody has, to one taker (IdRegister).             *)
LEMMA TakeIssues ==
  ASSUME IdsInv, NEW sp \in Space, NEW n \in Id, NEW who \in Taker, IDTake(sp, n, who)
  PROVE  Issuing!Next
<1> DEFINE lo == ceiling[sp] + 1
           hi == ceiling[sp] + n
           new == [lo |-> lo, hi |-> hi, who |-> who]
           ids == lo .. hi
<1>1. /\ ceiling[sp] \in Id /\ n > 0 /\ hi \in Id
      /\ blocks' = [blocks EXCEPT ![sp] = @ \cup {new}]
  BY TakeIsNext DEF IdsInv
<1>2. lo \in Int /\ hi \in Int /\ lo <= hi /\ ceiling[sp] \in Int /\ ceiling[sp] < lo
  BY <1>1, MaxIdAssumption DEF Id
<1>3. ids # {} /\ ids \in SUBSET Id
  <2>1. lo \in ids
    BY <1>2
  <2>2. ids \subseteq Id
    BY <1>1, MaxIdAssumption DEF Id
  <2> QED BY <2>1, <2>2
<1>4. /\ blocks \in [Space -> SUBSET Block]
      /\ blocks'[sp] = blocks[sp] \cup {new}
      /\ \A s \in Space : s # sp => blocks'[s] = blocks[s]
  BY <1>1 DEF IdsInv, IdsTypeOK
<1>5. ids \cap Issuing!IssuedIn(sp) = {}
  <2> SUFFICES ASSUME NEW k \in ids, NEW t \in Taker, <<sp, k, t>> \in Issued PROVE FALSE
    BY DEF Issuing!IssuedIn
  <2>1. PICK s \in Space : \E b \in blocks[s] : \E m \in b.lo .. b.hi : <<sp, k, t>> = <<s, m, b.who>>
    BY IssuedMember
  <2>2. PICK b \in blocks[sp] : k \in b.lo .. b.hi
    BY <2>1
  <2>3. b.lo \in Int /\ b.hi \in Int /\ b.hi <= ceiling[sp]
    <3>1. b.lo \in Id /\ b.hi \in Id
      BY <1>4 DEF Block
    <3>2. b.hi <= ceiling[sp]
      BY DEF IdsInv, BlocksBelowCeiling
    <3> QED BY <3>1, <3>2, IdsAreIntegers
  <2>4. k \in Int /\ lo <= k /\ k <= b.hi
    BY <1>2, <2>2, <2>3
  <2> HIDE DEF lo
  <2> QED BY <1>2, <2>3, <2>4
<1>6. Issued' = Issued \cup {<<sp, k, who>> : k \in ids}
  <2> HIDE DEF lo, hi
  <2>1. ASSUME NEW x \in Issued' PROVE x \in Issued \cup {<<sp, k, who>> : k \in ids}
    <3>0. PICK s \in Space : \E b \in blocks'[s] : \E m \in b.lo .. b.hi : x = <<s, m, b.who>>
      BY <2>1 DEF Issued
    <3>1. PICK b \in blocks'[s] : \E m \in b.lo .. b.hi : x = <<s, m, b.who>>
      BY <3>0
    <3>2. CASE b \in blocks[s]
      BY <3>1, <3>2, IssuedMember
    <3>3. CASE b \notin blocks[s]
      BY <1>4, <3>1, <3>3
    <3> QED BY <3>2, <3>3
  <2>2. ASSUME NEW x \in Issued PROVE x \in Issued'
    <3>0. PICK s \in Space : \E b \in blocks[s] : \E m \in b.lo .. b.hi : x = <<s, m, b.who>>
      BY <2>2, IssuedMember
    <3>1. PICK b \in blocks[s] : \E m \in b.lo .. b.hi : x = <<s, m, b.who>>
      BY <3>0
    <3>2. b \in blocks'[s]
      BY <1>4
    <3> QED BY <3>1, <3>2 DEF Issued
  <2>3. ASSUME NEW k \in ids PROVE <<sp, k, who>> \in Issued'
    <3>1. new \in blocks'[sp] /\ k \in new.lo .. new.hi /\ new.who = who
      BY <1>4, <2>3
    <3> QED BY <3>1 DEF Issued
  <2> QED BY <2>1, <2>2, <2>3
<1>7. Issuing!Issue(sp, who, ids)
  BY <1>3, <1>5, <1>6 DEF Issuing!Issue
<1> QED BY <1>3, <1>7 DEF Issuing!Next

(* The register keeps its promise: within a space an id is handed out once *)
(* and stays handed out (IDSeed, IDTake and IDStatus against IdRegister).  *)
THEOREM KeepsPromise == IdsSpec => Promise
<1>1. IdsInit => Issuing!Init
  BY DEF IdsInit, Issuing!Init, Issued
<1>2. IdsInv /\ [IdsNext]_idsVars => [Issuing!Next]_Issued
  <2> SUFFICES ASSUME IdsInv, [IdsNext]_idsVars PROVE [Issuing!Next]_Issued
    OBVIOUS
  <2>1. CASE blocks' = blocks
    BY <2>1 DEF Issued
  <2>2. CASE \E sp \in Space, n \in Id, who \in Taker : IDTake(sp, n, who)
    BY <2>2, TakeIssues
  <2> QED BY <2>1, <2>2 DEF IdsNext, idsVars, IDSeed, StatusCeiling, StatusBlock
<1> QED BY <1>1, <1>2, IdsInvariant, PTL DEF IdsSpec, Promise, Issuing!Spec

(* The invariant of the run: unique, within the integers, and final.       *)
THEOREM IdsStayFinal == IdsSpec => []IdsAreFinal
<1>1. IdsInv => IdsTypeOK
  BY DEF IdsInv
<1>2. IdsTypeOK /\ NoIdTwice /\ BelowStaysUnavailable => IdsAreFinal
  BY DEF IdsAreFinal
<1>3. QED  BY <1>1, <1>2, IdsInvariant, IdsAreUnique, BelowIsFinal, PTL
=============================================================================
