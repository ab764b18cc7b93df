------------------------------- MODULE Ledger -------------------------------
(***************************************************************************)
(* The coordination ledger of internal/store: the tables sessions, claims  *)
(* and claim_scopes, and every operation that writes them.                 *)
(*                                                                         *)
(* Each operation of the store runs in one BEGIN IMMEDIATE transaction     *)
(* (Store.tx), so it is one action; a refusal rolls the transaction back,  *)
(* so a refused call is no step at all.  A caller reads its incarnation,   *)
(* and the one of a peer it names, before the transaction opens: both are  *)
(* parameters of the action, and may be out of date when it runs.          *)
(*                                                                         *)
(* Abstractions.  A random token is a fresh member of a set of ids that    *)
(* never repeats; the token a session is registered under is the count of  *)
(* its registrations.  Labels, descriptions, outcomes and jobs are left    *)
(* out: no guard reads them.  The processes registered under a session are *)
(* left out too, so ByeFrom may or may not end the session it names.       *)
(***************************************************************************)
EXTENDS Integers, FiniteSets, Paths

CONSTANTS
  Session,        \* session ids
  Slug,           \* names of claims
  Path,           \* repository-relative paths
  Request,        \* the claims that may be asked for
  ClaimId,        \* the tokens a claim row may be given
  NoClaim,        \* the empty in_run or based_on
  NoSession,      \* the empty producer_session
  NoSlug,         \* a --based-on or --in-run that was not given
  TTL,            \* sweep: how long a closed row is kept
  ForceAfter,     \* sweep --force: the silence after which a claim is taken
  MaxRegistrations, \* bound: registrations of one session
  MaxTime         \* bound: the clock

ASSUME PathAssumption == Path \subseteq Seq(STRING) \ {<< >>}
ASSUME SlugAssumption == Slug \subseteq STRING

(* What a caller asks for: claim <slug> --scope ... [--shared] [--based-on]. *)
ClaimRequest ==
  [slug: Slug, scopes: SUBSET Path, shared: BOOLEAN, basedOn: Slug \cup {NoSlug}]

ASSUME RequestAssumption == Request \subseteq ClaimRequest
ASSUME NullAssumption ==
  NoClaim \notin ClaimId /\ NoSession \notin Session /\ NoSlug \notin Slug
ASSUME PeriodAssumption == TTL \in Nat \ {0} /\ ForceAfter \in Nat \ {0}
ASSUME BoundAssumption == MaxRegistrations \in Nat \ {0} /\ MaxTime \in Nat

VARIABLES
  sessions,  \* the row of each session id; inc 0 is no row
  claims,    \* the claim rows, by claim_id, with their scopes
  minted,    \* the claim ids ever given out
  now        \* the clock of the store, in units of the sweep periods

vars == <<sessions, claims, minted, now>>

ClaimState == {"open", "released", "orphaned"}

SessionRow == [inc: Nat, ended: BOOLEAN, seen: Nat]

ClaimRow ==
  [state: ClaimState, owner: Session, inc: Nat, slug: Slug,
   scopes: SUBSET Path, shared: BOOLEAN,
   inRun: ClaimId \cup {NoClaim}, basedOn: ClaimId \cup {NoClaim},
   producer: Session \cup {NoSession}, renewed: Nat]

TypeOK ==
  /\ sessions \in [Session -> SessionRow]
  /\ minted \subseteq ClaimId
  /\ DOMAIN claims \subseteq minted
  /\ claims \in [DOMAIN claims -> ClaimRow]
  /\ now \in Nat

-----------------------------------------------------------------------------
(* Sessions *)

Registered(s) == sessions[s].inc > 0
Live(s) == Registered(s) /\ ~sessions[s].ended
Ended(s) == Registered(s) /\ sessions[s].ended

(* The caller is live under the incarnation it captured. *)
IsCaller(s, i) == Live(s) /\ sessions[s].inc = i

-----------------------------------------------------------------------------
(* Reading the claims.  `cl` is the claims table as the transaction sees   *)
(* it, which may already hold the transaction's own writes.                *)

OpenIn(cl) == {c \in DOMAIN cl : cl[c].state = "open"}

CoversPath(c, p) == \E h \in claims[c].scopes : Covers(h, p)

NamedIn(cl, slug) == {c \in OpenIn(cl) : cl[c].slug = slug}

(* The open claims a session holds under the incarnation it names. *)
HeldIn(cl, s, i) == {c \in OpenIn(cl) : cl[c].owner = s /\ cl[c].inc = i}

(* A run is open while its row is and its holder has not said bye. *)
RunOpenIn(cl, r) == r \in OpenIn(cl) /\ Live(cl[r].owner)

(* What the rules on a pair of claims read of each side. *)
Marks(cl, c) ==
  [inRun |-> cl[c].inRun, runOpen |-> RunOpenIn(cl, cl[c].inRun),
   basedOn |-> cl[c].basedOn, shared |-> cl[c].shared]

(* Mutant: a claim declares whatever role it has. *)
DeclaresAlways(m) == m.basedOn

(* One role at a time: a claim parked in an open run, or a shared claim,   *)
(* declares nothing.                                                       *)
Declaration(m) ==
  IF m.shared \/ (m.inRun # NoClaim /\ m.runOpen) THEN NoClaim ELSE m.basedOn

(* A claim parked in run R yields to a claim declaring R while R is open,  *)
(* except on the slots.                                                    *)
ParkedYields(parked, scope, run) ==
  /\ parked.inRun # NoClaim
  /\ parked.runOpen
  /\ parked.inRun = run
  /\ ~OnSlots(scope)

(* The pair may be either way round. *)
Exempts(req, reqScope, held, heldScope) ==
  \/ ParkedYields(held, heldScope, Declaration(req))
  \/ ParkedYields(req, reqScope, Declaration(held))

(* Mutant: what a session not heard from lately holds does not conflict. *)
ConflictsWithRecent(cl, s, scopes, req) ==
  \E c \in OpenIn(cl) :
    /\ cl[c].owner # s
    /\ ~Ended(cl[c].owner)
    /\ sessions[cl[c].owner].seen = now
    /\ \E n \in scopes, h \in cl[c].scopes : Overlap(n, h)

(* Mutant: one shared side is enough. *)
ConflictsUnlessEitherShared(cl, s, scopes, req) ==
  \E c \in OpenIn(cl) :
    /\ cl[c].owner # s
    /\ ~Ended(cl[c].owner)
    /\ ~(req.shared \/ cl[c].shared)
    /\ \E n \in scopes, h \in cl[c].scopes : Overlap(n, h)

(* Some claim of another session, not ended, overlaps the scopes asked for *)
(* and neither both sides are shared nor one yields to the other.          *)
Conflicts(cl, s, scopes, req) ==
  \E c \in OpenIn(cl) :
    /\ cl[c].owner # s
    /\ ~Ended(cl[c].owner)
    /\ ~(req.shared /\ cl[c].shared)
    /\ \E n \in scopes, h \in cl[c].scopes :
         Overlap(n, h) /\ ~Exempts(req, n, Marks(cl, c), h)

(* A run is an open claim that holds the slot of its own slug. *)
HoldsRunSlot(cl, c) == SlotOf(cl[c].slug) \in cl[c].scopes

(* --based-on names a run, or a claim that is closed (which declares       *)
(* nothing), or the claim is refused.                                      *)
MayDeclare(cl, run) ==
  \/ run = NoSlug
  \/ \E c \in DOMAIN cl :
       /\ cl[c].slug = run
       /\ \A o \in NamedIn(cl, run) : Live(cl[o].owner) => HoldsRunSlot(cl, o)

(* Mutant: the declared run is stored as it was named. *)
DeclaredByName(cl, run) == run

DeclaredRun(cl, run) ==
  IF \E o \in NamedIn(cl, run) : Live(cl[o].owner)
  THEN CHOOSE o \in NamedIn(cl, run) : Live(cl[o].owner)
  ELSE NoClaim

-----------------------------------------------------------------------------
(* Writing the claims *)

Orphaned(row) == [row EXCEPT !.state = "orphaned", !.renewed = now]
Released(row) == [row EXCEPT !.state = "released", !.renewed = now]
Renewed(row) == [row EXCEPT !.renewed = now]

(* The table with these rows inserted or updated. *)
Write(cl, rows) ==
  [c \in DOMAIN cl \cup DOMAIN rows |-> IF c \in DOMAIN rows THEN rows[c] ELSE cl[c]]

Renew(S) == claims' = Write(claims, [c \in S |-> Renewed(claims[c])])
Release(S) == claims' = Write(claims, [c \in S |-> Released(claims[c])])

(* cleanupEnded, for the claims: what an ended session holds is orphaned. *)
OrphanEnded(cl) ==
  Write(cl, [c \in {o \in OpenIn(cl) : Ended(cl[o].owner)} |-> Orphaned(cl[c])])

Init ==
  /\ sessions = [s \in Session |-> [inc |-> 0, ended |-> FALSE, seen |-> 0]]
  /\ claims = << >>
  /\ minted = {}
  /\ now = 0

Tick == now < MaxTime /\ now' = now + 1 /\ UNCHANGED <<sessions, claims, minted>>

-----------------------------------------------------------------------------
(* Registration *)

Register(s) ==
  /\ sessions[s].inc < MaxRegistrations
  /\ sessions' = [sessions EXCEPT ![s] =
                    [inc |-> @.inc + 1, ended |-> FALSE, seen |-> now]]

(* Mutant: what the old incarnation held is left to a later sweep. *)
HelloNewLeavingClaims(s) == ~Live(s) /\ Register(s) /\ UNCHANGED <<claims, minted, now>>

(* hello of a session with no row, or one that ended: a new incarnation.   *)
(* What the old one still held is orphaned with every other ended claim.   *)
HelloNew(s) ==
  /\ ~Live(s)
  /\ Register(s)
  /\ claims' = OrphanEnded(claims)
  /\ UNCHANGED <<minted, now>>

(* hello of a live session: the incarnation is kept. *)
HelloLive(s) ==
  /\ Live(s)
  /\ sessions' = [sessions EXCEPT ![s].seen = now]
  /\ claims' = OrphanEnded(claims)
  /\ UNCHANGED <<minted, now>>

(* An adapter begins a worker's session: never over a live one, and over   *)
(* an ended one only by the incarnation it captured (0 for none).          *)
BeginLogical(s, prev) ==
  /\ ~Live(s)
  /\ prev = sessions[s].inc
  /\ Register(s)
  /\ claims' = OrphanEnded(claims)
  /\ UNCHANGED <<minted, now>>

End(s) ==
  /\ Live(s)
  /\ sessions' = [sessions EXCEPT ![s].ended = TRUE]
  /\ UNCHANGED <<claims, minted, now>>

(* bye: it ends the session and leaves its claims as they are. *)
Bye(s, i) == i \in {0, sessions[s].inc} /\ End(s)

(* The bye of an exiting process: it ends the session unless another of    *)
(* its processes is alive, which this module does not see.                 *)
ByeFrom(s) == End(s)

EndLogical(s, i) == i = sessions[s].inc /\ End(s)

(* A beat carries no incarnation: it renews what the id holds over p. *)
BeatFrom(s, p) ==
  /\ Live(s)
  /\ sessions' = [sessions EXCEPT ![s].seen = now]
  /\ Renew({c \in OpenIn(claims) : claims[c].owner = s /\ CoversPath(c, p)})
  /\ UNCHANGED <<minted, now>>

(* An adapter's beat is fenced, and renews only its incarnation's claims. *)
BeatLogical(s, i, p) ==
  /\ IsCaller(s, i)
  /\ sessions' = [sessions EXCEPT ![s].seen = now]
  /\ Renew({c \in HeldIn(claims, s, i) : CoversPath(c, p)})
  /\ UNCHANGED <<minted, now>>

(* What a completed write reports renews claims and nothing else. *)
RenewLogical(s, i, p) ==
  /\ IsCaller(s, i)
  /\ Renew({c \in HeldIn(claims, s, i) : CoversPath(c, p)})
  /\ UNCHANGED <<sessions, minted, now>>

Seen(s) ==
  /\ Live(s)
  /\ sessions' = [sessions EXCEPT ![s].seen = now]
  /\ UNCHANGED <<claims, minted, now>>

Heard(s) == Seen(s)

(* An adapter's retried registration, and its busy report. *)
RefreshLogical(s, i) == IsCaller(s, i) /\ Seen(s)

-----------------------------------------------------------------------------
(* Claiming *)

(* What ClaimDeclared checks once the ended sessions' claims are gone. *)
MayClaim(cl, s, r) ==
  /\ r.scopes # {}
  /\ r.shared => \A n \in r.scopes : ~OnSlots(n)
  /\ MayDeclare(cl, r.basedOn)
  /\ \A c \in NamedIn(cl, r.slug) : cl[c].owner = s
  /\ ~Conflicts(cl, s, r.scopes,
        [inRun |-> NoClaim, runOpen |-> FALSE,
         basedOn |-> DeclaredRun(cl, r.basedOn), shared |-> r.shared])

ClaimNew(s, i, r, id) ==
  LET cl == OrphanEnded(claims)
      row == [state |-> "open", owner |-> s, inc |-> i, slug |-> r.slug,
              scopes |-> r.scopes, shared |-> r.shared, inRun |-> NoClaim,
              basedOn |-> DeclaredRun(cl, r.basedOn), producer |-> NoSession,
              renewed |-> now]
  IN /\ IsCaller(s, i)
     /\ MayClaim(cl, s, r)
     /\ NamedIn(cl, r.slug) = {}
     /\ id \in ClaimId \ minted
     /\ claims' = Write(cl, [c \in {id} |-> row])
     /\ minted' = minted \cup {id}
     /\ UNCHANGED <<sessions, now>>

Rewritten(row, i, r, run) ==
  [row EXCEPT !.renewed = now, !.inc = i, !.shared = r.shared,
              !.basedOn = run, !.inRun = NoClaim, !.scopes = r.scopes]

(* Claiming a slug the caller already holds rewrites the claim in place,   *)
(* and takes it out of the run it was parked in.                           *)
ClaimRefresh(s, i, r) ==
  LET cl == OrphanEnded(claims)
      Rewrite(row) == Rewritten(row, i, r, DeclaredRun(cl, r.basedOn))
  IN /\ IsCaller(s, i)
     /\ MayClaim(cl, s, r)
     /\ NamedIn(cl, r.slug) # {}
     /\ claims' = Write(cl, [c \in NamedIn(cl, r.slug) |-> Rewrite(cl[c])])
     /\ UNCHANGED <<sessions, minted, now>>

-----------------------------------------------------------------------------
(* Releasing.  The fence is the incarnation on the claim: a caller whose   *)
(* session has ended may still release what it held.                       *)

(* The caller's open claims of these slugs, when it holds them all. *)
HoldsAll(s, i, slugs) ==
  /\ slugs # {}
  /\ \A slug \in slugs : NamedIn(claims, slug) \cap HeldIn(claims, s, i) # {}

(* Mutant: a closed claim of the slug is written along with the open one. *)
SelectedWhateverState(s, i, slugs) ==
  {c \in DOMAIN claims :
     claims[c].owner = s /\ claims[c].inc = i /\ claims[c].slug \in slugs}

Selected(s, i, slugs) == {c \in HeldIn(claims, s, i) : claims[c].slug \in slugs}

ReleaseOutcome(s, i, slug) ==
  /\ HoldsAll(s, i, {slug})
  /\ Release(Selected(s, i, {slug}))
  /\ UNCHANGED <<sessions, minted, now>>

(* Several at once, all or none. *)
ReleaseClaims(s, i, slugs) ==
  /\ HoldsAll(s, i, slugs)
  /\ Release(Selected(s, i, slugs))
  /\ UNCHANGED <<sessions, minted, now>>

(* release --scope gives back scopes the claim holds as written; giving    *)
(* back the last one closes the claim.                                     *)
Narrowed(row, drop) ==
  IF row.scopes = drop
  THEN [Released(row) EXCEPT !.scopes = {}]
  ELSE [Renewed(row) EXCEPT !.scopes = @ \ drop]

ReleaseScopes(s, i, slug, drop) ==
  LET given == Selected(s, i, {slug})
  IN /\ HoldsAll(s, i, {slug})
     /\ drop # {}
     /\ \A c \in given : drop \subseteq claims[c].scopes
     /\ claims' = Write(claims, [c \in given |-> Narrowed(claims[c], drop)])
     /\ UNCHANGED <<sessions, minted, now>>

-----------------------------------------------------------------------------
(* Parking and handing on *)

(* Mutant: a claim under .buddy may be parked. *)
ParkAnything(t, run, moved) ==
  {r \in NamedIn(claims, run) : HoldsRunSlot(claims, r) /\ claims[r].owner = t}

(* The open run `run` of session t, in which the claims `moved` may park. *)
ParkTarget(t, run, moved) ==
  {r \in NamedIn(claims, run) :
     /\ HoldsRunSlot(claims, r)
     /\ claims[r].owner = t
     /\ \A c \in moved : \A h \in claims[c].scopes : ~InBuddyDir(h)}

(* The first to park a claim stays its producer. *)
Parked(row, r, s) ==
  [row EXCEPT !.inRun = r,
              !.producer = IF @ = NoSession THEN s ELSE @]

(* release --in-run without --to: the claims stay with the caller.  An     *)
(* overlap this leaves is reported, never refused.                         *)
ParkClaims(s, i, slugs, run) ==
  LET moved == Selected(s, i, slugs)
  IN /\ IsCaller(s, i)
     /\ HoldsAll(s, i, slugs)
     /\ \E r \in ParkTarget(s, run, moved) :
          claims' = Write(claims, [c \in moved |-> Renewed(Parked(claims[c], r, s))])
     /\ UNCHANGED <<sessions, minted, now>>

Unparked(row) == [row EXCEPT !.inRun = NoClaim]

UnparkClaim(s, i, slug) ==
  LET taken == Selected(s, i, {slug})
  IN /\ HoldsAll(s, i, {slug})
     /\ \A c \in taken : claims[c].inRun # NoClaim
     /\ claims' = Write(claims, [c \in taken |-> Renewed(Unparked(claims[c]))])
     /\ UNCHANGED <<sessions, minted, now>>

(* What both transfers check before a claim moves to t. *)
MayHandOn(s, i, slugs, t, j) ==
  /\ IsCaller(s, i)
  /\ HoldsAll(s, i, slugs)
  /\ t # s
  /\ IsCaller(t, j)

(* Mutant: a claim that moves with its mark is not checked again. *)
LandsIfParked(cl, moved, t) ==
  \A c \in moved : cl[c].inRun # NoClaim \/ ~Conflicts(cl, t, cl[c].scopes, Marks(cl, c))

(* The moved claims are checked where they land, with the marks they land with. *)
Lands(cl, moved, t) ==
  \A c \in moved : ~Conflicts(cl, t, cl[c].scopes, Marks(cl, c))

HandTo(row, t, j) == [row EXCEPT !.owner = t, !.inc = j, !.renewed = now]

Unmarked(row) == [row EXCEPT !.inRun = NoClaim, !.producer = NoSession]

(* release --to: a claim handed on stays parked only with the holder of    *)
(* its run.                                                                *)
TransferClaims(s, i, slugs, t, j) ==
  LET moved == Selected(s, i, slugs)
      cl == Write(claims, [c \in moved |-> HandTo(claims[c], t, j)])
      WithItsRun(c) == cl[c].inRun \in DOMAIN cl /\ cl[cl[c].inRun].owner = t
      after == Write(cl, [c \in {m \in moved : ~WithItsRun(m)} |-> Unmarked(cl[c])])
  IN /\ MayHandOn(s, i, slugs, t, j)
     /\ Lands(after, moved, t)
     /\ claims' = after
     /\ UNCHANGED <<sessions, minted, now>>

(* release --to --in-run: handed to the holder of the run, parked in it. *)
TransferClaimsInRun(s, i, slugs, t, j, run) ==
  LET moved == Selected(s, i, slugs)
  IN /\ MayHandOn(s, i, slugs, t, j)
     /\ \E r \in ParkTarget(t, run, moved) :
          LET after == Write(claims, [c \in moved |-> Parked(HandTo(claims[c], t, j), r, s)])
          IN Lands(after, moved, t) /\ claims' = after
     /\ UNCHANGED <<sessions, minted, now>>

-----------------------------------------------------------------------------
(* sweep: orphan what ended sessions hold and, forced, what silent ones    *)
(* do; then delete the closed rows older than the ttl.  A dry run rolls    *)
(* back and is no step.                                                    *)

(* Mutant: a session heard ForceAfter ago counts as silent. *)
SilentTooSoon(s) == Live(s) /\ sessions[s].seen <= now - ForceAfter

Silent(s) == Live(s) /\ sessions[s].seen < now - ForceAfter

Sweep(force) ==
  LET cl == OrphanEnded(claims)
      quiet == {c \in OpenIn(cl) : force /\ Silent(cl[c].owner)}
      swept == Write(cl, [c \in quiet |-> Orphaned(cl[c])])
      old == {c \in DOMAIN swept : swept[c].state # "open" /\ swept[c].renewed < now - TTL}
  IN /\ claims' = [c \in DOMAIN swept \ old |-> swept[c]]
     /\ UNCHANGED <<sessions, minted, now>>

-----------------------------------------------------------------------------
Incarnation == 1 .. MaxRegistrations

Arrive(s) ==
  \/ HelloNew(s)
  \/ HelloLive(s)
  \/ \E prev \in {0} \cup Incarnation : BeginLogical(s, prev)

Proceed(s) ==
  \/ \E i \in {0} \cup Incarnation : Bye(s, i)
  \/ ByeFrom(s)
  \/ \E i \in Incarnation : EndLogical(s, i)
  \/ \E p \in Path : BeatFrom(s, p)
  \/ \E i \in Incarnation, p \in Path : BeatLogical(s, i, p) \/ RenewLogical(s, i, p)
  \/ Heard(s)
  \/ \E i \in Incarnation : RefreshLogical(s, i)

SessionStep(s) == Arrive(s) \/ Proceed(s)

ClaimStep(s, i) ==
  \E r \in Request :
    \/ \E id \in ClaimId : ClaimNew(s, i, r, id)
    \/ ClaimRefresh(s, i, r)

ReleaseStep(s, i) ==
  \/ \E slug \in Slug : ReleaseOutcome(s, i, slug)
  \/ \E slugs \in SUBSET Slug : ReleaseClaims(s, i, slugs)
  \/ \E slug \in Slug, drop \in SUBSET Path : ReleaseScopes(s, i, slug, drop)

HandStep(s, i) ==
  \/ \E slugs \in SUBSET Slug, run \in Slug : ParkClaims(s, i, slugs, run)
  \/ \E slug \in Slug : UnparkClaim(s, i, slug)
  \/ \E slugs \in SUBSET Slug, t \in Session, j \in Incarnation :
       \/ TransferClaims(s, i, slugs, t, j)
       \/ \E run \in Slug : TransferClaimsInRun(s, i, slugs, t, j, run)

(* All of these select among the open claims the caller holds. *)
HolderStep(s, i) == HeldIn(claims, s, i) # {} /\ (ReleaseStep(s, i) \/ HandStep(s, i))

Next ==
  \/ Tick
  \/ \E s \in Session : SessionStep(s)
  \/ \E s \in Session, i \in Incarnation : ClaimStep(s, i) \/ HolderStep(s, i)
  \/ \E force \in BOOLEAN : Sweep(force)

Spec == Init /\ [][Next]_vars

-----------------------------------------------------------------------------
(* Safety *)

(* An open claim is held under its owner's current registration: no claim  *)
(* outlives the incarnation that holds it, whichever of hello, begin, bye, *)
(* transfer and sweep ran in between, so the incarnation fence of the      *)
(* release and transfer doors never shuts a live owner out of its claim.   *)
OpenClaimsAreCurrent ==
  \A c \in OpenIn(claims) : claims[c].inc = sessions[claims[c].owner].inc

(* One open claim per slug (the unique index the insert relies on). *)
OneOpenClaimPerSlug ==
  \A slug \in Slug : Cardinality(NamedIn(claims, slug)) <= 1

(* A claim parked in a run never reaches .buddy: a slot does not yield,    *)
(* and a parked claim is never itself a run (parkTarget, issue #61).       *)
ParkedNeverCoordination ==
  \A c \in OpenIn(claims) :
    claims[c].inRun # NoClaim => \A h \in claims[c].scopes : ~InBuddyDir(h)

(* A shared claim never reaches the slots (claimScopes, D-042). *)
SharedOffSlots ==
  \A c \in OpenIn(claims) :
    claims[c].shared => \A h \in claims[c].scopes : ~OnSlots(h)

(* r was parked, at its scope h, and d declares: what an overlap left      *)
(* behind by a park looks like once the run has closed or r was unparked.  *)
RiderBeside(r, h, d) ==
  /\ claims[r].producer # NoSession
  /\ ~OnSlots(h)
  /\ claims[d].basedOn # NoClaim

(* The exclusion of the claim door, over every operation that can bring    *)
(* two claims together: the overlapping claims of two live sessions are    *)
(* both shared, or one was parked and the other declares a run.            *)
StandingOverlapsAreRiders ==
  \A c, d \in OpenIn(claims) :
    /\ claims[c].owner # claims[d].owner
    /\ Live(claims[c].owner)
    /\ Live(claims[d].owner)
    /\ ~(claims[c].shared /\ claims[d].shared)
    => \A g \in claims[c].scopes, h \in claims[d].scopes :
         Overlap(g, h) => RiderBeside(c, g, d) \/ RiderBeside(d, h, c)

(* Claims stand beside each other only as their doors admit it.            *)
OverlapsAreAdmitted == ParkedNeverCoordination /\ StandingOverlapsAreRiders

(* A slot has capacity one: two live sessions never both hold it, through  *)
(* parks, handovers, crashes of a holder and re-registrations.             *)
SlotHasOneHolder ==
  \A c, d \in OpenIn(claims) :
    /\ Live(claims[c].owner)
    /\ Live(claims[d].owner)
    /\ \E g \in claims[c].scopes, h \in claims[d].scopes :
         Overlap(g, h) /\ OnSlots(g) /\ OnSlots(h)
    => claims[c].owner = claims[d].owner

(* Whoever holds, holds by its own registration, and a slot only alone.    *)
ClaimsAreHeld == TypeOK /\ OpenClaimsAreCurrent /\ SlotHasOneHolder

(* "A claim id is closed forever once closed" (wait.go), which is what a   *)
(* wait on a claim id rests on: a closed row never reopens, changes hands  *)
(* or name, and a deleted id never comes back.                             *)
ClosedStays ==
  \A c \in minted :
    ~(c \in OpenIn(claims)) =>
      IF c \in DOMAIN claims /\ c \in DOMAIN claims'
      THEN claims'[c] = claims[c]
      ELSE c \notin DOMAIN claims'

(* A claim leaves a session's hands unasked only when that session had     *)
(* ended, or had been silent for the whole of ForceAfter.                  *)
OrphanedOnlyIfGone ==
  \A c \in OpenIn(claims) :
    c \in DOMAIN claims' /\ claims'[c].state = "orphaned" =>
      LET s == claims[c].owner
      IN Ended(s) \/ now - sessions[s].seen > ForceAfter

(* A claim ends once, and not unasked while its holder is heard.           *)
ClaimsEndOnce == [][ClosedStays /\ OrphanedOnlyIfGone]_vars
=============================================================================
