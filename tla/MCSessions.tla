----------------------------- MODULE MCSessions -----------------------------
(* What the ledger keeps of a session while its processes come and go: the *)
(* observations of its turns, the processes themselves, the queue of its   *)
(* adapter, the files it has written. A behaviour is of one of them, the   *)
(* part: each has tables of its own, and no step of one reads another's.   *)
EXTENDS Naturals, TLC

CONSTANTS
  Hook, Size, HandoffAt, HandoffStep,
  Pid, MaxBorn, MaxHooks, MaxHops,
  Session, MaxInc,
  Leaving, File, Every, Ttl, Keep

VARIABLES
  part,
  clock, session, turn, transcript, hooks, idle, context, base,
  kernel, spawned, live, procs, users, overrun,
  sessions, endpoints, inbox, delivered, nextId, launch, page, shown, said,
  now, ended, tree, rows, scans, warned, beats, owed, spoiled

turns == INSTANCE Turns WITH MaxTime <- 4
processes == INSTANCE Procs
adapter(S, Q, N) == INSTANCE Adapter WITH Session <- S, Proc <- Q, MaxMsg <- N
dirty(B, T) == INSTANCE Dirty WITH Beat <- B, MaxTime <- T

One == {"a"}
Two == {"p", "q"}
Three == {"p", "q", "r"}
OneBeat == {"beat"}

Symmetry == Permutations(Hook)

ASSUME TurnBounds == turns!SizeAssumption /\ turns!HandoffAssumption
ASSUME ProcessBounds ==
  /\ processes!PidAssumption /\ processes!BornAssumption
  /\ processes!HopsAssumption
ASSUME AdapterBounds == adapter(Session, Two, 1)!BoundAssumption
ASSUME dirty(Hook, 1)!IntervalAssumption

-----------------------------------------------------------------------------
onlyTurns == <<clock, session, turn, transcript, context, base>>
onlyProcs == <<kernel, spawned, live, users, overrun>>
onlyAdapter == <<sessions, endpoints, inbox, delivered, nextId, launch, page, shown, said>>
dirtyVars == <<now, ended, tree, rows, scans, warned, beats, owed, spoiled>>
vars == <<part, hooks, idle, procs, onlyTurns, onlyProcs, onlyAdapter, dirtyVars>>

NoTurns == clock = 0 /\ session = 0 /\ turn = 0 /\ transcript = 0 /\ context = 0 /\ base = 0
NoProcs == kernel = 0 /\ spawned = 0 /\ live = 0 /\ users = 0 /\ overrun = 0
NoAdapter ==
  /\ sessions = 0 /\ endpoints = 0 /\ inbox = 0 /\ delivered = 0 /\ nextId = 0
  /\ launch = 0 /\ page = 0 /\ shown = 0 /\ said = 0
NoDirty ==
  /\ now = 0 /\ ended = 0 /\ tree = 0 /\ rows = 0 /\ scans = 0
  /\ warned = 0 /\ beats = 0 /\ owed = 0 /\ spoiled = 0

(* The adapter with two sessions and one message, or with one session whose *)
(* message is corrected; the dirty files with two beats at a time, or with  *)
(* one over the terms of both retentions.                                   *)
Init ==
  \/ part = "turns" /\ turns!Init /\ procs = 0 /\ NoProcs /\ NoAdapter /\ NoDirty
  \/ part = "procs" /\ processes!Init /\ idle = 0 /\ NoTurns /\ NoAdapter /\ NoDirty
  \/ part = "adapter" /\ adapter(Session, Two, 1)!Init /\ hooks = 0 /\ NoTurns /\ NoProcs /\ NoDirty
  \/ part = "corrections" /\ adapter(One, Three, 2)!Init /\ hooks = 0 /\ NoTurns /\ NoProcs /\ NoDirty
  \/ part = "dirty" /\ dirty(Hook, 1)!Init /\ hooks = 0 /\ idle = 0 /\ procs = 0 /\ NoTurns /\ NoProcs /\ NoAdapter
  \/ part = "dirtyLong" /\ dirty(OneBeat, 2)!Init /\ hooks = 0 /\ idle = 0 /\ procs = 0 /\ NoTurns /\ NoProcs /\ NoAdapter

TurnsNext ==
  part = "turns" /\ turns!Next /\ UNCHANGED <<part, procs, onlyProcs, onlyAdapter, dirtyVars>>
ProcsNext ==
  part = "procs" /\ processes!Next /\ UNCHANGED <<part, idle, onlyTurns, onlyAdapter, dirtyVars>>
AdapterNext ==
  part = "adapter" /\ adapter(Session, Two, 1)!Next /\ UNCHANGED <<part, hooks, onlyTurns, onlyProcs, dirtyVars>>
CorrectionsNext ==
  part = "corrections" /\ adapter(One, Three, 2)!Next /\ UNCHANGED <<part, hooks, onlyTurns, onlyProcs, dirtyVars>>
NotDirty == UNCHANGED <<part, hooks, idle, procs, onlyTurns, onlyProcs, onlyAdapter>>
DirtyNext == part = "dirty" /\ dirty(Hook, 1)!Next /\ NotDirty
DirtyLongNext == part = "dirtyLong" /\ dirty(OneBeat, 2)!Next /\ NotDirty

Next ==
  \/ TurnsNext \/ ProcsNext \/ AdapterNext \/ CorrectionsNext
  \/ DirtyNext \/ DirtyLongNext

Spec == Init /\ [][Next]_vars

-----------------------------------------------------------------------------
(* Turns: the idle mark, the base and the footprint are about a turn of    *)
(* the incarnation they name.                                              *)
ObservationsAreOwn == part = "turns" => turns!ObservationsAreOwn

(* Turns: no handoff step stands as told beside a smaller request.         *)
StepIsEarned == part = "turns" => turns!StepIsEarned

(* Procs: a bye that is not forced ends a session only when no other       *)
(* process that spoke for it still runs, but for one that was overrun.     *)
EndSparesTheLiving == [][part = "procs" => processes!SparesTheLiving]_vars

(* Adapter: what is queued for one incarnation is shown to no other, and   *)
(* an inspection tells of the incarnation it names.                        *)
IncarnationsAreApart ==
  /\ part = "adapter" => adapter(Session, Two, 1)!IncarnationsAreApart
  /\ part = "corrections" => adapter(One, Three, 2)!IncarnationsAreApart

(* Adapter: nobody is shown a correction who cannot be shown the original. *)
CorrectionMeetsItsOriginal == part = "corrections" => adapter(One, Three, 2)!CorrectionMeetsItsOriginal

(* Dirty: who is on record with a file, and who is told of it, is right.   *)
HoldingsAreTrue ==
  /\ part = "dirty" => dirty(Hook, 1)!HoldingsAreTrue
  /\ part = "dirtyLong" => dirty(OneBeat, 2)!HoldingsAreTrue

(* Dirty: two scans of a session never start from one lease.               *)
OneScanPerLease ==
  [][part = "dirty" \/ part = "dirtyLong" => dirty(Hook, 1)!LeaseIsWaitedOut]_vars
=============================================================================
