------------------------------ MODULE GateHook ------------------------------
(***************************************************************************)
(* The PreToolUse hook: which ledgers one tool call answers to, and in     *)
(* what order they are read (internal/cli/cli.go cmdGate, gatetargets.go,  *)
(* ghstack.go).  Every read is a step, and other sessions claim, release   *)
(* and commit, the operator pauses and resumes, and ledgers come, go and   *)
(* break between them.  What one ledger answers is module Gate's business. *)
(*                                                                         *)
(* A place is a canonical spelling.  A tool's path has several: lexical,   *)
(* physical, the link's own entry, a dangling link's target.               *)
(***************************************************************************)
EXTENDS Naturals, FiniteSets

CONSTANTS
  Repo,
  Place,
  Inside,      \* [Repo -> SUBSET Place]: what lies in a repository's worktree
  Nearest,     \* [Place -> Repo and NoRepo]: the nearest .git entry
  NoRepo,
  MaxChanges   \* bounds what others do during the call

Steps == {"decode", "home", "jurisdiction", "governed", "brake", "stack", "slots", "targets", "place", "passed", "denied"}

(* The nearest .git entry above a place in a worktree is that worktree's   *)
(* own, or lies in it, and all its worktree with it.                       *)
GeometryAssumption ==
  /\ Inside \in [Repo -> SUBSET Place] /\ Nearest \in [Place -> Repo \cup {NoRepo}]
  /\ NoRepo \notin Repo /\ Place \cap Steps = {}
  /\ \A c \in Place : Nearest[c] # NoRepo => c \in Inside[Nearest[c]]
  /\ \A r \in Repo : \A c \in Inside[r] : Nearest[c] # NoRepo => Inside[Nearest[c]] \subseteq Inside[r]

VARIABLES
  ledger,   \* none, broken, rootless, open
  held,     \* the places that others' claims cover, in each ledger
  paused,   \* the ledgers that pause this session
  slot,     \* the ledgers where it holds the gh-stack slot
  changes,
  call,     \* what the hook was given
  pc,
  todo,     \* the spellings, or directories, still to be asked about
  home,     \* what was found at the cwd
  repos,    \* targetRepos: the targets' repositories opened so far, their
            \* brake read then; the one at the cwd is not among them
  since,    \* ghost: what has held ever since the call began
  ever      \* ghost: the repositories governed at some time since

world == <<ledger, held, paused, slot>>
vars == <<ledger, held, paused, slot, changes, call, pc, todo, home, repos, since, ever>>

Unopened == [state |-> "unopened", paused |-> FALSE]
Governed == {r \in Repo : ledger[r] # "none"}

(* A ledger that cannot be read says nothing. *)
Consistent(l, h, p, s) ==
  \A r \in Repo : (l[r] # "open" => h[r] = {} /\ r \notin p \cup s) /\ h[r] \subseteq Inside[r]

Call ==
  [kind : {"unreadable", "read", "other"}, places : {{}}, err : {FALSE}, ambiguous : BOOLEAN, home : Repo \cup {NoRepo}]
  \cup [kind : {"path"}, places : (SUBSET Place) \ {{}}, err : BOOLEAN, ambiguous : BOOLEAN, home : Repo \cup {NoRepo}]
  \cup [kind : {"patch", "stack"}, places : SUBSET Place, err : BOOLEAN, ambiguous : BOOLEAN, home : Repo \cup {NoRepo}]

Facts ==
  [held |-> {p \in Repo \X Place : p[2] \in held[p[1]]}, paused |-> paused, governed |-> Governed,
   broken |-> {r \in Repo : ledger[r] = "broken"}, slotless |-> Governed \ slot]

Init ==
  /\ ledger \in [Repo -> {"none", "broken", "rootless", "open"}]
  /\ held \in [Repo -> SUBSET Place] /\ paused \in SUBSET Repo /\ slot \in SUBSET Repo
  /\ Consistent(ledger, held, paused, slot)
  /\ call \in Call /\ (call.kind # "stack" => slot = {}) /\ (call.kind # "path" => held = [r \in Repo |-> {}])
  /\ changes = 0 /\ pc = "decode" /\ todo = {} /\ home = "unopened" /\ repos = [r \in Repo |-> Unopened]
  /\ since = Facts /\ ever = Governed

-----------------------------------------------------------------------------
(* The gate.                                                               *)
Go(step) == pc' = step /\ UNCHANGED <<ledger, held, paused, slot, changes, call, home, since, ever>>
Keep == UNCHANGED <<todo, repos>>

HomeOpen == home \in {"open", "rootless"}

(* Mutant: an ambiguous identity is refused before any ledger is found. *)
AtOnce == call.kind = "unreadable" \/ call.ambiguous

Malformed == call.kind = "unreadable"

Decode ==
  /\ pc = "decode" /\ Keep
  /\ Go(CASE Malformed -> "denied" [] call.kind = "read" -> "passed" [] OTHER -> "home")

(* What a ledger answers, and whether a place lies in its worktree.        *)
DenyIfHeld(r, c) == c \in held[r]
SlotHeld(r) == r \in slot
PausedFor(r) == r \in paused
PlaceInRepo(r, c) == c \in Inside[r]

(* openRepo at the hook's cwd: off, broken or ready.                       *)
OpenHome ==
  /\ pc = "home"
  /\ home' = IF call.home = NoRepo THEN "none" ELSE ledger[call.home]
  /\ pc' = CASE home' = "broken" -> "denied"
             [] home' # "broken" /\ (call.ambiguous \/ (home' = "none" /\ call.kind = "patch")) -> "jurisdiction"
             [] home' = "none" /\ ~call.ambiguous /\ call.kind # "patch" -> "stack"
             [] OTHER -> "brake"
  /\ Keep /\ UNCHANGED <<ledger, held, paused, slot, changes, call, since, ever>>

(* openGateRepo: a repository is opened once in a call, and its brake read *)
(* then.                                                                   *)
Opened(r) ==
  IF r = NoRepo THEN [state |-> "none", paused |-> FALSE]
  ELSE IF repos[r] # Unopened THEN repos[r] ELSE [state |-> ledger[r], paused |-> PausedFor(r)]

Remember(r) == repos' = IF r = NoRepo THEN repos ELSE [repos EXCEPT ![r] = Opened(r)]

(* governedAny: a refusal that holds only where a ledger governs.  A       *)
(* stack's directories count for an ambiguous identity.                    *)
Jurisdiction ==
  /\ pc = "jurisdiction"
  /\ IF HomeOpen THEN Keep /\ Go("denied")
     ELSE todo' = call.places /\ UNCHANGED repos /\ Go("governed")

GovernedAny ==
  /\ pc = "governed"
  /\ IF todo = {} THEN Keep /\ Go("passed")
     ELSE \E c \in todo :
       /\ Remember(Nearest[c]) /\ todo' = todo \ {c}
       /\ Go(IF Opened(Nearest[c]).state = "none" THEN "governed" ELSE "denied")

Brake ==
  /\ pc = "brake" /\ Keep
  /\ Go(IF (call.home # NoRepo /\ PausedFor(call.home)) \/ call.kind = "patch" THEN "denied" ELSE "stack")

(* gateGHStack: every ledger the command can reach must have the caller    *)
(* hold its slot.                                                          *)
GhStack ==
  /\ pc = "stack"
  /\ IF call.kind # "stack" THEN todo' = call.places /\ UNCHANGED repos /\ Go("targets")
     ELSE IF HomeOpen /\ (call.err \/ home = "rootless" \/ ~SlotHeld(call.home))
       THEN Keep /\ Go("denied")
     ELSE todo' = {c \in call.places : Nearest[c] # call.home \/ ~HomeOpen} /\ UNCHANGED repos /\ Go("slots")

Slots ==
  /\ pc = "slots"
  /\ IF todo = {} THEN Keep /\ Go("passed")
     ELSE \E c \in todo : LET r == Nearest[c] repo == Opened(r) IN
       /\ Remember(r) /\ todo' = todo \ {c}
       /\ Go(IF repo.state = "none" \/ (repo.state = "open" /\ ~repo.paused /\ ~call.err /\ SlotHeld(r))
             THEN "slots" ELSE "denied")

(* A target that cannot be resolved is refused where any of its spellings  *)
(* is governed; a home without a root places nothing.                      *)
Targets ==
  /\ pc = "targets"
  /\ CASE todo = {} -> Keep /\ Go("passed")
       [] todo # {} /\ HomeOpen /\ (call.err \/ home = "rootless") -> Keep /\ Go("denied")
       [] todo # {} /\ ~HomeOpen /\ call.err -> Keep /\ Go("governed")
       [] OTHER -> Keep /\ Go("place")

Nested(c) == Nearest[c] \notin {NoRepo, call.home} /\ Inside[Nearest[c]] \subseteq Inside[call.home]

(* Mutant: a nested repository answers instead of the home one. *)
HomeUnlessNested(c) == HomeOpen /\ PlaceInRepo(call.home, c) /\ ~Nested(c)

AtHome(c) == HomeOpen /\ PlaceInRepo(call.home, c)

(* gateTarget: the home ledger's claims, whenever the place lies in it,    *)
(* and in addition those of a nested repository.                           *)
GateTarget ==
  /\ pc = "place"
  /\ \E c \in todo :
       IF AtHome(c) /\ (DenyIfHeld(call.home, c) \/ ~Nested(c))
       THEN /\ todo' = todo \ {c} /\ UNCHANGED repos
            /\ Go(IF DenyIfHeld(call.home, c) THEN "denied" ELSE "targets")
       ELSE /\ Remember(Nearest[c]) /\ UNCHANGED todo
            /\ Go(c)

(* gateForeignRepo, once the repository is open.                           *)
GateForeignRepo ==
  /\ pc \in Place
  /\ LET r == Nearest[pc] repo == Opened(r) IN
       /\ todo' = todo \ {pc} /\ UNCHANGED repos
       /\ Go(IF repo.state = "none" \/ (repo.state = "open" /\ ~repo.paused /\ ~DenyIfHeld(r, pc))
             THEN "targets" ELSE "denied")

-----------------------------------------------------------------------------
(* Meanwhile.                                                              *)
Turn(l, h, p, s) ==
  /\ changes < MaxChanges /\ pc \notin {"passed", "denied"} /\ changes' = changes + 1
  /\ ledger' = l /\ held' = h /\ paused' = p /\ slot' = s /\ Consistent(l, h, p, s)
  /\ since' = [held |-> since.held \cap Facts'.held, paused |-> since.paused \cap p,
               governed |-> since.governed \cap Facts'.governed, broken |-> since.broken \cap Facts'.broken,
               slotless |-> since.slotless \cap Facts'.slotless]
  /\ ever' = ever \cup Facts'.governed
  /\ UNCHANGED <<call, pc, todo, home, repos>>

(* Another session claims or releases. *)
Claims(r, c) ==
  Turn(ledger, [held EXCEPT ![r] = IF c \in @ THEN @ \ {c} ELSE @ \cup {c}], paused, slot)

(* The operator pauses or resumes. *)
Pauses(r) == Turn(ledger, held, IF r \in paused THEN paused \ {r} ELSE paused \cup {r}, slot)

(* A ledger is made, removed, broken or mended. *)
LedgerBecomes(r, state) ==
  /\ ledger[r] # state
  /\ Turn([ledger EXCEPT ![r] = state], [held EXCEPT ![r] = {}], paused \ {r}, slot \ {r})

Next ==
  \/ Decode \/ OpenHome \/ Jurisdiction \/ GovernedAny \/ Brake \/ GhStack \/ Slots
  \/ Targets \/ GateTarget \/ GateForeignRepo
  \/ \E r \in Repo : Pauses(r) \/ \E c \in Place : Claims(r, c)
  \/ \E r \in Repo, state \in {"none", "broken", "rootless", "open"} : LedgerBecomes(r, state)

Spec == Init /\ [][Next]_vars

-----------------------------------------------------------------------------
Passed == pc = "passed" /\ call.kind # "read"
Asked(c) == {Nearest[c]} \cup (IF call.home # NoRepo THEN {r \in {call.home} : c \in Inside[r]} ELSE {})

(* cmdGate: a call passes only where no ledger it answers to has refused   *)
(* it all along: its home, and for every spelling of its target the        *)
(* nearest repository and the home around it, each by its brake, by a      *)
(* claim, or by being unreadable.                                          *)
ReservationsHold ==
  Passed =>
    /\ call.home \notin since.paused \cup since.broken
    /\ call.kind = "path" => \A c \in call.places : \A r \in Asked(c) :
         /\ <<r, c>> \notin since.held /\ r \notin since.paused \cup since.broken
         /\ call.err \/ call.ambiguous => r \notin since.governed
    /\ call.kind = "patch" \/ call.ambiguous =>
         \A r \in {call.home} \cup {Nearest[c] : c \in call.places} : r \notin since.governed
    /\ call.kind = "stack" =>
         \A r \in {call.home} \cup {Nearest[c] : c \in call.places} : r \notin since.slotless

(* cmdGate: where no ledger governs the cwd or a target, the gate is off:  *)
(* no state of the session and no shape of the call refuses it.            *)
OffIsOff ==
  pc = "denied" /\ call.kind # "unreadable" =>
    \E r \in {call.home} \cup {Nearest[c] : c \in call.places} : r \in ever

(* What passes was refused by no ledger all along, and what is refused was *)
(* refused by one.                                                         *)
VerdictIsALedgers == ReservationsHold /\ OffIsOff

-----------------------------------------------------------------------------
(* What the code says of itself and does not keep: no run checks it, and   *)
(* the README tells what breaks it.                                        *)

(* gateForeignRepo: "if it falls inside another buddy-governed repo, that  *)
(* repo's brake and claims apply".                                         *)
EveryRepoAround ==
  Passed /\ call.kind = "path" => \A r \in Repo, c \in call.places : <<r, c>> \notin since.held
=============================================================================
