----------------------------- MODULE Discovery -----------------------------
(***************************************************************************)
(* Is there a ledger here (internal/cli/cli.go openRepo, resolveRepo and   *)
(* discoverRepo)?  Off, broken or open: git is asked first, and where it   *)
(* only fails, the file system.  Directories come and go, repositories are *)
(* made and git is killed by its deadline between the reads.               *)
(*                                                                         *)
(* The directories are a chain, 0 (which is always there) above 1 above    *)
(* ...; links on the way to them are module Spellings' business.           *)
(***************************************************************************)
EXTENDS Integers

CONSTANTS
  Depth,       \* the hook's cwd is the last directory of the chain
  Redirects,   \* what the repository that GIT_DIR names may hold
  MaxChanges   \* bounds what others do during one discovery

Chain == 0..Depth
Kinds == {"none", "repo", "refused", "unparsable", "stale"}
Ledgers == {"absent", "present", "unreadable"}

DepthAssumption == Depth \in Nat \ {0} /\ MaxChanges \in Nat /\ Redirects \subseteq Ledgers

VARIABLES
  dir,       \* [exists, search, git, ledger] of every directory
  away,      \* the ledger that GIT_DIR leads to; None: it is not set
  gitThere,  \* whether git is in the PATH
  changes,
  pc,
  asked,     \* the directory being asked about
  from,      \* the ancestor a vanished cwd is discovered from
  rest,      \* how many rounds of discoverRepo are over
  found,     \* whose ledger is to be opened
  result,    \* of this discoverRepo
  seen,      \* ghost: what has governed the cwd or the ancestor asked about
             \* in its stead, or become of what was found
  blind,     \* ghost: this round looked for entries where it could not see
             \* them all, or where git would not
  lost       \* ghost: ... found one, and its directory has gone since

ghosts == <<seen, blind, lost>>
vars == <<dir, away, gitThere, changes, pc, asked, from, rest, found, result, ghosts>>

None == "none"
Nobody == -1
Outside == -2

(* Only a repository that can be found has a ledger. *)
Directory ==
  {d \in [exists : BOOLEAN, search : BOOLEAN, git : Kinds, ledger : Ledgers] :
     /\ d.git \in {"none", "stale", "unparsable"} => d.ledger = "absent"
     /\ ~d.exists => d.search /\ d.git = "none"}

Consistent(d) ==
  /\ \A i \in Chain \ {0} : d[i].exists => d[i - 1].exists
  /\ d[0].exists /\ d[0].search

MaxOf(S) == CHOOSE i \in S : \A j \in S : j <= i
Existing(d, i) == MaxOf({j \in 0..i : d[j].exists})
Entries(d, i) == {j \in 0..Existing(d, i) : d[j].git # "none"}

(* What governs a directory, or would govern an empty one there. *)
Governs(d, i) ==
  CASE away # None -> away
    [] away = None /\ Entries(d, i) = {} -> "absent"
    [] OTHER -> LET e == d[MaxOf(Entries(d, i))] IN IF e.git = "unparsable" THEN "unreadable" ELSE e.ledger

Init ==
  /\ dir \in [Chain -> Directory] /\ Consistent(dir)
  /\ away \in {None} \cup Redirects
  /\ gitThere \in BOOLEAN /\ changes = 0
  /\ pc = "combined" /\ asked = Depth /\ from = Nobody /\ rest = 0 /\ found = Nobody /\ result = None
  /\ seen = {Governs(dir, Depth)} /\ blind = FALSE /\ lost = FALSE

-----------------------------------------------------------------------------
(* git, asked about a directory: what it may answer.                       *)
Enters(i) == dir[i].exists /\ \A j \in 0..i : dir[j].search

Git(i) ==
  {"killed" : x \in {1} \cap {IF gitThere THEN 1 ELSE 0}} \cup
  {CASE ~gitThere -> "nogit"
     [] gitThere /\ ~Enters(i) -> "fails"
     [] gitThere /\ Enters(i) /\ away # None -> "away"
     [] gitThere /\ Enters(i) /\ away = None /\ Entries(dir, i) = {} -> "notarepo"
     [] OTHER -> CASE dir[MaxOf(Entries(dir, i))].git = "repo" -> "repo"
                   [] dir[MaxOf(Entries(dir, i))].git = "stale" -> "notarepo"
                   [] OTHER -> "fails"}

Step(p) == pc' = p /\ UNCHANGED <<dir, away, gitThere, changes, ghosts>>

(* A step that looks for entries without git. *)
Looks(p) ==
  /\ pc' = p /\ blind' = (blind \/ away # None \/ \E j \in 0..asked : ~dir[j].search)
  /\ UNCHANGED <<dir, away, gitThere, changes, seen, lost>>

(* A round of discoverRepo. *)
Discovers(i) ==
  /\ pc' = "combined" /\ asked' = i /\ result' = None /\ blind' = FALSE /\ lost' = FALSE
  /\ UNCHANGED <<dir, away, gitThere, changes, seen>>

Finds(i, answer) == IF answer = "away" THEN Outside ELSE MaxOf(Entries(dir, i))

(* Both values at once, where git gives both: not in a bare repository. *)
CombinedRevParse ==
  /\ pc = "combined"
  /\ \/ \E answer \in Git(asked) \cap {"repo", "away"} :
          /\ result' = "found" /\ found' = Finds(asked, answer) /\ Step("discovered")
     \/ UNCHANGED <<result, found>> /\ Step("common")
  /\ UNCHANGED <<asked, from, rest>>

CommonDirRevParse ==
  /\ pc = "common"
  /\ \E answer \in Git(asked) :
       CASE answer \in {"repo", "away"} ->
              result' = "found" /\ found' = Finds(asked, answer) /\ Step("discovered")
         [] answer = "nogit" -> result' = "broken" /\ UNCHANGED found /\ Step("discovered")
         [] answer = "notarepo" -> result' = "off" /\ UNCHANGED found /\ Step("discovered")
         [] OTHER -> UNCHANGED <<result, found>> /\ Step("ancestors")
  /\ UNCHANGED <<asked, from, rest>>

(* Lstat of the entry at or above a directory, which it may not show. *)
VisibleEntries(i) == {j \in Entries(dir, i) : \A k \in 0..j : dir[k].search}

HasGitAncestor ==
  /\ pc = "ancestors"
  /\ IF VisibleEntries(asked) = {} THEN result' = "off" /\ Looks("discovered")
     ELSE UNCHANGED result /\ Looks("absent")
  /\ UNCHANGED <<asked, from, rest, found>>

CommonDirOf(i) == {j \in {MaxOf(VisibleEntries(i))} : dir[j].git # "unparsable"}

(* Mutant: what git refuses has no ledger. *)
TakenAsAbsent(i) == away = None

(* Mutant: whatever git refuses is broken. *)
NeverProven(i) == FALSE

Proven(i) ==
  /\ away = None /\ VisibleEntries(i) # {}
  /\ \E j \in CommonDirOf(i) : dir[j].ledger = "absent"

LedgerProvablyAbsent ==
  /\ pc = "absent"
  /\ result' = IF Proven(asked) THEN "off" ELSE "broken"
  /\ Looks("discovered") /\ UNCHANGED <<asked, from, rest, found>>

(* The environment sends git to a repository of its own choice. *)
GitDiscoveryEnv == away # None

(* resolveRepo: a cwd that exactly does not exist is discovered from the   *)
(* deepest ancestor that does, unless the environment redirects git.       *)
Vanished == ~dir[Depth].exists /\ \A j \in Chain : dir[j].search

DiscoveredCwd ==
  /\ pc = "discovered" /\ rest = 0
  /\ \/ /\ result # "found" /\ Vanished /\ ~GitDiscoveryEnv
        /\ from' = Existing(dir, Depth) /\ rest' = 1 /\ Discovers(Existing(dir, Depth))
     \/ /\ result = "found" \/ ~Vanished \/ GitDiscoveryEnv
        /\ Step(IF result = "found" THEN "open" ELSE result) /\ UNCHANGED <<asked, from, rest, result>>
  /\ UNCHANGED found

(* Both ends are read again. *)
RereadCwd ==
  /\ pc = "discovered" /\ rest = 1
  /\ IF Vanished THEN Step("reread") /\ UNCHANGED <<asked, rest, result>>
     ELSE rest' = 2 /\ Discovers(Depth)
  /\ UNCHANGED <<from, found>>

RereadAncestor ==
  /\ pc = "reread"
  /\ Step(CASE ~dir[from].exists -> "broken"
            [] dir[from].exists /\ result = "found" -> "open"
            [] OTHER -> result)
  /\ UNCHANGED <<asked, from, rest, found, result>>

DiscoveredAgain ==
  /\ pc = "discovered" /\ rest = 2
  /\ Step(IF result = "found" THEN "open" ELSE result)
  /\ UNCHANGED <<asked, from, rest, found, result>>

OpenLedgerAt ==
  /\ pc = "open"
  /\ LET ledger == IF found = Outside THEN away ELSE dir[found].ledger IN
       Step(CASE ledger = "absent" -> "off" [] ledger = "present" -> "ready" [] OTHER -> "broken")
  /\ UNCHANGED <<asked, from, rest, found, result>>

-----------------------------------------------------------------------------
(* Meanwhile directories are made, removed with all below them, opened or  *)
(* closed to a search, or get a repository or a ledger.                    *)
Changes(d) ==
  /\ pc \notin {"off", "broken", "ready"}
  /\ d # dir /\ Consistent(d) /\ dir' = d /\ changes' = changes + 1
  /\ seen' = seen \cup {Governs(d, Depth), Governs(d, asked)} \cup {d[i].ledger : i \in {found} \cap Chain}
  /\ UNCHANGED <<away, gitThere, pc, asked, from, rest, found, result, blind>>

Gone == [exists |-> FALSE, search |-> TRUE, git |-> "none", ledger |-> "absent"]

Removed(i) ==
  /\ dir[i].exists /\ Changes([j \in Chain |-> IF j >= i THEN Gone ELSE dir[j]])
  /\ lost' = (lost \/ (pc = "absent" /\ i <= asked))

(* What is there stays as long as its directory does, but for a ledger.    *)
Becomes(i, new) ==
  /\ dir[i].git = "none" \/ dir[i].git = new.git
  /\ Changes([dir EXCEPT ![i] = new]) /\ UNCHANGED lost

Next ==
  \/ CombinedRevParse \/ CommonDirRevParse \/ HasGitAncestor \/ LedgerProvablyAbsent
  \/ DiscoveredCwd \/ RereadCwd \/ RereadAncestor \/ DiscoveredAgain \/ OpenLedgerAt
  \/ /\ changes < MaxChanges
     /\ \/ \E i \in Chain \ {0} : Removed(i)
        \/ \E i \in Chain, new \in {n \in Directory : n.exists} : Becomes(i, new)

Spec == Init /\ [][Next]_vars

-----------------------------------------------------------------------------
(* errNoLedger: "the feature is legitimately off here": no directory that  *)
(* a ledger has governed all along is reported as having none, whatever    *)
(* git does and whoever makes and removes directories meanwhile: unless    *)
(* the entry was looked for where not all could be seen, or git, which did *)
(* not answer, is sent elsewhere (SearchedIsProven, NearestProvesNothing). *)
OffIsProven == pc = "off" => "absent" \in seen \/ blind

(* ledgerProvablyAbsent: nothing is refused where nothing governs.  An     *)
(* answer that denies every tool call takes a ledger, no git at all, an    *)
(* entry that cannot be read or seen, or one lost meanwhile: with the      *)
(* ancestor asked about, or with a cwd that was made again before it was   *)
(* found missing, the residual that resolveRepo's comment accepts.         *)
BrokenIsReal ==
  pc = "broken" =>
    \/ ~gitThere \/ seen # {"absent"} \/ blind
    \/ lost /\ (from = Nobody => ~Vanished)
    \/ from # Nobody /\ ~dir[from].exists

(* Off and broken are both answers with a reason in the file system.       *)
VerdictIsProven == OffIsProven /\ BrokenIsReal

-----------------------------------------------------------------------------
(* What the code says of itself and does not keep: no run checks them,     *)
(* and the README tells what breaks each.                                  *)

(* discoverRepo: "EACCES on an ancestor" is told from having no ledger.    *)
SearchedIsProven == away = None /\ pc = "off" => "absent" \in seen

(* ledgerProvablyAbsent: under GIT_DIR "git is not using the nearest .git  *)
(* at all", so what is not above a directory proves nothing of it.         *)
NearestProvesNothing == away # None /\ dir[Depth].exists /\ pc = "off" => "absent" \in seen
=============================================================================
