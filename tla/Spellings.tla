----------------------------- MODULE Spellings -----------------------------
(***************************************************************************)
(* Every place that a write to one tool path can land                      *)
(* (internal/cli/gatetargets.go, cli.go canon): the hook asks about the    *)
(* lexical and the physical spelling of the path, the entry of either, and *)
(* what a dangling link among them would create.                           *)
(*                                                                         *)
(* A path is a sequence of names and ".."; "/" at its head starts it at    *)
(* the root, where every tool path starts.  A place is a path of names     *)
(* that has no link among its directories.                                 *)
(***************************************************************************)
EXTENDS Naturals, Sequences, SequencesExt

CONSTANTS
  Names,
  Entry,      \* the places where something may be; the root is a directory
  LinkTarget, \* what links contain
  MaxPath,    \* bounds the length of a tool path
  MaxLinks    \* maxSymlinks; one for the walks of Go, the kernel and the hook

PathsAssumption ==
  /\ Names \cap {"..", "/"} = {} /\ LinkTarget \subseteq Seq(Names \cup {"..", "/"})
  /\ MaxLinks \in Nat

VARIABLES
  fs,       \* what is at every entry
  path,     \* the tool's path; relative ones are joined to the cwd first
  asked,    \* gateTargets
  refused,  \* its error
  landed    \* where the tool then wrote or unlinked

vars == <<fs, path, asked, refused, landed>>

Step == Names \cup {"..", "/"}
Links == 0..MaxLinks

Absent == [kind |-> "absent", to |-> <<>>]
Thing == {Absent, [kind |-> "file", to |-> <<>>], [kind |-> "dir", to |-> <<>>]}
         \cup [kind : {"link"}, to : LinkTarget]
Root == [kind |-> "dir", to |-> <<>>]
At(place) == IF place = <<>> THEN Root ELSE IF place \in Entry THEN fs[place] ELSE Absent

Init ==
  /\ fs \in [Entry -> Thing]
  /\ \A e \in Entry : fs[e] # Absent => At(Front(e)).kind = "dir"
  /\ path \in UNION {[1..n -> Names \cup {".."}] : n \in 1..MaxPath}
  /\ asked = {} /\ refused = FALSE /\ landed = {}

Up(place) == IF place = <<>> THEN place ELSE Front(place)

-----------------------------------------------------------------------------
(* filepath.Clean, EvalSymlinks and Lstat.  A resolution is what came of   *)
(* it, and the place.                                                      *)
Clean[p \in Seq(Step)] ==
  CASE p = <<>> -> <<>>
    [] p # <<>> /\ Last(p) = ".." -> Up(Clean[Front(p)])
    [] OTHER -> Append(Clean[Front(p)], Last(p))

(* A walk under way: where it is, what is left of the path, links so far. *)
Walks == Seq(Step) \X Seq(Step) \X Links

Missing == <<"missing", <<>>>>
Error == <<"error", <<>>>>
Succeeds(r) == r[1] = "ok"

Walk[w \in Walks] ==
  LET at == w[1] rest == w[2] links == w[3] IN
  CASE rest = <<>> -> <<"ok", at>>
    [] rest # <<>> /\ Head(rest) = "/" -> Walk[<<<<>>, Tail(rest), links>>]
    [] rest # <<>> /\ Head(rest) # "/" /\ At(at).kind # "dir" -> Error
    [] rest # <<>> /\ At(at).kind = "dir" /\ Head(rest) = ".." -> Walk[<<Up(at), Tail(rest), links>>]
    [] OTHER ->
         LET next == Append(at, Head(rest)) IN
         CASE At(next) = Absent -> Missing
           [] At(next).kind = "link" ->
                IF links = MaxLinks THEN Error ELSE Walk[<<at, At(next).to \o Tail(rest), links + 1>>]
           [] OTHER -> Walk[<<next, Tail(rest), links>>]

EvalSymlinks(p) == Walk[<<<<>>, p, 0>>]

Lstat(p) ==
  LET dir == EvalSymlinks(Front(p)) IN
  IF p = <<>> \/ ~Succeeds(dir) THEN dir
  ELSE CASE At(dir[2]).kind # "dir" -> Error
         [] At(Append(dir[2], Last(p))) = Absent -> Missing
         [] OTHER -> <<"ok", Append(dir[2], Last(p))>>

-----------------------------------------------------------------------------
(* The hook.                                                               *)
Canon[p \in Seq(Step)] ==
  IF Succeeds(EvalSymlinks(p)) THEN EvalSymlinks(p)[2]
  ELSE LET c == Clean[p] IN IF c = <<>> THEN c ELSE Append(Canon[Front(c)], Last(c))

Physical[p \in Seq(Step)] ==
  CASE Succeeds(EvalSymlinks(p)) -> EvalSymlinks(p)[2]
    [] ~Succeeds(EvalSymlinks(p)) /\ (Len(p) <= 1 \/ Last(p) = "..") -> Canon[p]
    [] OTHER -> Append(Physical[Front(p)], Last(p))

(* The place of the path itself, the links before it resolved. *)
EntryOf(p, dir) == IF p = <<>> \/ Last(p) = ".." THEN {} ELSE {Append(dir, Last(p))}

(* Missing names are kept, and ".." applies after the links before it. *)
ResolveMissing[w \in Walks] ==
  LET at == w[1] rest == w[2] links == w[3] IN
  CASE rest = <<>> -> <<"ok", at>>
    [] rest # <<>> /\ Head(rest) = "/" -> ResolveMissing[<<<<>>, Tail(rest), links>>]
    [] rest # <<>> /\ Head(rest) = ".." -> ResolveMissing[<<Up(at), Tail(rest), links>>]
    [] OTHER ->
         LET next == Append(at, Head(rest)) IN
         CASE Lstat(next) = Missing -> ResolveMissing[<<next, Tail(rest), links>>]
           [] Lstat(next) = Error -> Error
           [] Succeeds(Lstat(next)) /\ At(next).kind = "link" ->
                IF links = MaxLinks THEN Error ELSE ResolveMissing[<<at, At(next).to \o Tail(rest), links + 1>>]
           [] OTHER -> ResolveMissing[<<next, Tail(rest), links>>]

Dangles(e) == Succeeds(Lstat(e)) /\ At(Lstat(e)[2]).kind = "link" /\ ~Succeeds(EvalSymlinks(e))

(* Mutant: one link is read, and what it holds is taken as written. *)
ReadOnce(e) == <<"ok", Clean[Front(e) \o At(Lstat(e)[2]).to]>>

Followed(e) == ResolveMissing[<<<<>>, e, 0>>]

DanglingTarget(e) ==
  CASE Lstat(e) = Missing -> {} [] Lstat(e) = Error -> {Error} [] OTHER -> IF Dangles(e) THEN {Followed(e)} ELSE {}

(* Mutant: the places that the links lead to, without the links. *)
LedTo(p) == {Canon[Clean[p]], Physical[p]}

Spelled(p) == {Canon[Clean[p]], Physical[p]} \cup EntryOf(Clean[p], Canon[Up(Clean[p])]) \cup EntryOf(p, Physical[Up(p)])

GateTargets ==
  /\ asked = {}
  /\ LET beyond == UNION {DanglingTarget(e) : e \in Spelled(path)} IN
       /\ asked' = Spelled(path) \cup {r[2] : r \in {b \in beyond : Succeeds(b)}}
       /\ refused' = (Error \in beyond)
  /\ UNCHANGED <<fs, path, landed>>

-----------------------------------------------------------------------------
(* The tool, which hands the path to the kernel as it is or cleaned. It    *)
(* makes no directory of its own on the way.                               *)
Opens[w \in Walks] ==
  LET at == w[1] rest == w[2] links == w[3] IN
  IF rest = <<>> THEN {}
  ELSE LET c == Head(rest) next == Append(at, c) IN
    CASE c = "/" -> Opens[<<<<>>, Tail(rest), links>>]
      [] c = ".." -> Opens[<<Up(at), Tail(rest), links>>]
      [] c \notin {"/", ".."} /\ At(next).kind \in {"absent", "file"} -> IF Len(rest) = 1 THEN {next} ELSE {}
      [] c \notin {"/", ".."} /\ At(next).kind = "dir" -> Opens[<<next, Tail(rest), links>>]
      [] OTHER -> IF links = MaxLinks THEN {} ELSE Opens[<<at, At(next).to \o Tail(rest), links + 1>>]

Unlinks(p) ==
  IF p = <<>> \/ Last(p) = ".." \/ ~Succeeds(Lstat(p)) THEN {}
  ELSE {e \in {Lstat(p)[2]} : At(e).kind # "dir"}

Lands ==
  /\ asked # {} /\ landed = {}
  /\ \E p \in {path, Clean[path]} : \E e \in Opens[<<<<>>, p, 0>>] \cup Unlinks(p) : landed' = {e}
  /\ UNCHANGED <<fs, path, asked, refused>>

Next == GateTargets \/ Lands

Spec == Init /\ [][Next]_vars

(* gateTargets: whichever way a tool takes the path, through links, over   *)
(* "..", into a dangling link or at the link itself, what it writes or     *)
(* unlinks is a place that the hook has asked about, or the hook has       *)
(* reported that it could not tell.                                        *)
EveryLandingIsAsked == landed \subseteq asked \/ refused
=============================================================================
