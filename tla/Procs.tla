------------------------------- MODULE Procs -------------------------------
(***************************************************************************)
(* Which processes a session runs in, and the bye that may end it          *)
(* (internal/store/store.go, ByeFrom; internal/cli/proc.go).               *)
(*                                                                         *)
(* One session id, worn in turn and together by several processes of the   *)
(* harness.  The hooks a process spawns find it by walking up the process  *)
(* table, may outlive it, and land in any order.  A pid is reused, the     *)
(* time it was born at is not.                                             *)
(***************************************************************************)
EXTENDS Integers, Sequences, FiniteSets

CONSTANTS
  Pid,         \* the pids the harness's processes get
  MaxBorn,     \* bounds the processes that ever run
  MaxHooks,    \* bounds the hooks under way
  MaxHops      \* processes a walk goes up before it gives up

PidAssumption == Pid \subseteq Nat \ {0}
BornAssumption == MaxBorn \in Nat
HopsAssumption == MaxHops \in Nat

VARIABLES
  kernel,   \* what runs under each pid: its birth and how it is titled
  spawned,  \* how many processes ever ran
  hooks,    \* the hooks under way: the process each is of, and what it found
  live,     \* whether the session is live
  procs,    \* session_procs, keyed by pid
  users,    \* the processes that spoke for the session since it registered
  overrun   \* those whose row a hook of an earlier process of their pid took

vars == <<kernel, spawned, hooks, live, procs, users, overrun>>

NoRef == [pid |-> 0, born |-> 0]
Free == [born |-> 0, title |-> "free"]
Ref(p) == [pid |-> p, born |-> kernel[p].born]

Running(r) == kernel[r.pid].born = r.born

(* The daemon that spawns retitled processes runs all the time, under a    *)
(* pid and a name of the harness of its own.                               *)
Daemon == [pid |-> 0 - 1, born |-> 0 - 1]

-----------------------------------------------------------------------------
(* The walk up from a hook: a wrapper or two, the process that spawned it, *)
(* and the daemon above a retitled one.                                    *)
Above(h) ==
  [w \in 1..h.wraps |-> [ref |-> NoRef, title |-> "wrapper"]]
    \o <<[ref |-> h.by, title |-> kernel[h.by.pid].title]>>
    \o (IF kernel[h.by.pid].title = "retitled" THEN <<[ref |-> Daemon, title |-> "claude"]>> ELSE <<>>)

(* Mutant: the title a daemon's children give themselves is not known. *)
ExactMatch(title) == title = "claude"

HarnessMatch(title) == title \in {"claude", "retitled"}

Hits(chain) == {i \in DOMAIN chain : HarnessMatch(chain[i].title)}

AnchorWalk(chain) ==
  LET near == {i \in Hits(chain) : i <= MaxHops}
  IN IF near = {} THEN NoRef ELSE chain[CHOOSE i \in near : \A j \in near : i <= j].ref

(* A hook whose process is gone has init above it. The kernel that gives a *)
(* process its name gives the time it was born at too.                     *)
AnchorProc(h) == IF Running(h.by) THEN AnchorWalk(Above(h)) ELSE NoRef

-----------------------------------------------------------------------------
(* Mutant: one registration is enough. *)
RegisterFirst(rows, r) == IF rows = {} THEN {r} \ {NoRef} ELSE rows

RegisterProc(rows, r) == IF r = NoRef THEN rows ELSE {q \in rows : q.pid # r.pid} \cup {r}

(* Mutant: the pid alone says who is speaking. *)
MineByPid(r, from) == from.pid # 0 /\ r.pid = from.pid

(* A birth that could not be read is anybody's. *)
Mine(r, from) == from.pid # 0 /\ r.pid = from.pid /\ (from.born = 0 \/ r.born = 0 \/ r.born = from.born)

Init ==
  /\ kernel = [p \in Pid \cup {Daemon.pid} |->
                 IF p = Daemon.pid THEN [born |-> Daemon.born, title |-> "claude"] ELSE Free]
  /\ spawned = 0
  /\ hooks = {}
  /\ live = FALSE /\ procs = {} /\ users = {} /\ overrun = {}

(* The machine. *)
Spawn(p) ==
  /\ kernel[p] = Free /\ spawned < MaxBorn
  /\ \E title \in {"claude", "retitled"} : kernel' = [kernel EXCEPT ![p] = [born |-> spawned + 1, title |-> title]]
  /\ spawned' = spawned + 1
  /\ UNCHANGED <<hooks, live, procs, users, overrun>>

Exit(p) ==
  /\ kernel[p] # Free
  /\ kernel' = [kernel EXCEPT ![p] = Free]
  /\ UNCHANGED <<spawned, hooks, live, procs, users, overrun>>

Launch(p, verb) ==
  /\ kernel[p] # Free /\ Cardinality(hooks) < MaxHooks
  /\ \E wraps \in 0..1 :
       hooks' = hooks \cup {[verb |-> verb, by |-> Ref(p), wraps |-> wraps, found |-> FALSE, ref |-> NoRef]}
  /\ UNCHANGED <<kernel, spawned, live, procs, users, overrun>>

(* hookAnchor: before the ledger is opened. *)
Anchor(h) ==
  /\ ~h.found
  /\ hooks' = (hooks \ {h}) \cup {[h EXCEPT !.found = TRUE, !.ref = AnchorProc(h)]}
  /\ UNCHANGED <<kernel, spawned, live, procs, users, overrun>>

Landing(h, verb) ==
  /\ h.verb = verb /\ h.found
  /\ hooks' = hooks \ {h}
  /\ UNCHANGED <<kernel, spawned>>

(* The row of a pid is of whoever spoke last, though another runs there.   *)
Speaks(h, known, beaten) ==
  LET speaker == IF h.ref = NoRef THEN {} ELSE {h.by}
  IN /\ users' = known \cup speaker
     /\ overrun' = (beaten \ speaker) \cup {u \in known \ speaker : Running(u) /\ u.pid = h.ref.pid}

(* A hello registers its process; one that revives the session forgets the *)
(* processes of the registration before.                                   *)
HelloFrom(h) ==
  /\ Landing(h, "hello")
  /\ live' = TRUE
  /\ procs' = RegisterProc(IF live THEN procs ELSE {}, h.ref)
  /\ IF live THEN Speaks(h, users, overrun) ELSE Speaks(h, {}, {})

(* By hand there is no process to register. *)
HelloByHand ==
  /\ ~live
  /\ live' = TRUE /\ procs' = {} /\ users' = {} /\ overrun' = {}
  /\ UNCHANGED <<kernel, spawned, hooks>>

BeatFrom(h) ==
  /\ Landing(h, "beat")
  /\ IF live THEN procs' = RegisterProc(procs, h.ref) /\ Speaks(h, users, overrun)
             ELSE UNCHANGED <<procs, users, overrun>>
  /\ UNCHANGED live

(* procAlive: dead only if the kernel says that there is no such process,  *)
(* or that another one is there; it need not be able to say.               *)
ProcAlive(r, unsaid) == Running(r) \/ r \in unsaid

(* ByeFrom: the speaker's registration and those of the dead go; a living  *)
(* one keeps the session from ending.                                      *)
ByeOf(from, force, unsaid) ==
  LET Blocking == {r \in procs : ~Mine(r, from) /\ ProcAlive(r, unsaid)}
  IN IF ~live THEN UNCHANGED <<live, procs>>
     ELSE IF Blocking # {} /\ ~force THEN procs' = Blocking /\ UNCHANGED live
     ELSE live' = FALSE /\ procs' = {}

Left(rest) == users' = (IF live' THEN rest ELSE {}) /\ overrun' = overrun \cap users'

ByeFrom(h) ==
  /\ Landing(h, "bye")
  /\ \E unsaid \in SUBSET procs : ByeOf(h.ref, FALSE, unsaid)
  /\ Left(users \ {h.by})

ByeByHand(force) ==
  /\ live
  /\ \E unsaid \in SUBSET procs : ByeOf(NoRef, force, unsaid)
  /\ Left(users)
  /\ UNCHANGED <<kernel, spawned, hooks>>

(* A hook is killed before it lands. *)
Killed(h) == hooks' = hooks \ {h} /\ UNCHANGED <<kernel, spawned, live, procs, users, overrun>>

Next ==
  \/ \E p \in Pid : Spawn(p) \/ Exit(p) \/ \E verb \in {"hello", "beat", "bye"} : Launch(p, verb)
  \/ \E h \in hooks : Anchor(h) \/ HelloFrom(h) \/ BeatFrom(h) \/ ByeFrom(h) \/ Killed(h)
  \/ HelloByHand
  \/ \E force \in BOOLEAN : ByeByHand(force)

Spec == Init /\ [][Next]_vars

-----------------------------------------------------------------------------
SparesTheLiving ==
  live /\ ~live' /\ ~ByeByHand(TRUE) =>
    \A u \in users : Running(u) => u \in overrun \cup {h.by : h \in hooks \ hooks'}

(* However late it lands, whoever took the speaker's pid since, and        *)
(* whatever wraps the hooks, a bye that is not forced ends the session     *)
(* only when no other process that spoke for it still runs (ByeFrom's "the *)
(* fence that closes the delayed-bye defect"), or when a hook of an        *)
(* earlier process of its pid landed after it spoke, and it has not spoken *)
(* since: the upsert of registerProc takes whichever hook lands last.      *)
EndSparesTheLiving == [][SparesTheLiving]_vars

-----------------------------------------------------------------------------
(* What the code says of itself and does not keep: no run checks it, and   *)
(* the README tells what breaks it.                                        *)

(* store.go, registerProc: "a recycled pid that reached the same session   *)
(* id ... carries the born of the process that is actually there."         *)
BornIsActual ==
  \A u \in users, r \in procs : Running(u) /\ r.pid = u.pid => r.born = u.born
=============================================================================
