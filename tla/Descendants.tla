---------------------------- MODULE Descendants ----------------------------
(***************************************************************************)
(* One adapter's scans for the descendants of its worker that left the     *)
(* worker's process group: scanDescendants and attribute in                *)
(* internal/harness/descendants.go, run by the sampler and the final       *)
(* capture, never by both at once.                                         *)
(*                                                                         *)
(* Between any two steps of a scan processes fork, exit and change groups, *)
(* a parent's exit hands its children to init, and a pid passes to a       *)
(* stranger.  The process table is read one row at a time.  A start time   *)
(* is a reading of the clock; that a pid finds its next process only after *)
(* the tick its last one ended in is what the comparison of start times    *)
(* rests on.  The leader stays unreaped for as long as there are scans.    *)
(***************************************************************************)
EXTENDS Naturals, FiniteSets

CONSTANTS
  Pid,
  Leader,       \* the worker's leader
  Init1,        \* the parent of orphans, outside the worker
  Nobody,       \* a pid with no process, a row that is missing
  MaxTime,      \* bound: the clock
  MaxRecorded   \* the descendants one record has room for (256)

ASSUME LeaderAssumption == Leader \in Pid /\ Init1 \notin Pid
ASSUME BoundAssumption == MaxTime \in Nat /\ MaxRecorded \in Nat

Time == 0 .. MaxTime
Process == [start: Time, parent: Pid \cup {Init1}, inGroup: BOOLEAN]
Identity == [pid: Pid, start: Time]

ASSUME NobodyAssumption == Nobody \notin Process

VARIABLES
  clock,
  proc,      \* who has each pid
  freeFrom,  \* when a pid may next be given out
  exited,    \* the leader is a zombie
  kin,       \* every identity the worker ever forked, itself included
  phase,     \* where the scan is: "idle", "check", "read", "walk"
  check,     \* the recorded identities to observe again
  unread,    \* the rows to read
  table,     \* the rows read
  visit,     \* the rows attributed to the worker and not yet walked through
  next,      \* the record the scan prepares
  errs,      \* it, or the last one, could not discover everything
  still,     \* no process moved since it began
  alive,     \* the record: escaped descendants
  overflow   \* there was no room for one

kernel == <<clock, proc, freeFrom, exited, kin>>
scan == <<phase, check, unread, table, visit, next, errs>>
record == <<alive, overflow>>
vars == <<kernel, scan, still, record>>

TypeOK ==
  /\ clock \in Time
  /\ proc \in [Pid -> Process \cup {Nobody}]
  /\ freeFrom \in [Pid -> 0 .. MaxTime + 1]
  /\ exited \in BOOLEAN
  /\ kin \subseteq Identity
  /\ phase \in {"idle", "check", "read", "walk"}
  /\ check \subseteq Identity
  /\ unread \subseteq Pid
  /\ table \in [Pid -> Process \cup {Nobody}]
  /\ visit \subseteq Pid
  /\ next \subseteq Identity /\ Cardinality(next) <= MaxRecorded
  /\ errs \in BOOLEAN /\ still \in BOOLEAN
  /\ alive \subseteq Identity /\ Cardinality(alive) <= MaxRecorded
  /\ overflow \in BOOLEAN

NoTable == [p \in Pid |-> Nobody]
Of(rows, p) == [pid |-> p, start |-> rows[p].start]
IsThere(rows, p) == rows[p] # Nobody

Init ==
  /\ clock = 0
  /\ proc = [NoTable EXCEPT ![Leader] =
               [start |-> 0, parent |-> Init1, inGroup |-> TRUE]]
  /\ freeFrom = [p \in Pid |-> 0]
  /\ exited = FALSE
  /\ kin = {Of(proc, Leader)}
  /\ phase = "idle"
  /\ check = {} /\ unread = {} /\ table = NoTable /\ visit = {} /\ next = {}
  /\ errs = FALSE /\ still = FALSE
  /\ alive = {} /\ overflow = FALSE

-----------------------------------------------------------------------------
(* The kernel. *)
Tick ==
  /\ clock < MaxTime
  /\ clock' = clock + 1
  /\ UNCHANGED <<proc, freeFrom, exited, kin>>

Starts(p, parent, inGroup) ==
  /\ ~IsThere(proc, p)
  /\ freeFrom[p] <= clock
  /\ proc' = [proc EXCEPT ![p] =
                [start |-> clock, parent |-> parent, inGroup |-> inGroup]]
  /\ UNCHANGED <<clock, freeFrom, exited>>

Fork(p, c) ==
  /\ IsThere(proc, p)
  /\ ~(p = Leader /\ exited)
  /\ Starts(c, p, proc[p].inGroup)
  /\ kin' = IF Of(proc, p) \in kin THEN kin \cup {Of(proc', c)} ELSE kin

StrangerStarts(p) == Starts(p, Init1, FALSE) /\ UNCHANGED kin

LeavesGroup(p) ==
  /\ IsThere(proc, p) /\ p # Leader
  /\ proc[p].inGroup
  /\ proc' = [proc EXCEPT ![p].inGroup = FALSE]
  /\ UNCHANGED <<clock, freeFrom, exited, kin>>

(* An exit orphans the children; the leader's pid stays its own. *)
Exits(p) ==
  /\ IsThere(proc, p)
  /\ ~(p = Leader /\ exited)
  /\ proc' = [q \in Pid |->
       IF q = p /\ p # Leader THEN Nobody
       ELSE IF IsThere(proc, q) /\ proc[q].parent = p
            THEN [proc[q] EXCEPT !.parent = Init1]
            ELSE proc[q]]
  /\ freeFrom' = [freeFrom EXCEPT ![p] = clock + 1]
  /\ exited' = (exited \/ p = Leader)
  /\ UNCHANGED <<clock, kin>>

KernelStep ==
  /\ \/ Tick
     \/ \E p \in Pid :
          \/ \E c \in Pid : Fork(p, c)
          \/ StrangerStarts(p) \/ LeavesGroup(p) \/ Exits(p)
  /\ still' = FALSE
  /\ UNCHANGED <<scan, record>>

-----------------------------------------------------------------------------
(* stateWith: the process is there, under its own start time. *)
Living(e) == IsThere(proc, e.pid) /\ proc[e.pid].start = e.start

BeginScan ==
  /\ phase = "idle"
  /\ phase' = "check"
  /\ check' = alive
  /\ errs' = FALSE
  /\ still' = TRUE
  /\ UNCHANGED <<kernel, unread, table, visit, next, record>>

(* Mutant: what cannot be observed is taken for gone. *)
CheckOnce(e) ==
  /\ phase = "check" /\ e \in check
  /\ check' = check \ {e}
  /\ next' \in {next, IF Living(e) THEN next \cup {e} ELSE next}
  /\ UNCHANGED <<kernel, phase, unread, table, visit, errs, still, record>>

(* A recorded identity is dropped when observed gone, or to be another's;  *)
(* an observation that fails keeps it.                                     *)
Check(e) ==
  /\ phase = "check" /\ e \in check
  /\ check' = check \ {e}
  /\ \/ next' = next \cup {e}
     \/ ~Living(e) /\ UNCHANGED next
  /\ UNCHANGED <<kernel, phase, unread, table, visit, errs, still, record>>

ListTable ==
  /\ phase = "check" /\ check = {}
  /\ \/ phase' = "read" /\ unread' = Pid /\ UNCHANGED errs
     \/ phase' = "walk" /\ errs' = TRUE /\ UNCHANGED unread
  /\ UNCHANGED <<kernel, check, table, visit, next, still, record>>

(* The roots: the leader and the recorded, where the table agrees.  What   *)
(* the walk itself records it never comes to again: a row has one parent.  *)
Roots(rows) ==
  {p \in Pid : IsThere(rows, p) /\ (p = Leader \/ Of(rows, p) \in next)}

ReadRow(p) ==
  /\ phase = "read" /\ p \in unread
  /\ unread' = unread \ {p}
  /\ table' = [table EXCEPT ![p] = proc[p]]
  /\ IF unread' = {}
     THEN phase' = "walk" /\ visit' = Roots(table')
     ELSE UNCHANGED <<phase, visit>>
  /\ UNCHANGED <<kernel, check, next, errs, still, record>>

(* Mutant: a child is who names the parent, whenever it started. *)
ChildrenByName(p) ==
  {c \in Pid \ Roots(table) : IsThere(table, c) /\ table[c].parent = p}

(* Mutant: the walk ends at what stayed in the group. *)
ChildrenOutside(p) ==
  {c \in Pid \ Roots(table) :
     /\ IsThere(table, c) /\ ~table[c].inGroup
     /\ table[c].parent = p
     /\ table[c].start >= table[p].start}

Children(p) ==
  {c \in Pid \ Roots(table) :
     /\ IsThere(table, c)
     /\ table[c].parent = p
     /\ table[c].start >= table[p].start}

RecordedAs(p) == {e \in next : e.pid = p}

(* Mutant: a younger process is recorded beside the older one. *)
NotedBeside(p) ==
  IF p \in Roots(table) \/ table[p].inGroup THEN next
  ELSE IF RecordedAs(p) # {}
  THEN IF \E e \in RecordedAs(p) : table[p].start > e.start
       THEN next \cup {Of(table, p)}
       ELSE next
  ELSE IF Cardinality(next) < MaxRecorded THEN next \cup {Of(table, p)}
  ELSE next

(* Mutant: room is tested against the bound itself. *)
NotedPastRoom(p) ==
  IF p \in Roots(table) \/ table[p].inGroup
     \/ RecordedAs(p) # {} \/ Cardinality(next) > MaxRecorded
  THEN next
  ELSE next \cup {Of(table, p)}

(* An escaped descendant is recorded, in the place of an older process     *)
(* under its pid, or if there is room.                                     *)
Noted(p) ==
  IF p \in Roots(table) \/ table[p].inGroup THEN next
  ELSE IF RecordedAs(p) # {}
  THEN IF \E e \in RecordedAs(p) : table[p].start > e.start
       THEN (next \ RecordedAs(p)) \cup {Of(table, p)}
       ELSE next
  ELSE IF Cardinality(next) < MaxRecorded THEN next \cup {Of(table, p)}
  ELSE next

Dropped(p) ==
  /\ p \notin Roots(table) /\ ~table[p].inGroup
  /\ RecordedAs(p) = {}
  /\ Cardinality(next) >= MaxRecorded

(* Mutant: the walk believes the table. *)
VisitTrusting(p) ==
  /\ phase = "walk" /\ p \in visit
  /\ next' = Noted(p)
  /\ overflow' = (overflow \/ Dropped(p))
  /\ visit' = (visit \ {p}) \cup Children(p)
  /\ UNCHANGED <<kernel, phase, check, unread, table, errs, still, alive>>

(* One row attributed to the worker: it is recorded, and walked through if *)
(* it still has its pid after the whole table was read.  (Only a row above *)
(* an escaped one is observed in the code.)                                *)
Visit(p) ==
  /\ phase = "walk" /\ p \in visit
  /\ next' = Noted(p)
  /\ overflow' = (overflow \/ Dropped(p))
  /\ \/ /\ Living(Of(table, p))
        /\ visit' = (visit \ {p}) \cup Children(p)
        /\ UNCHANGED errs
     \/ /\ ~Living(Of(table, p))
        /\ visit' = visit \ {p}
        /\ UNCHANGED errs
     \/ /\ Children(p) # {}
        /\ visit' = visit \ {p}
        /\ errs' = TRUE
  /\ UNCHANGED <<kernel, phase, check, unread, table, still, alive>>

(* commitDescendants. *)
Commit ==
  /\ phase = "walk" /\ visit = {}
  /\ alive' = next
  /\ phase' = "idle"
  /\ table' = NoTable /\ next' = {} /\ still' = FALSE
  /\ UNCHANGED <<kernel, check, unread, visit, errs, overflow>>

ScanStep ==
  \/ BeginScan \/ ListTable \/ Commit
  \/ \E e \in check : Check(e)
  \/ \E p \in Pid : ReadRow(p) \/ Visit(p)

Next == KernelStep \/ ScanStep

Spec == Init /\ [][Next]_vars

-----------------------------------------------------------------------------
(* No stranger is ever recorded: what the record names was forked by the   *)
(* worker or by what it forked ("sharing a group or session with anybody   *)
(* never establishes ancestry").                                           *)
OnlyDescendants == next \cup alive \subseteq kin

(* A pid is recorded once: a resume refuses a record that names one twice  *)
(* for good.                                                               *)
NoPidTwice ==
  \A R \in {next, alive} : \A d, e \in R : d.pid = e.pid => d = e

(* An identity leaves the record only when its process has ended, however  *)
(* the table was torn and whatever could not be observed.                  *)
DroppedAreGone == \A e \in alive \ alive' : ~Living(e)

(* The record names descendants, each pid once, and drops none that lives. *)
RecordIsTrue == [][DroppedAreGone /\ (TypeOK /\ OnlyDescendants /\ NoPidTwice)']_vars

(* A scan during which no process moved, and that could observe all it     *)
(* needed, has recorded every escaped process below the leader or below    *)
(* one it recorded, however deep, or says that there was no room.          *)
Below(p) ==
  \A X \in SUBSET Pid :
    /\ Leader \in X
    /\ \A e \in alive : Living(e) => e.pid \in X
    /\ \A q \in Pid : IsThere(proc, q) /\ proc[q].parent \in X => q \in X
    => p \in X

QuietScanFindsAll ==
  phase = "walk" /\ visit = {} /\ still /\ ~errs =>
    \A p \in Pid :
      IsThere(proc, p) /\ ~proc[p].inGroup /\ Below(p) =>
        Of(proc, p) \in next \/ overflow
=============================================================================
