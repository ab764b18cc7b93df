------------------------------- MODULE Dirty --------------------------------
(***************************************************************************)
(* Who has uncommitted edits to which file (internal/store/dirty.go,       *)
(* internal/cli/dirty.go): rows recorded by the tool calls that name a     *)
(* path, and retracted by scans of the working tree.                       *)
(*                                                                         *)
(* A beat is a process that reads, runs git, writes and reads again, each  *)
(* a step of its own, beside other beats, commits, byes and sweeps.  One   *)
(* worktree is modelled: rows of two worktrees never meet.  A file stands  *)
(* for its folded path.                                                    *)
(***************************************************************************)
EXTENDS Integers, FiniteSets

CONSTANTS
  Session,    \* sessions of the ledger
  Leaving,    \* those of them that may end and come back
  File,       \* files of the worktree
  Beat,       \* PostToolUse hooks that may run at once
  MaxTime,    \* bounds the clock
  Every,      \* DirtyScanEvery
  Ttl,        \* when a sweep forgets the scans and warnings of an ended session
  Keep        \* DirtyKeepAfterEnd

IntervalAssumption == Every \in Nat \ {0} /\ Ttl \in Nat /\ Keep \in Nat /\ Ttl < Keep

VARIABLES
  now,        \* the clock, in the seconds the columns keep
  ended,      \* when each session ended
  tree,       \* the files git would report as not clean
  rows,       \* dirty_paths: when each was last recorded
  scans,      \* dirty_scans: the stamp of each session
  warned,     \* dirty_warned
  beats,      \* the hook processes
  owed,       \* rows recorded of a file that has not been clean since
  spoiled     \* rows whose last beat did not come to its end, or whose session ended

vars == <<now, ended, tree, rows, scans, warned, beats, owed, spoiled>>
tables == <<rows, scans, warned>>
history == <<owed, spoiled>>
world == <<now, ended, tree>>

Never == -1
Live(s) == ended[s] = Never
Rows == {p \in Session \X File : rows[p] # Never}
Over(s, period) == ~Live(s) /\ ended[s] < now - period
Free == [at |-> "none"]

Init ==
  /\ now = 0 /\ tree = {} /\ warned = {} /\ owed = {} /\ spoiled = {}
  /\ ended = [s \in Session |-> Never]
  /\ rows = [p \in Session \X File |-> Never]
  /\ scans = [s \in Session |-> Never]
  /\ beats = [h \in Beat |-> Free]

Tick ==
  /\ now < MaxTime
  /\ now' = now + 1
  /\ UNCHANGED <<ended, tree, tables, beats, history>>

-----------------------------------------------------------------------------
(* The world: sessions come back and go, their tools write, and what was   *)
(* written is committed or reverted.                                       *)
Bye(s) ==
  /\ s \in Leaving /\ Live(s)
  /\ ended' = [ended EXCEPT ![s] = now]
  /\ spoiled' = spoiled \cup {p \in Rows : p[1] = s}
  /\ UNCHANGED <<now, tree, tables, beats, owed>>

Hello(s) ==
  /\ ~Live(s)
  /\ ended' = [ended EXCEPT ![s] = Never]
  /\ UNCHANGED <<now, tree, tables, beats, history>>

(* An edit, which may leave the file as it was, and the hook behind it. *)
Edit(h, s, f) ==
  /\ Live(s) /\ beats[h] = Free
  /\ \E changes \in BOOLEAN : tree' = IF changes THEN tree \cup {f} ELSE tree
  /\ beats' = [beats EXCEPT ![h] = [at |-> "reads", s |-> s, f |-> f, edits |-> TRUE]]
  /\ UNCHANGED <<now, ended, tables, history>>

(* A tool that names the path and writes nothing. *)
Look(h, s, f) ==
  /\ Live(s) /\ beats[h] = Free
  /\ beats' = [beats EXCEPT ![h] = [at |-> "reads", s |-> s, f |-> f, edits |-> FALSE]]
  /\ UNCHANGED <<world, tables, history>>

(* A shell command writes, and no hook learns which file. *)
ShellWrites(f) ==
  /\ tree' = tree \cup {f}
  /\ UNCHANGED <<now, ended, tables, beats, history>>

Clean(f) ==
  /\ f \in tree
  /\ tree' = tree \ {f}
  /\ owed' = {p \in owed : p[2] # f}
  /\ UNCHANGED <<now, ended, tables, beats, spoiled>>

-----------------------------------------------------------------------------
(* One beat: noteDirtyPaths.                                               *)
At(h, at) == beats[h] # Free /\ beats[h].at = at
Go(h, at) == beats' = [beats EXCEPT ![h].at = at]
End(h) == beats' = [beats EXCEPT ![h] = Free]
Pair(h) == <<beats[h].s, beats[h].f>>

(* A stamp of the future counts as expired. *)
LeaseExpired(last) == last = Never \/ last > now \/ now - last >= Every

(* Reads without a lock, taken as one: is the session live, and is it       *)
(* worth a transaction to ask for the scan.                                *)
ReadLease(h) ==
  LET s == beats[h].s IN
  /\ At(h, "reads")
  /\ IF ~Live(s) THEN End(h) ELSE Go(h, IF LeaseExpired(scans[s]) THEN "claim" ELSE "record")
  /\ UNCHANGED <<world, tables, history>>

(* Mutant: what the read without the lock saw decides. *)
Rechecked(s) == TRUE

(* Under the lock the lease is read again. *)
StillDue(s) == LeaseExpired(scans[s])

(* The start of the scan is stamped before git runs. *)
ClaimScan(h) ==
  LET s == beats[h].s IN
  /\ At(h, "claim")
  /\ IF StillDue(s)
     THEN /\ scans' = [scans EXCEPT ![s] = now]
          /\ beats' = [beats EXCEPT ![h] = [at |-> "git", s |-> s, f |-> @.f, edits |-> @.edits,
                                            started |-> now]]
     ELSE UNCHANGED scans /\ Go(h, "record")
  /\ UNCHANGED <<world, rows, warned, history>>

(* What git lists as not clean: both ends of a rename are on the list.     *)
DirtyStatus == tree

(* git may fail, time out or report too much: then nothing is applied. *)
GitStatus(h) ==
  /\ At(h, "git")
  /\ \/ beats' = [beats EXCEPT ![h] = [at |-> "retain", s |-> @.s, f |-> @.f, edits |-> @.edits,
                                       started |-> @.started, dirty |-> DirtyStatus]]
     \/ beats' = [beats EXCEPT ![h] = [at |-> "record", s |-> @.s, f |-> @.f, edits |-> @.edits]]
  /\ UNCHANGED <<world, tables, history>>

(* Mutant: what was recorded up to now may be retracted. *)
BeforeNow(h, p) == rows[p] <= now

(* Only what was last recorded before the scan began. *)
Before(h, p) == rows[p] < beats[h].started

RetainDirty(h) ==
  /\ At(h, "retain")
  /\ LET gone == {p \in Rows : Before(h, p) /\ p[2] \notin beats[h].dirty}
     IN  rows' = [p \in DOMAIN rows |-> IF p \in gone THEN Never ELSE rows[p]]
  /\ beats' = [beats EXCEPT ![h] = [at |-> "record", s |-> @.s, f |-> @.f, edits |-> @.edits]]
  /\ spoiled' = {p \in spoiled : rows'[p] # Never}
  /\ UNCHANGED <<world, scans, warned, owed>>

(* Only a tool that writes attributes. *)
RecordDirty(h) ==
  /\ At(h, "record")
  /\ IF beats[h].edits
     THEN /\ rows' = [rows EXCEPT ![Pair(h)] = now]
          /\ owed' = IF beats[h].f \in tree THEN owed \cup {Pair(h)} ELSE owed
          /\ spoiled' = IF Live(beats[h].s) THEN spoiled \ {Pair(h)} ELSE spoiled \cup {Pair(h)}
          /\ Go(h, "peers")
     ELSE End(h) /\ UNCHANGED <<rows, owed, spoiled>>
  /\ UNCHANGED <<world, scans, warned>>

(* Mutant: a holder that has gone quiet is nobody to warn about. *)
HeldLately(s, f) ==
  {t \in Session \ {s} : <<t, f>> \in Rows /\ Live(t) /\ now - rows[<<t, f>>] < Every}

(* workersAmong DirtyPeersInWorktree: whoever has not said bye. *)
HeldBy(s, f) == {t \in Session \ {s} : <<t, f>> \in Rows /\ Live(t)}

DirtyWarnPending(s, f) == <<s, f>> \notin warned

(* The notice is about the holders, once for each file and session. *)
ReadPeers(h) ==
  /\ At(h, "peers")
  /\ IF HeldBy(beats[h].s, beats[h].f) = {} \/ ~DirtyWarnPending(beats[h].s, beats[h].f)
     THEN End(h) ELSE Go(h, "warn")
  /\ UNCHANGED <<world, tables, history>>

(* Marked once the notice has been written out. *)
MarkDirtyWarned(h) ==
  /\ At(h, "warn")
  /\ warned' = warned \cup {Pair(h)}
  /\ End(h)
  /\ UNCHANGED <<world, rows, scans, history>>

(* The hook is killed, the write of its output fails, or the ledger        *)
(* refuses one of its calls: the beat says nothing of it and ends.         *)
Fails(h) ==
  /\ beats[h] # Free
  /\ End(h)
  /\ spoiled' = IF beats[h].edits THEN spoiled \cup ({Pair(h)} \cap Rows) ELSE spoiled
  /\ UNCHANGED <<world, tables, owed>>

Step(h) ==
  \/ ReadLease(h) \/ ClaimScan(h) \/ GitStatus(h)
  \/ RetainDirty(h) \/ RecordDirty(h) \/ ReadPeers(h) \/ MarkDirtyWarned(h)

-----------------------------------------------------------------------------
(* Mutant: attributions go with the scans and the warnings. *)
ForgetAtTtl(s) == Over(s, Ttl)

(* A row outlives the session by far. *)
Forgets(s) == Over(s, Keep)

SweepDirty ==
  /\ \E s \in Session : Over(s, Ttl)
  /\ warned' = {p \in warned : ~Over(p[1], Ttl)}
  /\ scans' = [s \in Session |-> IF Over(s, Ttl) THEN Never ELSE scans[s]]
  /\ rows' = [p \in DOMAIN rows |-> IF Forgets(p[1]) THEN Never ELSE rows[p]]
  /\ owed' = {p \in owed : ~Over(p[1], Keep)}
  /\ spoiled' = {p \in spoiled : rows'[p] # Never}
  /\ UNCHANGED <<world, beats>>

Next ==
  \/ Tick \/ SweepDirty
  \/ \E s \in Session : Bye(s) \/ Hello(s)
  \/ \E f \in File : ShellWrites(f) \/ Clean(f)
  \/ \E h \in Beat : Step(h) \/ Fails(h)
  \/ \E h \in Beat, s \in Session, f \in File : Edit(h, s, f) \/ Look(h, s, f)

Spec == Init /\ [][Next]_vars

-----------------------------------------------------------------------------
(* RetainDirty: while a file is uncommitted, whoever was recorded with it  *)
(* stays on record, whatever a scan that began earlier saw of the tree and *)
(* whoever ran it; an ended session is forgotten only past its long term.  *)
KeptWhileDirty == owed \subseteq Rows

Working(s, f) == \E h \in Beat : beats[h] # Free /\ beats[h].s = s /\ beats[h].f = f /\ beats[h].edits

(* noteDirtyPaths: of two living sessions with the same file on record,    *)
(* when the beats of both have come to their end, one has been told: the   *)
(* collision reaches somebody who can act, in whatever order they ran.     *)
CollisionAnnounced ==
  \A p, q \in Rows \ spoiled :
    (p[1] # q[1] /\ p[2] = q[2] /\ Live(p[1]) /\ Live(q[1]) /\ ~Working(p[1], p[2]) /\ ~Working(q[1], q[2]))
      => p \in warned \/ q \in warned

(* Who is on record with a file, and who is told, is right whenever it is  *)
(* asked.                                                                  *)
HoldingsAreTrue == KeptWhileDirty /\ CollisionAnnounced

LeaseIsWaitedOut ==
  \A s \in Session : scans'[s] \notin {scans[s], Never} =>
    scans[s] = Never \/ scans'[s] - scans[s] >= Every

(* DueForDirtyScan: two scans of one session never start from one lease,   *)
(* though their beats both read it before either claimed it.               *)
OneScanPerLease == [][LeaseIsWaitedOut]_vars

-----------------------------------------------------------------------------
(* What the code says of itself and does not keep: no run checks it, and   *)
(* the README tells what breaks it.                                        *)

(* What noteDirtyPaths says of itself: only a live session may record.     *)
OnlyTheLivingRecord ==
  [][\A p \in Session \X File : rows'[p] \notin {rows[p], Never} => Live(p[1])]_vars
=============================================================================
