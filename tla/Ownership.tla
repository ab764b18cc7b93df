----------------------------- MODULE Ownership -----------------------------
(***************************************************************************)
(* Which adapter may launch a worker for a receipt, over the deaths of     *)
(* adapters and workers: internal/harness/ownership.go, process.go and the *)
(* Start, Resume and Close of controller.go.                               *)
(*                                                                         *)
(* The artifacts beside the receipt are the journal (.events), whose flock *)
(* an adapter holds while it lives, the start intent (.start) and the      *)
(* ownership record (.proc), which is replaced whole.  A publication that  *)
(* reports failure may have replaced it all the same.  A process is known  *)
(* by its pid and start time, so a pid that was reused names nobody here,  *)
(* and an observation that could not be made refuses, which an adapter may *)
(* be at any time.                                                         *)
(*                                                                         *)
(* A worker is a leader and its children: those in its process group, and  *)
(* those that left it, which a scan may find and nothing signals.  The     *)
(* copied or edited artifact, and the power cut, are left out.             *)
(***************************************************************************)
EXTENDS Naturals, FiniteSets

CONSTANTS
  Adapter,       \* adapter processes
  NoAdapter,
  Child,         \* the processes a worker forks
  MaxAttempts,   \* bound: launches
  MaxRecorded    \* the descendants one record has room for (256)

ASSUME NoAdapterAssumption == NoAdapter \notin Adapter
ASSUME MaxAttemptsAssumption == MaxAttempts \in Nat
ASSUME MaxRecordedAssumption == MaxRecorded \in Nat
ASSUME ChildAssumption == IsFiniteSet(Child)

Attempt == 1 .. MaxAttempts
NoRecord == [attempt |-> 0]

VARIABLES
  pc,         \* how far each adapter has come
  lock,       \* who holds the flock of the journal
  bar,        \* the start intent exists
  receipt,    \* the captured receipt: "none", "torn" or "whole"
  journal,    \* "empty", "named" (it holds the identity) or "torn"
  record,     \* the ownership record on disk
  mem,        \* the record an adapter's launch authorization holds
  attempts,   \* the launches authorized so far
  leader,     \* the leader of each attempt's worker
  child,      \* its children
  found,      \* the escaped children a published scan saw
  registrations  \* how often the ledger was asked to begin the session

disk == <<bar, receipt, journal>>
worker == <<leader, child>>
vars == <<pc, lock, disk, record, mem, attempts, worker, found, registrations>>

Phase == {"out", "open", "minted", "intent", "child", "spawned", "begun",
          "published", "named", "unbarred", "running", "failed", "closing", "dead"}

(* As many descendants as one record has room for. *)
Recorded == {S \in SUBSET Child : Cardinality(S) <= MaxRecorded}

Record ==
  [attempt: Attempt, phase: {"intent", "spawned"}, named: BOOLEAN,
   adapter: Adapter, alive: Recorded, overflow: BOOLEAN, unsure: BOOLEAN,
   closed: BOOLEAN]

TypeOK ==
  /\ pc \in [Adapter -> Phase]
  /\ lock \in Adapter \cup {NoAdapter}
  /\ bar \in BOOLEAN
  /\ receipt \in {"none", "torn", "whole"}
  /\ journal \in {"empty", "named", "torn"}
  /\ record \in Record \cup {NoRecord}
  /\ mem \in [Adapter -> Record \cup {NoRecord}]
  /\ attempts \in 0 .. MaxAttempts
  /\ leader \in [Attempt -> {"none", "alive", "gone"}]
  /\ child \in [Attempt -> [Child -> {"none", "group", "escaped", "gone"}]]
  /\ found \in [Attempt -> SUBSET Child]
  /\ registrations \in Nat

Init ==
  /\ pc = [a \in Adapter |-> "out"]
  /\ lock = NoAdapter
  /\ bar = FALSE
  /\ receipt = "none"
  /\ journal = "empty"
  /\ record = NoRecord
  /\ mem = [a \in Adapter |-> NoRecord]
  /\ attempts = 0
  /\ leader = [w \in Attempt |-> "none"]
  /\ child = [w \in Attempt |-> [c \in Child |-> "none"]]
  /\ found = [w \in Attempt |-> {}]
  /\ registrations = 0

-----------------------------------------------------------------------------
(* The process group of a worker has a member. *)
Lives(w) == leader[w] = "alive" \/ \E c \in Child : child[w][c] = "group"

At(a, phase) == pc[a] = phase
Goto(a, phase) == pc' = [pc EXCEPT ![a] = phase]

(* authorize: one launch, under a fresh attempt. *)
Mint(a, named) ==
  /\ attempts < MaxAttempts
  /\ attempts' = attempts + 1
  /\ mem' = [mem EXCEPT ![a] =
               [attempt |-> attempts', phase |-> "intent", named |-> named,
                adapter |-> a, alive |-> {}, overflow |-> FALSE,
                unsure |-> FALSE, closed |-> FALSE]]

Forget(a) == mem' = [mem EXCEPT ![a] = NoRecord]

(* A publication that failed left the old record or the new one. *)
MayPublish(r) == record' \in {record, r}

Spawned(r) == [r EXCEPT !.phase = "spawned"]

-----------------------------------------------------------------------------
(* One scan: a recorded child is dropped when observed gone, and what is   *)
(* found of the escaped ones is added while there is room.                 *)
Kept(m) ==
  {K \in SUBSET m.alive : \A c \in m.alive \ K : child[m.attempt][c] = "gone"}

Findable(m, K) == {c \in Child \ K : child[m.attempt][c] = "escaped"}

Room(K, F, T) ==
  /\ Cardinality(K \cup T) <= MaxRecorded \/ T = {}
  /\ T = F \/ Cardinality(K \cup T) >= MaxRecorded

(* Mutant: the count of what did not fit is of the last scan only. *)
ScanAnew(a, closed) ==
  LET m == mem[a] IN
  \E K \in Kept(m) : \E F \in SUBSET Findable(m, K) : \E T \in SUBSET F :
    LET n == [m EXCEPT !.alive = K \cup T, !.overflow = T # F, !.closed = closed]
    IN /\ Room(K, F, T)
       /\ mem' = [mem EXCEPT ![a] = n]
       /\ record' = n
       /\ found' = [found EXCEPT ![m.attempt] = @ \cup K \cup F]

(* commitDescendants; the close seals the record with the last scan. *)
Scan(a, closed) ==
  LET m == mem[a] IN
  \E K \in Kept(m) : \E F \in SUBSET Findable(m, K) : \E T \in SUBSET F :
    \E unsure \in BOOLEAN :
      LET n == [m EXCEPT !.alive = K \cup T, !.overflow = @ \/ T # F,
                         !.unsure = unsure, !.closed = closed]
      IN /\ Room(K, F, T)
         /\ mem' = [mem EXCEPT ![a] = n]
         /\ \/ /\ record' = n
               /\ found' = [found EXCEPT ![m.attempt] = @ \cup K \cup F]
            \/ UNCHANGED <<record, found>>

Sample(a) ==
  /\ pc[a] \in {"spawned", "begun", "published", "named", "unbarred", "running",
                "failed"}
  /\ mem[a] # NoRecord
  /\ ~mem[a].closed
  /\ Scan(a, FALSE)
  /\ UNCHANGED <<pc, lock, disk, attempts, worker, registrations>>

(* The group is signalled while its leader is not yet reaped. *)
EndGroup(w) ==
  /\ leader' = [leader EXCEPT ![w] = "gone"]
  /\ child' = [child EXCEPT ![w] =
                 [c \in Child |-> IF @[c] = "group" THEN "gone" ELSE @[c]]]

(* terminate: the last scan, the group's end, the close report; once. *)
CloseWorker(a) ==
  IF mem[a] # NoRecord /\ ~mem[a].closed
  THEN Scan(a, TRUE) /\ EndGroup(mem[a].attempt)
  ELSE UNCHANGED <<mem, record, found, worker>>

(* The leader has exited by itself: its group is ended, and it is reaped.  *)
Reap(a) ==
  /\ pc[a] \in {"spawned", "begun", "published", "named", "unbarred", "running",
                "failed"}
  /\ mem[a] # NoRecord
  /\ leader[mem[a].attempt] = "gone"
  /\ ~mem[a].closed
  /\ CloseWorker(a)
  /\ UNCHANGED <<pc, lock, disk, attempts, registrations>>

(* A step of Start fails once there is a worker: it is closed. *)
Fails(a) ==
  /\ CloseWorker(a)
  /\ Goto(a, "failed")
  /\ UNCHANGED <<lock, attempts>>

-----------------------------------------------------------------------------
(* NewController takes the flock and reads the journal. *)
Open(a) ==
  /\ At(a, "out")
  /\ lock = NoAdapter
  /\ journal # "torn"
  /\ lock' = a
  /\ Goto(a, "open")
  /\ UNCHANGED <<disk, record, mem, attempts, worker, found, registrations>>

(* Mutant: only the receipt and the journal tell of an earlier start. *)
MayStartAgain == journal = "empty" /\ receipt = "none"

(* Start refuses what an earlier attempt left, and leaves its intent.      *)
MayStart ==
  /\ journal = "empty"
  /\ receipt = "none"
  /\ record = NoRecord
  /\ ~bar

StartBars(a) ==
  /\ At(a, "open")
  /\ MayStart
  /\ bar' = TRUE
  /\ \/ Mint(a, FALSE) /\ Goto(a, "minted")
     \/ Goto(a, "failed") /\ UNCHANGED <<mem, attempts>>
  /\ UNCHANGED <<lock, receipt, journal, record, worker, found, registrations>>

(* Mutant: a worker is gone when its leader is. *)
LeaderGone(r, a) ==
  /\ pc[r.adapter] = "dead" \/ r.adapter = a
  /\ leader[r.attempt] # "alive"

(* resumeAdmission: the artifacts agree, and everybody they name is gone,  *)
(* save this adapter itself.                                               *)
Gone(r, a) ==
  /\ pc[r.adapter] = "dead" \/ r.adapter = a
  /\ leader[r.attempt] # "alive"
  /\ \A c \in Child : child[r.attempt][c] # "group"
  /\ \A c \in r.alive : child[r.attempt][c] # "escaped"

Identified(r) ==
  /\ r # NoRecord
  /\ r.named
  /\ r.phase = "spawned"
  /\ ~r.overflow
  /\ ~r.unsure

ResumeAdmits(a) ==
  /\ At(a, "open")
  /\ receipt = "whole"
  /\ ~bar
  /\ journal = "named"
  /\ Identified(record)
  /\ Gone(record, a)
  /\ Mint(a, TRUE)
  /\ Goto(a, "minted")
  /\ UNCHANGED <<lock, disk, record, worker, found, registrations>>

-----------------------------------------------------------------------------
(* The backend refuses before it consumes the authorization.  A refusal to *)
(* admit the artifact takes the start intent back; any other keeps it.     *)
Refused(a) ==
  /\ At(a, "minted")
  /\ Forget(a)
  /\ Goto(a, "open")
  /\ bar' \in IF mem[a].named THEN {bar} ELSE {bar, FALSE}
  /\ UNCHANGED <<lock, receipt, journal, record, attempts, worker, found,
                 registrations>>

(* Mutant: a worker is recorded when there is one. *)
PublishNoIntent(a) ==
  /\ At(a, "minted")
  /\ Goto(a, "intent")
  /\ UNCHANGED <<lock, disk, record, mem, attempts, worker, found, registrations>>

(* Spawn: the intent is durable before a child exists. *)
PublishIntent(a) ==
  /\ At(a, "minted")
  /\ \/ /\ record' = mem[a]
        /\ Goto(a, "intent")
        /\ UNCHANGED mem
     \/ /\ MayPublish(mem[a])
        /\ Goto(a, "failed")
        /\ Forget(a)
  /\ UNCHANGED <<lock, disk, attempts, worker, found, registrations>>

StartChild(a) ==
  /\ At(a, "intent")
  /\ \/ /\ leader' = [leader EXCEPT ![mem[a].attempt] = "alive"]
        /\ Goto(a, "child")
        /\ UNCHANGED mem
     \/ /\ Goto(a, "failed")
        /\ Forget(a)
        /\ UNCHANGED leader
  /\ UNCHANGED <<lock, disk, record, attempts, child, found, registrations>>

(* A child that cannot be recorded is ended on the spot. *)
RecordChild(a) ==
  /\ At(a, "child")
  /\ \/ /\ record' = Spawned(mem[a])
        /\ mem' = [mem EXCEPT ![a] = Spawned(@)]
        /\ Goto(a, "spawned")
        /\ UNCHANGED worker
     \/ /\ MayPublish(Spawned(mem[a]))
        /\ EndGroup(mem[a].attempt)
        /\ Forget(a)
        /\ Goto(a, "failed")
  /\ UNCHANGED <<lock, disk, attempts, found, registrations>>

(* The native handshake fails. *)
LaunchFails(a) ==
  /\ At(a, "spawned")
  /\ Fails(a)
  /\ UNCHANGED <<disk, registrations>>

-----------------------------------------------------------------------------
(* The rest of Start: the ledger's begin, the receipt, the identity in the *)
(* record, the end of the intent, the first row of the journal.            *)
Begin(a) ==
  /\ At(a, "spawned") /\ ~mem[a].named
  /\ registrations' = registrations + 1
  /\ Goto(a, "begun")
  /\ UNCHANGED <<lock, disk, record, mem, attempts, worker, found>>

BeginFails(a) ==
  /\ At(a, "spawned") /\ ~mem[a].named
  /\ registrations' \in {registrations, registrations + 1}
  /\ Fails(a)
  /\ UNCHANGED disk

PublishReceipt(a) ==
  /\ At(a, "begun")
  /\ receipt' = "whole"
  /\ Goto(a, "published")
  /\ UNCHANGED <<lock, bar, journal, record, mem, attempts, worker, found,
                 registrations>>

ReceiptFails(a) ==
  /\ At(a, "begun")
  /\ receipt' \in {"none", "torn", "whole"}
  /\ Fails(a)
  /\ UNCHANGED <<bar, journal, registrations>>

Named(r) == [r EXCEPT !.named = TRUE]

(* Mutant: the identity is left for the next scan to publish. *)
BindInMemory(a) ==
  /\ At(a, "published")
  /\ mem' = [mem EXCEPT ![a] = Named(@)]
  /\ Goto(a, "named")
  /\ UNCHANGED <<lock, disk, record, attempts, worker, found, registrations>>

Bind(a) ==
  /\ At(a, "published")
  /\ record' = Named(mem[a])
  /\ mem' = [mem EXCEPT ![a] = Named(@)]
  /\ Goto(a, "named")
  /\ UNCHANGED <<lock, disk, attempts, worker, found, registrations>>

(* The close that follows may publish the record without its identity. *)
BindFails(a) ==
  /\ At(a, "published")
  /\ Fails(a)
  /\ UNCHANGED <<disk, registrations>>

Unbar(a) ==
  /\ At(a, "named")
  /\ bar' = FALSE
  /\ Goto(a, "unbarred")
  /\ UNCHANGED <<lock, receipt, journal, record, mem, attempts, worker, found,
                 registrations>>

UnbarFails(a) ==
  /\ At(a, "named")
  /\ bar' \in BOOLEAN
  /\ Fails(a)
  /\ UNCHANGED <<receipt, journal, registrations>>

(* The row that binds the controller; its failure leaves the worker to the *)
(* close.                                                                  *)
PersistBound(a) ==
  /\ At(a, "unbarred") \/ (At(a, "spawned") /\ mem[a].named)
  /\ \/ journal' = "named" /\ Goto(a, "running")
     \/ journal' \in {journal, "named", "torn"} /\ Goto(a, "failed")
  /\ UNCHANGED <<lock, bar, receipt, record, mem, attempts, worker, found,
                 registrations>>

-----------------------------------------------------------------------------
(* Close ends the worker, then lets go of the flock. *)
Close(a) ==
  /\ pc[a] \in {"open", "running", "failed"}
  /\ CloseWorker(a)
  /\ Goto(a, "closing")
  /\ UNCHANGED <<lock, disk, attempts, registrations>>

Release(a) ==
  /\ At(a, "closing")
  /\ lock' = NoAdapter
  /\ Forget(a)
  /\ Goto(a, "out")
  /\ UNCHANGED <<disk, record, attempts, worker, found, registrations>>

(* SIGKILL, a crash or an exit: the flock goes, the worker may stay. *)
Dies(a) ==
  /\ pc[a] # "dead"
  /\ lock' = IF lock = a THEN NoAdapter ELSE lock
  /\ Forget(a)
  /\ Goto(a, "dead")
  /\ UNCHANGED <<disk, record, attempts, worker, found, registrations>>

-----------------------------------------------------------------------------
(* The worker and its children, on their own. *)
LeaderExits(w) ==
  /\ leader[w] = "alive"
  /\ leader' = [leader EXCEPT ![w] = "gone"]
  /\ UNCHANGED child

Becomes(w, c, state) ==
  /\ child' = [child EXCEPT ![w][c] = state]
  /\ UNCHANGED leader

Forks(w, c) == Lives(w) /\ child[w][c] = "none" /\ Becomes(w, c, "group")
Leaves(w, c) == child[w][c] = "group" /\ Becomes(w, c, "escaped")
Ends(w, c) == child[w][c] \in {"group", "escaped"} /\ Becomes(w, c, "gone")

WorkerMoves ==
  /\ \E w \in Attempt :
       \/ LeaderExits(w)
       \/ \E c \in Child : Forks(w, c) \/ Leaves(w, c) \/ Ends(w, c)
  /\ UNCHANGED <<pc, lock, disk, record, mem, attempts, found, registrations>>

Next ==
  \/ \E a \in Adapter :
       \/ Open(a) \/ StartBars(a) \/ ResumeAdmits(a)
       \/ Refused(a) \/ PublishIntent(a) \/ StartChild(a) \/ RecordChild(a)
       \/ LaunchFails(a)
       \/ Begin(a) \/ BeginFails(a) \/ PublishReceipt(a) \/ ReceiptFails(a)
       \/ Bind(a) \/ BindFails(a) \/ Unbar(a) \/ UnbarFails(a) \/ PersistBound(a)
       \/ Sample(a) \/ Reap(a)
       \/ Close(a) \/ Release(a) \/ Dies(a)
  \/ WorkerMoves

Spec == Init /\ [][Next]_vars

-----------------------------------------------------------------------------
(* Two workers of one receipt never live together, whichever adapters      *)
(* launched them and however those died (A-02).                            *)
OneWorker ==
  \A v, w \in Attempt : Lives(v) /\ Lives(w) => v = w

(* A later admission always sees the most recent attempt: a live worker is *)
(* the one the record on disk is about (ownership.go).                     *)
LatestOnRecord ==
  \A w \in Attempt : Lives(w) => record.attempt = w

(* The session is begun once, over any number of starts (controller.go: "An *)
(* unresolved intent requires human reconciliation, never a new native     *)
(* identity").                                                             *)
RegisteredOnce == registrations <= 1

(* No crash leaves a record without its identity and no start intent       *)
(* ("a crash anywhere in here leaves .start").                             *)
NeverUnidentified ==
  receipt # "none" /\ ~bar => record # NoRecord /\ record.named

(* No worker lives beside an escaped child of another that a scan on       *)
(* record had seen, room for it or not.                                    *)
FoundAreGone ==
  \A v, w \in Attempt :
    Lives(w) /\ (\E c \in found[v] : child[v][c] = "escaped") => v = w

(* A worker is alone: no other lives beside it, nor what was seen to have  *)
(* escaped another.                                                        *)
WorkersAreAlone == OneWorker /\ FoundAreGone

(* The files tell a successor what it must know: which worker is the last, *)
(* that it was begun, and under which identity.                            *)
FilesAreTrue == LatestOnRecord /\ RegisteredOnce /\ NeverUnidentified
=============================================================================
