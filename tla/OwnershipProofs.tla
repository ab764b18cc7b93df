-------------------------- MODULE OwnershipProofs --------------------------
(***************************************************************************)
(* Proofs about Ownership.  Who may live is decided by the record on disk: *)
(* the invariant says that a live worker is the one it names, that nobody  *)
(* lives while a launch has been authorized and not yet recorded, and that *)
(* the escaped children seen on record are in it as long as they live.     *)
(* Everything an adapter knows is of the latest attempt, and only the one  *)
(* that holds the flock knows anything.                                    *)
(***************************************************************************)
EXTENDS Ownership, FiniteSetTheorems, TLAPS

-----------------------------------------------------------------------------
(* What a scan leaves: a record of the same attempt that has lost nothing  *)
(* but what is gone.                                                       *)
Out(w) == {c \in Child : child[w][c] \in {"escaped", "gone"}}

Scans(m, n) ==
  /\ n \in Record
  /\ n.attempt = m.attempt
  /\ n.named = m.named
  /\ n.alive \subseteq m.alive \cup {c \in Child : child[m.attempt][c] = "escaped"}
  /\ \A c \in m.alive : child[m.attempt][c] # "gone" => c \in n.alive
  /\ m.overflow => n.overflow

Sees(m, n, X) ==
  /\ X \subseteq m.alive \cup {c \in Child : child[m.attempt][c] = "escaped"}
  /\ ~n.overflow => X \subseteq n.alive

ScanResult(a, n) ==
  /\ Scans(mem[a], n)
  /\ mem' = [mem EXCEPT ![a] = n]
  /\ \/ /\ record' = n
        /\ \E X \in SUBSET Child :
             /\ Sees(mem[a], n, X)
             /\ found' = [found EXCEPT ![mem[a].attempt] = @ \cup X]
     \/ UNCHANGED <<record, found>>

LEMMA RoomFits ==
  ASSUME NEW M \in Recorded, NEW K \in SUBSET M, NEW F, NEW T \in SUBSET Child,
         Room(K, F, T)
  PROVE  K \cup T \in Recorded
<1>1. CASE Cardinality(K \cup T) <= MaxRecorded
  BY <1>1 DEF Recorded
<1>2. CASE T = {}
  <2>1. IsFiniteSet(M)
    BY ChildAssumption, FS_Subset DEF Recorded
  <2>2. Cardinality(K) <= Cardinality(M)
    BY <2>1, FS_Subset
  <2>3. Cardinality(K) \in Nat /\ Cardinality(M) \in Nat
    BY <2>1, FS_Subset, FS_CardinalityType
  <2> QED
    BY <1>2, <2>2, <2>3, MaxRecordedAssumption DEF Recorded
<1> QED
  BY <1>1, <1>2 DEF Room

LEMMA ScanStep ==
  ASSUME TypeOK, NEW a \in Adapter, mem[a] # NoRecord, NEW closed \in BOOLEAN,
         Scan(a, closed)
  PROVE  \E n \in Record : ScanResult(a, n)
<1> DEFINE m == mem[a]
<1>0. m \in Record
  BY DEF TypeOK
<1>1. PICK K \in Kept(m) : \E F \in SUBSET Findable(m, K) : \E T \in SUBSET F :
        \E unsure \in BOOLEAN :
          LET n == [m EXCEPT !.alive = K \cup T, !.overflow = @ \/ T # F,
                             !.unsure = unsure, !.closed = closed]
          IN /\ Room(K, F, T)
             /\ mem' = [mem EXCEPT ![a] = n]
             /\ \/ /\ record' = n
                   /\ found' = [found EXCEPT ![m.attempt] = @ \cup K \cup F]
                \/ UNCHANGED <<record, found>>
  BY Zenon DEF Scan
<1>1a. PICK F \in SUBSET Findable(m, K) : \E T \in SUBSET F :
        \E unsure \in BOOLEAN :
          LET n == [m EXCEPT !.alive = K \cup T, !.overflow = @ \/ T # F,
                             !.unsure = unsure, !.closed = closed]
          IN /\ Room(K, F, T)
             /\ mem' = [mem EXCEPT ![a] = n]
             /\ \/ /\ record' = n
                   /\ found' = [found EXCEPT ![m.attempt] = @ \cup K \cup F]
                \/ UNCHANGED <<record, found>>
  BY <1>1, Zenon
<1>2. PICK T \in SUBSET F : \E unsure \in BOOLEAN :
          LET n == [m EXCEPT !.alive = K \cup T, !.overflow = @ \/ T # F,
                             !.unsure = unsure, !.closed = closed]
          IN /\ Room(K, F, T)
             /\ mem' = [mem EXCEPT ![a] = n]
             /\ \/ /\ record' = n
                   /\ found' = [found EXCEPT ![m.attempt] = @ \cup K \cup F]
                \/ UNCHANGED <<record, found>>
  BY <1>1a, Zenon
<1>2a. PICK unsure \in BOOLEAN :
          LET n == [m EXCEPT !.alive = K \cup T, !.overflow = @ \/ T # F,
                             !.unsure = unsure, !.closed = closed]
          IN /\ Room(K, F, T)
             /\ mem' = [mem EXCEPT ![a] = n]
             /\ \/ /\ record' = n
                   /\ found' = [found EXCEPT ![m.attempt] = @ \cup K \cup F]
                \/ UNCHANGED <<record, found>>
  BY <1>2, Zenon
<1> DEFINE n == [m EXCEPT !.alive = K \cup T, !.overflow = @ \/ T # F,
                          !.unsure = unsure, !.closed = closed]
<1>3. /\ K \subseteq m.alive
      /\ m.alive \in Recorded
      /\ T \subseteq Child
      /\ F \subseteq {c \in Child : child[m.attempt][c] = "escaped"}
      /\ \A c \in m.alive \ K : child[m.attempt][c] = "gone"
  BY <1>0, <1>1, <1>1a, <1>2 DEF Kept, Findable, Record
<1>4. K \cup T \in Recorded
  BY <1>2a, <1>3, RoomFits
<1>5. n \in Record
  BY <1>0, <1>4 DEF Record
<1>6. /\ n.attempt = m.attempt
      /\ n.named = m.named
      /\ n.alive = K \cup T
      /\ m.overflow => n.overflow
      /\ ~n.overflow => T = F
  BY <1>0 DEF Record
<1>7. Scans(m, n)
  BY <1>3, <1>5, <1>6 DEF Scans
<1>8. K \cup F \in SUBSET Child
  BY <1>3 DEF Recorded
<1>9. Sees(m, n, K \cup F)
  BY <1>3, <1>6, <1>2a DEF Sees
<1>10. \/ /\ record' = n
          /\ \E X \in SUBSET Child :
               /\ Sees(m, n, X)
               /\ found' = [found EXCEPT ![m.attempt] = @ \cup X]
       \/ UNCHANGED <<record, found>>
  <2>1. CASE UNCHANGED <<record, found>>
    BY <2>1
  <2>2. CASE record' = n /\ found' = [found EXCEPT ![m.attempt] = @ \cup K \cup F]
    <3>1. found[m.attempt] \cup K \cup F = found[m.attempt] \cup (K \cup F)
      OBVIOUS
    <3>2. found' = [found EXCEPT ![m.attempt] = @ \cup (K \cup F)]
      BY <2>2, <3>1
    <3> QED
      BY <2>2, <3>2, <1>8, <1>9
  <2> QED
    BY <1>2a, <2>1, <2>2
<1> QED
  BY <1>2a, <1>5, <1>7, <1>10 DEF ScanResult

(* The end of a group leaves the children that left it. *)
LEMMA EndGroupStep ==
  ASSUME TypeOK, NEW w \in Attempt, EndGroup(w)
  PROVE  /\ leader' \in [Attempt -> {"none", "alive", "gone"}]
         /\ child' \in [Attempt -> [Child -> {"none", "group", "escaped", "gone"}]]
         /\ leader'[w] = "gone"
         /\ \A v \in Attempt : v # w => leader'[v] = leader[v] /\ child'[v] = child[v]
         /\ \A c \in Child : child'[w][c] =
              IF child[w][c] = "group" THEN "gone" ELSE child[w][c]
<1>1. /\ leader' = [leader EXCEPT ![w] = "gone"]
      /\ child' = [child EXCEPT ![w] =
                     [c \in Child |-> IF child[w][c] = "group" THEN "gone"
                                     ELSE child[w][c]]]
  BY DEF EndGroup
<1>2. [c \in Child |-> IF child[w][c] = "group" THEN "gone" ELSE child[w][c]]
        \in [Child -> {"none", "group", "escaped", "gone"}]
  BY DEF TypeOK
<1> QED
  BY <1>1, <1>2 DEF TypeOK

(* The worker is closed by a last scan, or was, or there is none. *)
LEMMA CloseStep ==
  ASSUME TypeOK, NEW a \in Adapter, CloseWorker(a)
  PROVE  \/ UNCHANGED <<mem, record, found, worker>>
         \/ /\ mem[a] # NoRecord
            /\ \E n \in Record : ScanResult(a, n)
            /\ EndGroup(mem[a].attempt)
<1>1. CASE mem[a] # NoRecord /\ ~mem[a].closed
  <2>1. Scan(a, TRUE) /\ EndGroup(mem[a].attempt)
    BY <1>1 DEF CloseWorker
  <2> QED
    BY <1>1, <2>1, ScanStep
<1>2. CASE ~(mem[a] # NoRecord /\ ~mem[a].closed)
  BY <1>2 DEF CloseWorker
<1> QED
  BY <1>1, <1>2

LEMMA ScanType ==
  ASSUME TypeOK, NEW a \in Adapter, mem[a] # NoRecord,
         NEW n \in Record, ScanResult(a, n)
  PROVE  /\ mem' \in [Adapter -> Record \cup {NoRecord}]
         /\ record' \in Record \cup {NoRecord}
         /\ found' \in [Attempt -> SUBSET Child]
<1>1. mem[a].attempt \in Attempt
  BY DEF TypeOK, Record
<1>2. CASE UNCHANGED <<record, found>>
  BY <1>2 DEF TypeOK, ScanResult
<1>3. CASE record' = n /\ \E X \in SUBSET Child :
             found' = [found EXCEPT ![mem[a].attempt] = @ \cup X]
  BY <1>1, <1>3 DEF TypeOK, ScanResult
<1> QED
  BY <1>2, <1>3 DEF ScanResult

LEMMA CloseType ==
  ASSUME TypeOK, NEW a \in Adapter, CloseWorker(a)
  PROVE  /\ mem' \in [Adapter -> Record \cup {NoRecord}]
         /\ record' \in Record \cup {NoRecord}
         /\ found' \in [Attempt -> SUBSET Child]
         /\ leader' \in [Attempt -> {"none", "alive", "gone"}]
         /\ child' \in [Attempt -> [Child -> {"none", "group", "escaped", "gone"}]]
<1>1. CASE UNCHANGED <<mem, record, found, worker>>
  BY <1>1 DEF TypeOK, worker
<1>2. CASE /\ mem[a] # NoRecord
           /\ \E n \in Record : ScanResult(a, n)
           /\ EndGroup(mem[a].attempt)
  <2>1. mem[a].attempt \in Attempt
    BY <1>2 DEF TypeOK, Record
  <2> QED
    BY <1>2, <2>1, EndGroupStep, ScanType
<1> QED
  BY <1>1, <1>2, CloseStep

LEMMA MintType ==
  ASSUME TypeOK, NEW a \in Adapter, NEW named \in BOOLEAN, Mint(a, named)
  PROVE  /\ attempts' \in 0 .. MaxAttempts
         /\ attempts' = attempts + 1
         /\ \E r \in Record :
              /\ mem' = [mem EXCEPT ![a] = r]
              /\ r.attempt = attempts'
              /\ r.named = named
              /\ r.alive = {}
         /\ mem' \in [Adapter -> Record \cup {NoRecord}]
<1> DEFINE r == [attempt |-> attempts', phase |-> "intent", named |-> named,
                 adapter |-> a, alive |-> {}, overflow |-> FALSE,
                 unsure |-> FALSE, closed |-> FALSE]
<1>1. attempts' = attempts + 1 /\ attempts' \in 0 .. MaxAttempts /\ attempts' \in Attempt
  BY MaxAttemptsAssumption DEF Mint, TypeOK, Attempt
<1>2. {} \in Recorded
  BY FS_EmptySet, MaxRecordedAssumption DEF Recorded
<1>3. r \in Record
  BY <1>1, <1>2 DEF Record
<1>4. mem' = [mem EXCEPT ![a] = r]
  BY DEF Mint
<1> QED
  BY <1>1, <1>3, <1>4 DEF TypeOK

LEMMA MaySave ==
  ASSUME TypeOK, NEW r \in Record, MayPublish(r)
  PROVE  record' \in Record \cup {NoRecord}
BY DEF TypeOK, MayPublish

LEMMA Retyped ==
  ASSUME NEW r \in Record
  PROVE  /\ Spawned(r) \in Record
         /\ Spawned(r).attempt = r.attempt
         /\ Spawned(r).named = r.named
         /\ Spawned(r).alive = r.alive
         /\ Spawned(r).overflow = r.overflow
         /\ Named(r) \in Record
         /\ Named(r).attempt = r.attempt
         /\ Named(r).named
         /\ Named(r).alive = r.alive
         /\ Named(r).overflow = r.overflow
BY DEF Record, Spawned, Named

-----------------------------------------------------------------------------
(* The invariant: of the world, and of what one adapter knows. *)
Quiet(v) == \A c \in found[v] : child[v][c] # "escaped"

Covers(r) ==
  r.overflow \/ \A c \in found[r.attempt] :
                  child[r.attempt][c] = "escaped" => c \in r.alive

Unborn(w) ==
  /\ leader[w] = "none"
  /\ \A c \in Child : child[w][c] = "none"
  /\ found[w] = {}

LifeInv ==
  /\ LatestOnRecord
  /\ \A w \in Attempt : w > attempts => Unborn(w)
  /\ \A w \in Attempt : found[w] \subseteq Out(w)
  /\ record # NoRecord => Covers(record)
  /\ \A v \in Attempt : v # record.attempt => Quiet(v)

StartInv ==
  /\ registrations > 0 => record # NoRecord
  /\ RegisteredOnce
  /\ NeverUnidentified

Knows(a) ==
  /\ mem[a].attempt = attempts
  /\ mem[a].named \/ bar
  /\ mem[a].alive \subseteq Out(attempts)
  /\ Covers(mem[a])
  /\ pc[a] # "minted" => record # NoRecord /\ record.attempt = attempts

AdapterInv(a) ==
  /\ pc[a] \notin {"out", "dead"} => lock = a
  /\ pc[a] \in {"out", "dead", "open"} => mem[a] = NoRecord
  /\ pc[a] \in {"minted", "intent", "child", "spawned", "begun", "published",
                "named", "unbarred", "running"} => mem[a] # NoRecord
  /\ mem[a] # NoRecord => Knows(a)
  /\ pc[a] \in {"minted", "intent"} => \A w \in Attempt : ~Lives(w)
  /\ pc[a] \in {"minted", "intent", "child"} =>
       /\ found[attempts] = {}
       /\ mem[a].alive = {}
  /\ pc[a] = "minted" =>
       /\ \A v \in Attempt : Quiet(v)
       /\ mem[a].named \/ receipt = "none"
  /\ pc[a] \in {"minted", "intent", "child", "spawned"} =>
       mem[a].named \/ registrations = 0
  /\ pc[a] \in {"begun", "published"} => bar
  /\ pc[a] = "named" => mem[a].named /\ record.named

Inv == LifeInv /\ StartInv /\ \A a \in Adapter : AdapterInv(a)

IInv == TypeOK /\ Inv

LEMMA TypeInit == Init => TypeOK
<1> SUFFICES ASSUME Init PROVE TypeOK
  OBVIOUS
<1>1. 0 \in 0 .. MaxAttempts
  BY MaxAttemptsAssumption
<1>2. /\ leader \in [Attempt -> {"none", "alive", "gone"}]
      /\ child \in [Attempt -> [Child -> {"none", "group", "escaped", "gone"}]]
      /\ found \in [Attempt -> SUBSET Child]
  BY DEF Init
<1> QED
  BY <1>1, <1>2 DEF Init, TypeOK, Phase

LEMMA TypeStep == IInv /\ [Next]_vars => TypeOK'
<1> SUFFICES ASSUME TypeOK, \A a \in Adapter : AdapterInv(a), [Next]_vars
             PROVE  TypeOK'
  BY DEF IInv, Inv
<1>1. CASE UNCHANGED vars
  BY <1>1 DEF TypeOK, vars, disk, worker
<1>2. CASE WorkerMoves
  <2>1. child' \in [Attempt -> [Child -> {"none", "group", "escaped", "gone"}]]
        /\ leader' \in [Attempt -> {"none", "alive", "gone"}]
    <3>1. ASSUME NEW w \in Attempt, LeaderExits(w)
          PROVE  leader' \in [Attempt -> {"none", "alive", "gone"}] /\ child' = child
      BY <3>1 DEF LeaderExits, TypeOK
    <3>2. ASSUME NEW w \in Attempt, NEW c \in Child,
                 NEW state \in {"none", "group", "escaped", "gone"}, Becomes(w, c, state)
          PROVE  /\ child' \in [Attempt -> [Child -> {"none", "group", "escaped", "gone"}]]
                 /\ leader' = leader
      BY <3>2 DEF Becomes, TypeOK
    <3> QED
      BY <1>2, <3>1, <3>2 DEF WorkerMoves, Forks, Leaves, Ends, TypeOK
  <2> QED
    BY <1>2, <2>1 DEF WorkerMoves, TypeOK, disk
<1>3. ASSUME NEW a \in Adapter, Open(a) PROVE TypeOK'
  BY <1>3 DEF TypeOK, disk, worker, Open, Goto, Phase
<1>3d. ASSUME NEW a \in Adapter, PublishReceipt(a) PROVE TypeOK'
  BY <1>3d DEF TypeOK, worker, PublishReceipt, Goto, Phase
<1>3e. ASSUME NEW a \in Adapter, Unbar(a) PROVE TypeOK'
  BY <1>3e DEF TypeOK, worker, Unbar, Goto, Phase
<1>3f. ASSUME NEW a \in Adapter, Begin(a) PROVE TypeOK'
  BY <1>3f DEF TypeOK, disk, worker, Begin, Goto, Phase
<1>3a. ASSUME NEW a \in Adapter, Refused(a) \/ Release(a) PROVE TypeOK'
  BY <1>3a DEF TypeOK, disk, worker, Refused, Release, Goto, Forget, Phase
<1>3b. ASSUME NEW a \in Adapter, PersistBound(a) PROVE TypeOK'
  BY <1>3b DEF TypeOK, disk, worker, PersistBound, Goto, Phase
<1>3c. ASSUME NEW a \in Adapter, Dies(a) PROVE TypeOK'
  BY <1>3c DEF TypeOK, disk, worker, Dies, Goto, Forget, Phase
<1>4. ASSUME NEW a \in Adapter, StartBars(a) PROVE TypeOK'
  <2>1. CASE Mint(a, FALSE)
    BY <1>4, <2>1, MintType DEF TypeOK, disk, worker, StartBars, Goto, Phase
  <2>2. CASE UNCHANGED <<mem, attempts>>
    BY <1>4, <2>2 DEF TypeOK, disk, worker, StartBars, Goto, Phase
  <2> QED
    BY <1>4, <2>1, <2>2 DEF StartBars
<1>5. ASSUME NEW a \in Adapter, ResumeAdmits(a) PROVE TypeOK'
  BY <1>5, MintType DEF TypeOK, disk, worker, ResumeAdmits, Goto, Phase
<1>6. ASSUME NEW a \in Adapter, PublishIntent(a) PROVE TypeOK'
  BY <1>6 DEF TypeOK, disk, worker, PublishIntent, Goto, Forget, MayPublish, Phase
<1>7. ASSUME NEW a \in Adapter, StartChild(a) PROVE TypeOK'
  BY <1>7 DEF TypeOK, disk, worker, StartChild, Goto, Forget, Phase
<1>8. ASSUME NEW a \in Adapter, RecordChild(a) PROVE TypeOK'
  <2>1. mem[a] \in Record /\ mem[a].attempt \in Attempt
    BY <1>8 DEF TypeOK, Record, AdapterInv, RecordChild, At
  <2>2. CASE record' = Spawned(mem[a]) /\ mem' = [mem EXCEPT ![a] = Spawned(@)]
             /\ Goto(a, "spawned") /\ UNCHANGED worker
    BY <1>8, <2>1, <2>2, Retyped DEF TypeOK, disk, worker, RecordChild, Goto, Phase
  <2>3. CASE MayPublish(Spawned(mem[a])) /\ EndGroup(mem[a].attempt)
             /\ Forget(a) /\ Goto(a, "failed")
    BY <1>8, <2>1, <2>3, Retyped, EndGroupStep, MaySave
       DEF TypeOK, disk, RecordChild, Goto, Forget, Phase
  <2> QED
    BY <1>8, <2>2, <2>3 DEF RecordChild
<1>9. ASSUME NEW a \in Adapter,
             \/ LaunchFails(a) \/ BeginFails(a) \/ ReceiptFails(a) \/ BindFails(a)
             \/ UnbarFails(a)
      PROVE  TypeOK'
  <2>1. CloseWorker(a) /\ pc' \in [Adapter -> Phase] /\ UNCHANGED <<lock, attempts>>
    BY <1>9 DEF LaunchFails, BeginFails, ReceiptFails, BindFails, UnbarFails, Fails,
                Goto, Phase, TypeOK
  <2>2. /\ bar' \in BOOLEAN
        /\ receipt' \in {"none", "torn", "whole"}
        /\ journal' \in {"empty", "named", "torn"}
        /\ registrations' \in Nat
    BY <1>9 DEF LaunchFails, BeginFails, ReceiptFails, BindFails, UnbarFails, disk,
                TypeOK
  <2> QED
    BY <2>1, <2>2, CloseType DEF TypeOK
<1>10. ASSUME NEW a \in Adapter, Bind(a) PROVE TypeOK'
  <2>1. mem[a] \in Record
    BY <1>10 DEF TypeOK, AdapterInv, Bind, At
  <2> QED
    BY <1>10, <2>1, Retyped DEF TypeOK, disk, worker, Bind, Goto, Phase
<1>11. ASSUME NEW a \in Adapter, Sample(a) PROVE TypeOK'
  BY <1>11, ScanStep, ScanType DEF TypeOK, disk, worker, Sample
<1>12. ASSUME NEW a \in Adapter, Reap(a) \/ Close(a) PROVE TypeOK'
  <2>1. CloseWorker(a)
    BY <1>12 DEF Reap, Close
  <2> QED
    BY <1>12, <2>1, CloseType DEF TypeOK, disk, Reap, Close, Goto, Phase
<1> QED
  BY <1>1, <1>2, <1>3, <1>3a, <1>3b, <1>3c, <1>3d, <1>3e,
     <1>3f, <1>4, <1>5, <1>6, <1>7, <1>8, <1>9,
     <1>10, <1>11, <1>12 DEF Next

-----------------------------------------------------------------------------
(* What a worker may do with no adapter's help never wakes it and never    *)
(* lets a child come back.                                                 *)
Ages ==
  \A v \in Attempt :
    /\ Lives(v)' => Lives(v)
    /\ Out(v) \subseteq Out(v)'
    /\ \A c \in Out(v) : child'[v][c] = "escaped" => child[v][c] = "escaped"
    /\ v > attempts /\ Unborn(v) =>
         leader'[v] = "none" /\ \A c \in Child : child'[v][c] = "none"

LEMMA Still == ASSUME UNCHANGED worker PROVE Ages
BY DEF Ages, worker, Lives, Out, Unborn

LEMMA EndGroupAges ==
  ASSUME TypeOK, NEW w \in Attempt, w <= attempts, EndGroup(w) PROVE Ages
<1> SUFFICES ASSUME NEW v \in Attempt
             PROVE  /\ Lives(v)' => Lives(v)
                    /\ Out(v) \subseteq Out(v)'
                    /\ \A c \in Out(v) :
                         child'[v][c] = "escaped" => child[v][c] = "escaped"
                    /\ v > attempts /\ Unborn(v) =>
                         leader'[v] = "none" /\ \A c \in Child : child'[v][c] = "none"
  BY DEF Ages
<1>1. CASE v = w
  <2>1. ~(v > attempts)
    BY <1>1 DEF TypeOK, Attempt
  <2> QED
    BY <1>1, <2>1, EndGroupStep DEF Lives, Out
<1>2. CASE v # w
  BY <1>2, EndGroupStep DEF Lives, Out, Unborn
<1> QED
  BY <1>1, <1>2

LEMMA WorkerAges ==
  ASSUME TypeOK, WorkerMoves PROVE Ages
<1>1. ASSUME NEW w \in Attempt, LeaderExits(w) PROVE Ages
  BY <1>1 DEF LeaderExits, Ages, Lives, Out, Unborn, TypeOK
<1>2. ASSUME NEW w \in Attempt, NEW c \in Child,
             Forks(w, c) \/ Leaves(w, c) \/ Ends(w, c)
      PROVE  Ages
  <2>1. /\ leader' = leader
        /\ \E s \in {"group", "escaped", "gone"} :
             /\ child' = [child EXCEPT ![w][c] = s]
             /\ s = "group" => child[w][c] = "none"
             /\ s = "escaped" => child[w][c] = "group"
             /\ s = "gone" => child[w][c] \in {"group", "escaped"}
        /\ child[w][c] = "none" => Lives(w)
    BY <1>2 DEF Forks, Leaves, Ends, Becomes
  <2>2. /\ \A v \in Attempt, d \in Child : v # w \/ d # c => child'[v][d] = child[v][d]
        /\ child'[w][c] = "group" => child[w][c] = "none"
        /\ child'[w][c] = "escaped" => child[w][c] = "group"
        /\ child'[w][c] = "gone" => child[w][c] \in {"group", "escaped"}
        /\ child'[w][c] \in {"group", "escaped", "gone"}
    BY <2>1 DEF TypeOK
  <2>3. Lives(w)' => Lives(w)
    BY <2>1, <2>2 DEF Lives
  <2>4. ~Unborn(w)
    BY <2>1, <2>2 DEF Unborn, Lives
  <2> QED
    BY <2>1, <2>2, <2>3, <2>4 DEF Ages, Lives, Out, Unborn
<1> QED
  BY <1>1, <1>2 DEF WorkerMoves

(* Nothing is published. *)
LEMMA LifeFrame ==
  ASSUME TypeOK, LifeInv, Ages, UNCHANGED <<record, attempts, found>>
  PROVE  LifeInv'
<1>1. LatestOnRecord'
  BY DEF LifeInv, LatestOnRecord, Ages
<1>2. \A w \in Attempt : w > attempts => Unborn(w)'
  BY DEF LifeInv, Ages, Unborn
<1>3. \A w \in Attempt : found[w] \subseteq Out(w)'
  BY DEF LifeInv, Ages
<1>4. \A w \in Attempt : Quiet(w) => Quiet(w)'
  BY DEF LifeInv, Ages, Quiet
<1>5. record # NoRecord => Covers(record)'
  BY DEF LifeInv, Ages, Covers, TypeOK, Record
<1> QED
  BY <1>1, <1>2, <1>3, <1>4, <1>5 DEF LifeInv

(* The latest attempt's record is replaced, or the first of an attempt     *)
(* takes the place of one of which nobody is left.                         *)
LEMMA LifePublish ==
  ASSUME TypeOK, LifeInv, Ages, UNCHANGED <<attempts, found>>,
         NEW r \in Record, record' = r, Covers(r),
         \/ r.attempt = record.attempt
         \/ \A v \in Attempt : ~Lives(v) /\ Quiet(v)
  PROVE  LifeInv'
<1>1. LatestOnRecord'
  BY DEF LifeInv, LatestOnRecord, Ages
<1>2. \A w \in Attempt : w > attempts => Unborn(w)'
  BY DEF LifeInv, Ages, Unborn
<1>3. \A w \in Attempt : found[w] \subseteq Out(w)'
  BY DEF LifeInv, Ages
<1>4. \A w \in Attempt : Quiet(w) => Quiet(w)'
  BY DEF LifeInv, Ages, Quiet
<1>5. Covers(r)'
  BY DEF LifeInv, Ages, Covers, Record
<1>6. \A v \in Attempt : v # r.attempt => Quiet(v)
  BY DEF LifeInv
<1> QED
  BY <1>1, <1>2, <1>3, <1>4, <1>5, <1>6 DEF LifeInv

(* A scan, with what may befall the worker in the same step. *)
LEMMA LifeScan ==
  ASSUME TypeOK, LifeInv, Ages, attempts' = attempts,
         NEW a \in Adapter, mem[a] # NoRecord, Knows(a), pc[a] # "minted",
         NEW n \in Record, ScanResult(a, n)
  PROVE  /\ LifeInv'
         /\ n.alive \subseteq Out(attempts)'
         /\ Covers(n)'
<1> DEFINE m == mem[a]
           w == attempts
<1>1. /\ m \in Record
      /\ m.attempt = w
      /\ w \in Attempt
      /\ n.attempt = w
      /\ record # NoRecord
      /\ record.attempt = w
      /\ m.alive \subseteq Out(w)
      /\ Covers(m)
      /\ Scans(m, n)
  BY DEF Knows, TypeOK, Record, ScanResult, Scans
<1>2. n.alive \subseteq Out(w)
  BY <1>1 DEF Scans, Out
<1>3. n.alive \subseteq Out(w)'
  BY <1>1, <1>2 DEF Ages
<1>4. \A c \in found[w] : child[w][c] = "escaped" => n.overflow \/ c \in n.alive
  BY <1>1 DEF Covers, Scans
<1>5. CASE UNCHANGED <<record, found>>
  <2>1. LifeInv'
    BY <1>5, LifeFrame
  <2>2. Covers(n)'
    BY <1>1, <1>4, <1>5 DEF Covers, Ages, LifeInv
  <2> QED
    BY <1>3, <2>1, <2>2
<1>6. CASE /\ record' = n
           /\ \E X \in SUBSET Child :
                /\ Sees(m, n, X)
                /\ found' = [found EXCEPT ![m.attempt] = @ \cup X]
  <2>1. PICK X \in SUBSET Child :
               /\ Sees(m, n, X)
               /\ found' = [found EXCEPT ![m.attempt] = @ \cup X]
    BY <1>6
  <2>2. /\ found'[w] = found[w] \cup X
        /\ \A v \in Attempt : v # w => found'[v] = found[v]
    BY <2>1, <1>1 DEF TypeOK
  <2>3. X \subseteq Out(w) /\ (~n.overflow => X \subseteq n.alive)
    BY <2>1, <1>1 DEF Sees, Out
  <2>4. \A v \in Attempt : found'[v] \subseteq Out(v)
    BY <2>2, <2>3 DEF LifeInv
  <2>5. \A v \in Attempt : found'[v] \subseteq Out(v)'
    BY <2>4 DEF Ages
  <2>6. Covers(n)'
    <3>1. \A c \in found'[w] : child[w][c] = "escaped" => n.overflow \/ c \in n.alive
      BY <1>4, <2>2, <2>3
    <3>2. \A c \in found'[w] : child'[w][c] = "escaped" => child[w][c] = "escaped"
      BY <1>1, <2>4 DEF Ages
    <3> QED
      BY <1>1, <3>1, <3>2 DEF Covers
  <2>7. \A v \in Attempt : v # w => Quiet(v)'
    BY <1>1, <2>2 DEF LifeInv, Quiet, Ages
  <2>8. \A v \in Attempt : v > attempts => Unborn(v)'
    BY <1>1, <2>2 DEF LifeInv, Ages, Unborn, Attempt
  <2>9. LatestOnRecord'
    BY <1>1, <1>6 DEF LifeInv, LatestOnRecord, Ages
  <2> QED
    BY <1>1, <1>3, <1>6, <2>5, <2>6, <2>7, <2>8, <2>9 DEF LifeInv
<1> QED
  BY <1>5, <1>6 DEF ScanResult

(* The close of a worker, whoever asks for it. *)
Closes(a) ==
  /\ record # NoRecord => record' # NoRecord
  /\ record' = record \/ (mem[a] # NoRecord /\ record'.named = mem[a].named)
  /\ \A b \in Adapter : b # a => mem'[b] = mem[b]
  /\ mem[a] = NoRecord => mem'[a] = NoRecord
  /\ mem[a] # NoRecord =>
       /\ mem'[a].attempt = attempts
       /\ mem'[a].named = mem[a].named
       /\ mem'[a].alive \subseteq Out(attempts)'
       /\ Covers(mem[a])'
       /\ record' # NoRecord /\ record'.attempt = attempts

LEMMA ScanCloses ==
  ASSUME TypeOK, LifeInv, Ages, attempts' = attempts,
         NEW a \in Adapter, mem[a] # NoRecord, Knows(a), pc[a] # "minted",
         NEW n \in Record, ScanResult(a, n)
  PROVE  LifeInv' /\ Closes(a)
<1>1. LifeInv' /\ n.alive \subseteq Out(attempts)' /\ Covers(n)'
  BY LifeScan
<1>2. mem'[a] = n /\ \A b \in Adapter : b # a => mem'[b] = mem[b]
  BY DEF ScanResult, TypeOK
<1>3. n.attempt = attempts /\ n.named = mem[a].named /\ n # NoRecord
  BY DEF ScanResult, Scans, Knows, Record, NoRecord
<1>4. record # NoRecord /\ record.attempt = attempts
  BY DEF Knows
<1>5. record' = record \/ record' = n
  BY DEF ScanResult
<1>6. Covers(mem[a])'
  BY <1>1, <1>2 DEF Covers
<1> QED
  BY <1>1, <1>2, <1>3, <1>4, <1>5, <1>6 DEF Closes

LEMMA CloseCloses ==
  ASSUME TypeOK, LifeInv, attempts' = attempts,
         NEW a \in Adapter, mem[a] # NoRecord => Knows(a), pc[a] # "minted",
         CloseWorker(a)
  PROVE  LifeInv' /\ Closes(a)
<1>1. CASE UNCHANGED <<mem, record, found, worker>>
  <2>1. Ages
    BY <1>1, Still DEF worker
  <2>2. LifeInv'
    BY <1>1, <2>1, LifeFrame
  <2>3. mem[a] # NoRecord => Covers(mem[a])'
    BY <1>1 DEF Knows, Covers, worker
  <2>4. mem[a] # NoRecord => mem'[a].alive \subseteq Out(attempts)'
    BY <1>1 DEF Knows, Out, worker
  <2> QED
    BY <1>1, <2>2, <2>3, <2>4 DEF Closes, Knows
<1>2. CASE /\ mem[a] # NoRecord
           /\ \E n \in Record : ScanResult(a, n)
           /\ EndGroup(mem[a].attempt)
  <2>1. mem[a].attempt = attempts /\ attempts \in Attempt
    BY <1>2 DEF TypeOK, Record, Knows
  <2>2. Ages
    BY <1>2, <2>1, EndGroupAges DEF Attempt
  <2> QED
    BY <1>2, <2>2, ScanCloses
<1> QED
  BY <1>1, <1>2, CloseStep

-----------------------------------------------------------------------------
(* What the holder of the flock does leaves the other adapters, which know *)
(* nothing, as they are.                                                   *)
Idle(b) == pc[b] \in {"out", "dead"} /\ mem[b] = NoRecord

LEMMA IdleStays ==
  ASSUME NEW b \in Adapter, Idle(b), pc'[b] = pc[b], mem'[b] = mem[b]
  PROVE  AdapterInv(b)'
BY DEF Idle, AdapterInv

LEMMA OthersIdle ==
  ASSUME TypeOK, Inv, NEW a \in Adapter, lock = a \/ lock = NoAdapter
  PROVE  \A b \in Adapter : b # a => Idle(b)
BY NoAdapterAssumption DEF Inv, AdapterInv, Idle

LEMMA Holds ==
  ASSUME TypeOK, Inv, NEW a \in Adapter, pc[a] \notin {"out", "dead"}
  PROVE  lock = a
BY DEF Inv, AdapterInv

(* The shape of a step's proof: what the acting adapter leaves. *)
LEMMA Acts ==
  ASSUME TypeOK, Inv, NEW a \in Adapter, lock = a \/ lock = NoAdapter,
         \A b \in Adapter : b # a => pc'[b] = pc[b] /\ mem'[b] = mem[b],
         LifeInv', StartInv', AdapterInv(a)'
  PROVE  Inv'
<1>1. ASSUME NEW b \in Adapter PROVE AdapterInv(b)'
  <2>1. CASE b = a
    BY <2>1
  <2>2. CASE b # a
    BY <2>2, OthersIdle, IdleStays
  <2> QED
    BY <2>1, <2>2
<1> QED
  BY <1>1 DEF Inv

LEMMA InvInit == Init => Inv
<1> SUFFICES ASSUME Init PROVE Inv
  OBVIOUS
<1>1. ~\E w \in Attempt : Lives(w)
  BY DEF Init, Lives
<1>2. \A w \in Attempt : Unborn(w) /\ Quiet(w) /\ found[w] = {}
  BY DEF Init, Unborn, Quiet
<1>3. LifeInv
  BY <1>1, <1>2 DEF Init, LifeInv, LatestOnRecord
<1>4. StartInv
  BY DEF Init, StartInv, RegisteredOnce, NeverUnidentified
<1>5. \A a \in Adapter : AdapterInv(a)
  BY DEF Init, AdapterInv
<1> QED
  BY <1>3, <1>4, <1>5 DEF Inv

-----------------------------------------------------------------------------
(* A step that publishes nothing and closes nobody. *)
LEMMA QuietStep ==
  ASSUME TypeOK, Inv, UNCHANGED <<record, attempts, worker, found>>
  PROVE  LifeInv'
BY Still, LifeFrame DEF Inv

LEMMA OpenStep ==
  ASSUME TypeOK, Inv, NEW a \in Adapter, Open(a) PROVE Inv'
<1>1. /\ pc'[a] = "open" /\ lock' = a /\ lock = NoAdapter
      /\ \A b \in Adapter : b # a => pc'[b] = pc[b]
      /\ mem' = mem /\ mem[a] = NoRecord
  BY DEF Open, Goto, At, TypeOK, Inv, AdapterInv
<1>2. LifeInv'
  BY QuietStep DEF Open, worker
<1>3. StartInv'
  BY DEF Inv, StartInv, RegisteredOnce, NeverUnidentified, Open, disk
<1>4. AdapterInv(a)'
  BY <1>1 DEF AdapterInv
<1> QED
  BY <1>1, <1>2, <1>3, <1>4, Acts

LEMMA ReleaseStep ==
  ASSUME TypeOK, Inv, NEW a \in Adapter, Release(a) PROVE Inv'
<1>1. /\ pc'[a] = "out" /\ lock = a /\ mem'[a] = NoRecord
      /\ \A b \in Adapter : b # a => pc'[b] = pc[b] /\ mem'[b] = mem[b]
  BY Holds DEF Release, Goto, Forget, At, TypeOK
<1>2. LifeInv'
  BY QuietStep DEF Release, worker
<1>3. StartInv'
  BY DEF Inv, StartInv, RegisteredOnce, NeverUnidentified, Release, disk
<1>4. AdapterInv(a)'
  BY <1>1 DEF AdapterInv
<1> QED
  BY <1>1, <1>2, <1>3, <1>4, Acts

LEMMA RefusedStep ==
  ASSUME TypeOK, Inv, NEW a \in Adapter, Refused(a) PROVE Inv'
<1>1. /\ pc'[a] = "open" /\ lock = a /\ lock' = a /\ mem'[a] = NoRecord
      /\ \A b \in Adapter : b # a => pc'[b] = pc[b] /\ mem'[b] = mem[b]
  BY Holds DEF Refused, Goto, Forget, At, TypeOK
<1>2. LifeInv'
  BY QuietStep DEF Refused, worker
<1>3. bar' = bar \/ receipt = "none"
  BY DEF Refused, At, Inv, AdapterInv
<1>4. StartInv'
  BY <1>3 DEF Inv, StartInv, RegisteredOnce, NeverUnidentified, Refused
<1>5. AdapterInv(a)'
  BY <1>1 DEF AdapterInv
<1> QED
  BY <1>1, <1>2, <1>4, <1>5, Acts

(* The death of an adapter that does not hold the flock changes nothing    *)
(* for the one that does.                                                  *)
LEMMA DiesStep ==
  ASSUME TypeOK, Inv, NEW a \in Adapter, Dies(a) PROVE Inv'
<1>1. /\ pc'[a] = "dead" /\ mem'[a] = NoRecord
      /\ \A b \in Adapter : b # a => pc'[b] = pc[b] /\ mem'[b] = mem[b]
  BY DEF Dies, Goto, Forget, TypeOK
<1>2. LifeInv'
  BY QuietStep DEF Dies, worker
<1>3. StartInv'
  BY DEF Inv, StartInv, RegisteredOnce, NeverUnidentified, Dies, disk
<1>4. AdapterInv(a)'
  BY <1>1 DEF AdapterInv
<1>5. CASE lock = a
  BY <1>1, <1>2, <1>3, <1>4, <1>5, Acts
<1>6. CASE lock # a
  <2>1. ASSUME NEW b \in Adapter, b # a PROVE AdapterInv(b)'
    <3>1. AdapterInv(b)
      BY DEF Inv
    <3>2. /\ lock' = lock
          /\ UNCHANGED <<bar, receipt, journal, record, attempts, leader, child,
                         found, registrations>>
      BY <1>6 DEF Dies, disk, worker
    <3>3. Knows(b) => Knows(b)'
      BY <1>1, <2>1, <3>2 DEF Knows, Out, Covers
    <3>4. \A w \in Attempt : (~Lives(w) => ~Lives(w)') /\ (Quiet(w) => Quiet(w)')
      BY <3>2 DEF Lives, Quiet
    <3>5. pc'[b] = pc[b] /\ mem'[b] = mem[b]
      BY <1>1, <2>1
    <3> QED
      BY <3>1, <3>2, <3>3, <3>4, <3>5 DEF AdapterInv
  <2> QED
    BY <1>2, <1>3, <1>4, <2>1 DEF Inv
<1> QED
  BY <1>5, <1>6

(* A record of which nobody lives and nobody escaped is left. *)
LEMMA NobodyWithout ==
  ASSUME TypeOK, Inv, record = NoRecord
  PROVE  \A v \in Attempt : ~Lives(v) /\ Quiet(v)
BY DEF Inv, LifeInv, LatestOnRecord, NoRecord, Attempt

(* An authorization is for an attempt of which there is nothing yet. *)
LEMMA MintKnows ==
  ASSUME TypeOK, Inv, NEW a \in Adapter, NEW named \in BOOLEAN, Mint(a, named),
         UNCHANGED <<worker, record, found>>,
         \A v \in Attempt : ~Lives(v) /\ Quiet(v),
         pc' = [pc EXCEPT ![a] = "minted"], lock = a, lock' = a,
         named \/ (bar' /\ receipt' = "none" /\ registrations' = 0)
  PROVE  LifeInv' /\ AdapterInv(a)'
<1>1. PICK r \in Record : /\ mem' = [mem EXCEPT ![a] = r]
                          /\ r.attempt = attempts'
                          /\ r.named = named
                          /\ r.alive = {}
  BY MintType
<1>2. /\ mem'[a] = r /\ pc'[a] = "minted" /\ attempts' = attempts + 1
      /\ attempts' \in Attempt /\ attempts' > attempts /\ r # NoRecord
  <2>1. r # NoRecord
    BY DEF Record, NoRecord
  <2>2. attempts' = attempts + 1 /\ attempts' \in 0 .. MaxAttempts
    BY MintType
  <2> QED
    BY <1>1, <2>1, <2>2, MaxAttemptsAssumption DEF TypeOK, Attempt
<1>3. Unborn(attempts') /\ found[attempts'] = {}
  BY <1>2 DEF Inv, LifeInv, Unborn
<1>4. \A w \in Attempt : ~Lives(w)' /\ Quiet(w)'
  BY DEF Lives, Quiet, worker
<1>5. LifeInv'
  <2>1. LatestOnRecord'
    BY <1>4 DEF LatestOnRecord
  <2>2. \A w \in Attempt : w > attempts' => Unborn(w)'
    BY <1>2 DEF Inv, LifeInv, Unborn, worker, Attempt, TypeOK
  <2>3. \A w \in Attempt : found'[w] \subseteq Out(w)'
    BY DEF Inv, LifeInv, Out, worker
  <2>4. record' # NoRecord => Covers(record)'
    BY DEF Inv, LifeInv, Covers, worker
  <2> QED
    BY <1>4, <2>1, <2>2, <2>3, <2>4 DEF LifeInv
<1>6. Knows(a)'
  BY <1>1, <1>2, <1>3 DEF Knows, Covers
<1> QED
  BY <1>1, <1>2, <1>3, <1>4, <1>5, <1>6 DEF AdapterInv

LEMMA StartBarsStep ==
  ASSUME TypeOK, Inv, NEW a \in Adapter, StartBars(a) PROVE Inv'
<1>1. /\ record = NoRecord /\ receipt = "none" /\ bar' /\ registrations = 0
      /\ lock = a /\ lock' = a /\ mem[a] = NoRecord
  BY Holds DEF StartBars, MayStart, At, Inv, StartInv, AdapterInv, TypeOK
<1>2. StartInv'
  BY <1>1 DEF Inv, StartInv, RegisteredOnce, NeverUnidentified, StartBars
<1>3. CASE Mint(a, FALSE) /\ Goto(a, "minted")
  <2>1. LifeInv' /\ AdapterInv(a)'
    BY <1>1, <1>3, NobodyWithout, MintKnows DEF StartBars, Goto
  <2>2. \A b \in Adapter : b # a => pc'[b] = pc[b] /\ mem'[b] = mem[b]
    BY <1>3 DEF Goto, Mint, TypeOK
  <2> QED
    BY <1>1, <1>2, <2>1, <2>2, Acts
<1>4. CASE Goto(a, "failed") /\ UNCHANGED <<mem, attempts>>
  <2>1. LifeInv'
    BY <1>4, QuietStep DEF StartBars
  <2>2. pc'[a] = "failed" /\ \A b \in Adapter : b # a => pc'[b] = pc[b]
    BY <1>4 DEF Goto, TypeOK
  <2>3. AdapterInv(a)'
    BY <1>1, <1>4, <2>2 DEF AdapterInv
  <2> QED
    BY <1>1, <1>2, <1>4, <2>1, <2>2, <2>3, Acts
<1> QED
  BY <1>3, <1>4 DEF StartBars

LEMMA ResumeStep ==
  ASSUME TypeOK, Inv, NEW a \in Adapter, ResumeAdmits(a) PROVE Inv'
<1>1. /\ lock = a /\ lock' = a /\ record # NoRecord /\ record \in Record
      /\ ~record.overflow
  BY Holds DEF ResumeAdmits, Identified, At, TypeOK
<1>2. ~Lives(record.attempt) /\ record.attempt \in Attempt
  BY <1>1 DEF ResumeAdmits, Gone, Lives, Record
<1>3. \A v \in Attempt : ~Lives(v)
  BY <1>2 DEF Inv, LifeInv, LatestOnRecord
<1>4. Quiet(record.attempt)
  <2>1. Covers(record)
    BY <1>1 DEF Inv, LifeInv
  <2> QED
    BY <1>1, <2>1 DEF ResumeAdmits, Gone, Quiet, Covers
<1>5. \A v \in Attempt : Quiet(v)
  BY <1>4 DEF Inv, LifeInv
<1>6. LifeInv' /\ AdapterInv(a)'
  BY <1>1, <1>3, <1>5, MintKnows DEF ResumeAdmits, Goto
<1>7. StartInv'
  BY DEF Inv, StartInv, RegisteredOnce, NeverUnidentified, ResumeAdmits, disk
<1>8. \A b \in Adapter : b # a => pc'[b] = pc[b] /\ mem'[b] = mem[b]
  BY DEF ResumeAdmits, Goto, Mint, TypeOK
<1> QED
  BY <1>1, <1>6, <1>7, <1>8, Acts

(* The record of an attempt that has no worker is published, or nothing.   *)
LEMMA PublishIntentStep ==
  ASSUME TypeOK, Inv, NEW a \in Adapter, PublishIntent(a) PROVE Inv'
<1>1. /\ lock = a /\ lock' = a /\ mem[a] \in Record /\ mem[a] # NoRecord
      /\ Knows(a)
      /\ \A w \in Attempt : ~Lives(w) /\ Quiet(w)
      /\ \A b \in Adapter : b # a => pc'[b] = pc[b] /\ mem'[b] = mem[b]
  BY Holds DEF PublishIntent, Goto, Forget, At, TypeOK, Inv, AdapterInv
<1>2. CASE record' = mem[a]
  <2>1. LifeInv'
    <3>1. Ages
      BY Still DEF PublishIntent
    <3> QED
      BY <1>1, <1>2, <3>1, LifePublish DEF PublishIntent, Knows, Inv
  <2>2. StartInv'
    BY <1>1, <1>2 DEF Inv, StartInv, RegisteredOnce, NeverUnidentified, Knows,
                      PublishIntent, disk
  <2>3. CASE Goto(a, "intent") /\ UNCHANGED mem
    <3>1. pc'[a] = "intent" /\ pc[a] = "minted"
      BY <2>3 DEF Goto, TypeOK, PublishIntent, At
    <3>2. Knows(a)'
      BY <1>1, <1>2, <2>3 DEF Knows, Out, Covers, PublishIntent, disk, worker
    <3>3. \A w \in Attempt : ~Lives(w)'
      BY <1>1 DEF PublishIntent, worker, Lives
    <3>4. AdapterInv(a)
      BY DEF Inv
    <3>5. AdapterInv(a)'
      BY <1>1, <2>3, <3>1, <3>2, <3>3, <3>4 DEF AdapterInv, PublishIntent
    <3> QED
      BY <1>1, <2>1, <2>2, <3>5, Acts
  <2>4. CASE Goto(a, "failed") /\ Forget(a)
    <3>1. AdapterInv(a)'
      BY <1>1, <2>4 DEF AdapterInv, Goto, Forget, TypeOK
    <3> QED
      BY <1>1, <2>1, <2>2, <3>1, Acts
  <2> QED
    BY <2>3, <2>4 DEF PublishIntent
<1>3. CASE record' = record /\ Goto(a, "failed") /\ Forget(a)
  <2>1. LifeInv'
    BY <1>3, QuietStep DEF PublishIntent
  <2>2. StartInv'
    BY <1>3 DEF Inv, StartInv, RegisteredOnce, NeverUnidentified, PublishIntent, disk
  <2>3. AdapterInv(a)'
    BY <1>1, <1>3 DEF AdapterInv, Goto, Forget, TypeOK
  <2> QED
    BY <1>1, <2>1, <2>2, <2>3, Acts
<1> QED
  BY <1>2, <1>3 DEF PublishIntent, MayPublish

LEMMA StartChildStep ==
  ASSUME TypeOK, Inv, NEW a \in Adapter, StartChild(a) PROVE Inv'
<1> DEFINE w == mem[a].attempt
<1>1. /\ lock = a /\ lock' = a /\ mem[a] \in Record /\ mem[a] # NoRecord
      /\ Knows(a) /\ AdapterInv(a) /\ pc[a] = "intent"
      /\ \A v \in Attempt : ~Lives(v)
      /\ \A b \in Adapter : b # a => pc'[b] = pc[b] /\ mem'[b] = mem[b]
  BY Holds DEF StartChild, Goto, Forget, At, TypeOK, Inv, AdapterInv
<1>2. w = attempts /\ w \in Attempt /\ record # NoRecord /\ record.attempt = w
  BY <1>1 DEF Knows, Record
<1>3. StartInv'
  BY DEF Inv, StartInv, RegisteredOnce, NeverUnidentified, StartChild, disk
<1>4. CASE /\ leader' = [leader EXCEPT ![w] = "alive"]
           /\ Goto(a, "child") /\ UNCHANGED mem
  <2>1. /\ \A v \in Attempt : v # w => leader'[v] = leader[v]
        /\ UNCHANGED <<child, record, attempts, found>>
    BY <1>2, <1>4 DEF TypeOK, StartChild
  <2>2. LatestOnRecord'
    BY <1>1, <1>2, <2>1 DEF LatestOnRecord, Lives
  <2>3. \A v \in Attempt : v > attempts => Unborn(v)'
    BY <1>2, <2>1 DEF Inv, LifeInv, Unborn, Attempt
  <2>4. /\ \A v \in Attempt : found'[v] \subseteq Out(v)'
        /\ record # NoRecord => Covers(record)'
        /\ \A v \in Attempt : v # record.attempt => Quiet(v)'
    BY <2>1 DEF Inv, LifeInv, Out, Covers, Quiet
  <2>5. LifeInv'
    BY <2>1, <2>2, <2>3, <2>4 DEF LifeInv
  <2>6. pc'[a] = "child" /\ mem' = mem
    BY <1>4 DEF Goto, TypeOK
  <2>7. Knows(a)'
    BY <1>1, <1>2, <2>1, <2>6 DEF Knows, Out, Covers, StartChild, disk
  <2>8. AdapterInv(a)'
    BY <1>1, <2>1, <2>6, <2>7 DEF AdapterInv, StartChild
  <2> QED
    BY <1>1, <1>3, <2>5, <2>8, Acts
<1>5. CASE Goto(a, "failed") /\ Forget(a) /\ UNCHANGED leader
  <2>1. LifeInv'
    BY <1>5, QuietStep DEF StartChild, worker
  <2>2. AdapterInv(a)'
    BY <1>1, <1>5 DEF AdapterInv, Goto, Forget, TypeOK
  <2> QED
    BY <1>1, <1>3, <2>1, <2>2, Acts
<1> QED
  BY <1>4, <1>5 DEF StartChild

LEMMA RecordChildStep ==
  ASSUME TypeOK, Inv, NEW a \in Adapter, RecordChild(a) PROVE Inv'
<1> DEFINE m == mem[a]
           s == Spawned(mem[a])
<1>1. /\ lock = a /\ lock' = a /\ m \in Record /\ m # NoRecord
      /\ Knows(a) /\ AdapterInv(a) /\ pc[a] = "child"
      /\ \A b \in Adapter : b # a => pc'[b] = pc[b] /\ mem'[b] = mem[b]
  BY Holds DEF RecordChild, Goto, Forget, At, TypeOK, Inv, AdapterInv
<1>2. /\ m.attempt = attempts /\ attempts \in Attempt
      /\ record # NoRecord /\ record.attempt = attempts
  BY <1>1 DEF Knows, Record
<1>3. /\ s \in Record /\ s # NoRecord
      /\ s.attempt = m.attempt /\ s.named = m.named /\ s.alive = m.alive
      /\ s.overflow = m.overflow
  <2>1. s \in Record
    BY <1>1, Retyped
  <2>2. s # NoRecord
    BY <2>1 DEF Record, NoRecord
  <2> QED
    BY <1>1, <2>1, <2>2, Retyped
<1>4. Covers(s)
  BY <1>1, <1>3 DEF Knows, Covers
<1>5. CASE /\ record' = s /\ mem' = [mem EXCEPT ![a] = s]
           /\ Goto(a, "spawned") /\ UNCHANGED worker
  <2>1. Ages
    BY <1>5, Still
  <2>2. LifeInv'
    BY <1>2, <1>3, <1>4, <1>5, <2>1, LifePublish DEF RecordChild, Inv
  <2>3. StartInv'
    BY <1>1, <1>3, <1>5 DEF Inv, StartInv, RegisteredOnce, NeverUnidentified, Knows,
                            RecordChild, disk
  <2>4. pc'[a] = "spawned" /\ mem'[a] = s
    BY <1>5 DEF Goto, TypeOK
  <2>5. Knows(a)'
    BY <1>1, <1>2, <1>3, <1>4, <1>5, <2>4
       DEF Knows, Out, Covers, RecordChild, disk, worker
  <2>6. AdapterInv(a)'
    BY <1>1, <1>3, <2>4, <2>5 DEF AdapterInv, RecordChild
  <2> QED
    BY <1>1, <2>2, <2>3, <2>6, Acts
<1>6. CASE /\ MayPublish(s) /\ EndGroup(m.attempt)
           /\ Forget(a) /\ Goto(a, "failed")
  <2>1. Ages
    BY <1>2, <1>6, EndGroupAges DEF Attempt
  <2>2. UNCHANGED <<attempts, found, lock, disk, registrations>>
    BY DEF RecordChild
  <2>3. AdapterInv(a)'
    BY <1>1, <1>6 DEF AdapterInv, Goto, Forget, TypeOK
  <2>4. CASE record' = record
    <3>1. LifeInv'
      BY <2>1, <2>2, <2>4, LifeFrame DEF Inv
    <3>2. StartInv'
      BY <2>2, <2>4 DEF Inv, StartInv, RegisteredOnce, NeverUnidentified, disk
    <3> QED
      BY <1>1, <2>3, <3>1, <3>2, Acts
  <2>5. CASE record' = s
    <3>1. LifeInv'
      BY <1>2, <1>3, <1>4, <2>1, <2>2, <2>5, LifePublish DEF Inv
    <3>2. StartInv'
      BY <1>1, <1>3, <2>2, <2>5
         DEF Inv, StartInv, RegisteredOnce, NeverUnidentified, Knows, disk
    <3> QED
      BY <1>1, <2>3, <3>1, <3>2, Acts
  <2> QED
    BY <1>6, <2>4, <2>5 DEF MayPublish
<1> QED
  BY <1>5, <1>6 DEF RecordChild

(* What the adapter knows after a close, whether it goes on or has failed. *)
WithWorker == {"spawned", "begun", "published", "named", "unbarred", "running",
               "failed"}

LEMMA ClosesKnown ==
  ASSUME TypeOK, Inv, NEW a \in Adapter, Closes(a), lock' = a,
         attempts' = attempts,
         mem[a] # NoRecord => mem[a].named \/ bar',
         \/ pc'[a] \in {"failed", "closing"}
         \/ /\ pc'[a] = pc[a] /\ pc[a] \in WithWorker
            /\ UNCHANGED <<bar, registrations>>
  PROVE  AdapterInv(a)'
<1>1. AdapterInv(a)
  BY DEF Inv
<1>2. CASE mem[a] = NoRecord
  BY <1>1, <1>2 DEF Closes, AdapterInv, WithWorker
<1>3. CASE mem[a] # NoRecord
  <2>1. mem[a].attempt = attempts /\ mem[a].attempt \in Attempt
    BY <1>1, <1>3 DEF AdapterInv, Knows, TypeOK, Record
  <2>2. mem'[a] # NoRecord
    BY <1>3, <2>1 DEF Closes, NoRecord, Attempt
  <2>3. Knows(a)'
    BY <1>3, <2>1 DEF Closes, Knows
  <2>4. CASE pc'[a] \in {"failed", "closing"}
    BY <2>3, <2>4 DEF AdapterInv
  <2>5. CASE /\ pc'[a] = pc[a] /\ pc[a] \in WithWorker
             /\ UNCHANGED <<bar, registrations>>
    <3>1. pc[a] = "named" => record'.named
      BY <1>1, <2>5 DEF AdapterInv, Closes
    <3> QED
      BY <1>1, <1>3, <2>2, <2>3, <2>5, <3>1 DEF AdapterInv, Closes, WithWorker
  <2> QED
    BY <2>4, <2>5
<1> QED
  BY <1>2, <1>3

(* A close keeps a begun session on record, and named. *)
LEMMA ClosesStarted ==
  ASSUME TypeOK, Inv, NEW a \in Adapter, Closes(a), pc[a] # "minted",
         UNCHANGED <<bar, receipt, registrations>>
  PROVE  StartInv'
<1>1. mem[a] # NoRecord => mem[a].named \/ bar
  BY DEF Inv, AdapterInv, Knows
<1> QED
  BY <1>1 DEF Inv, StartInv, Closes, RegisteredOnce, NeverUnidentified

LEMMA FailsStep ==
  ASSUME TypeOK, Inv, NEW a \in Adapter,
         \/ LaunchFails(a) \/ BeginFails(a) \/ ReceiptFails(a) \/ BindFails(a)
         \/ UnbarFails(a)
  PROVE  Inv'
<1>1. /\ Fails(a)
      /\ pc[a] \in {"spawned", "begun", "published", "named"}
      /\ bar' = bar \/ (bar' \in BOOLEAN /\ pc[a] = "named")
  BY DEF LaunchFails, BeginFails, ReceiptFails, BindFails, UnbarFails, At, disk
<1>2. /\ lock = a /\ lock' = a /\ attempts' = attempts
      /\ mem[a] # NoRecord /\ Knows(a) /\ AdapterInv(a)
      /\ pc'[a] = "failed"
      /\ \A b \in Adapter : b # a => pc'[b] = pc[b]
  BY <1>1, Holds DEF Fails, Goto, TypeOK, Inv, AdapterInv
<1>3. LifeInv' /\ Closes(a)
  BY <1>1, <1>2, CloseCloses DEF Fails, Inv
<1>4. mem[a].named \/ bar'
  BY <1>1, <1>2 DEF Knows, AdapterInv
<1>5. AdapterInv(a)'
  BY <1>2, <1>3, <1>4, ClosesKnown
<1>6. StartInv'
  <2>1. CASE LaunchFails(a) \/ BindFails(a)
    BY <1>1, <1>3, <2>1, ClosesStarted DEF LaunchFails, BindFails, disk
  <2>2. CASE BeginFails(a)
    <3>1. /\ registrations = 0 /\ registrations' \in {0, 1}
          /\ UNCHANGED <<bar, receipt>>
      BY <1>2, <2>2 DEF BeginFails, At, AdapterInv, disk
    <3>2. record # NoRecord
      BY <1>1, <1>2 DEF Knows
    <3>3. record' # NoRecord
      BY <1>3, <3>2 DEF Closes
    <3>4. NeverUnidentified'
      BY <1>2, <1>3, <3>1, <3>3
         DEF Closes, Inv, StartInv, NeverUnidentified, Knows
    <3> QED
      BY <3>1, <3>3, <3>4 DEF StartInv, RegisteredOnce
  <2>3. CASE ReceiptFails(a)
    <3>1. bar' /\ registrations' = registrations
      BY <1>2, <2>3 DEF ReceiptFails, At, AdapterInv
    <3> QED
      BY <1>3, <3>1 DEF Inv, StartInv, Closes, RegisteredOnce, NeverUnidentified
  <2>4. CASE UnbarFails(a)
    <3>1. /\ mem[a].named /\ record.named
          /\ UNCHANGED <<receipt, registrations>>
      BY <1>2, <2>4 DEF UnbarFails, At, AdapterInv
    <3>2. record # NoRecord
      BY <1>1, <1>2 DEF Knows
    <3>3. record' # NoRecord /\ record'.named
      BY <1>3, <3>1, <3>2 DEF Closes
    <3> QED
      BY <3>1, <3>3 DEF Inv, StartInv, RegisteredOnce, NeverUnidentified
  <2> QED
    BY <2>1, <2>2, <2>3, <2>4
<1> QED
  BY <1>2, <1>3, <1>5, <1>6, Acts DEF Closes

LEMMA CloserStep ==
  ASSUME TypeOK, Inv, NEW a \in Adapter, Reap(a) \/ Close(a) PROVE Inv'
<1>1. /\ CloseWorker(a)
      /\ UNCHANGED <<lock, bar, receipt, journal, attempts, registrations>>
      /\ pc[a] \in WithWorker \/ pc[a] = "open"
  BY DEF Reap, Close, disk, WithWorker
<1>2. lock = a /\ AdapterInv(a) /\ (mem[a] # NoRecord => Knows(a))
  BY <1>1, Holds DEF Inv, AdapterInv, WithWorker
<1>3. pc'[a] = "closing" \/ (pc'[a] = pc[a] /\ pc[a] \in WithWorker)
  BY DEF Reap, Close, Goto, TypeOK, WithWorker
<1>4. \A b \in Adapter : b # a => pc'[b] = pc[b]
  BY DEF Reap, Close, Goto, TypeOK
<1>5. pc[a] # "minted"
  BY <1>1 DEF WithWorker
<1>6. LifeInv' /\ Closes(a)
  BY <1>1, <1>2, <1>5, CloseCloses DEF Inv
<1>7. AdapterInv(a)'
  BY <1>1, <1>2, <1>3, <1>6, ClosesKnown DEF Knows
<1>8. StartInv'
  BY <1>1, <1>5, <1>6, ClosesStarted
<1> QED
  BY <1>1, <1>2, <1>4, <1>6, <1>7, <1>8, Acts DEF Closes

LEMMA SampleStep ==
  ASSUME TypeOK, Inv, NEW a \in Adapter, Sample(a) PROVE Inv'
<1>1. /\ Scan(a, FALSE) /\ mem[a] # NoRecord /\ pc[a] \in WithWorker
      /\ UNCHANGED <<pc, lock, bar, receipt, journal, attempts, worker, registrations>>
  BY DEF Sample, disk, WithWorker
<1>2. lock = a /\ Knows(a)
  BY <1>1, Holds DEF Inv, AdapterInv, WithWorker
<1>3. PICK n \in Record : ScanResult(a, n)
  BY <1>1, ScanStep
<1>4. Ages
  BY <1>1, Still
<1>5. pc[a] # "minted"
  BY <1>1 DEF WithWorker
<1>6. LifeInv' /\ Closes(a)
  BY <1>1, <1>2, <1>3, <1>4, <1>5, ScanCloses DEF Inv
<1>7. AdapterInv(a)'
  BY <1>1, <1>2, <1>6, ClosesKnown DEF Knows
<1>8. StartInv'
  BY <1>1, <1>5, <1>6, ClosesStarted
<1> QED
  BY <1>1, <1>2, <1>6, <1>7, <1>8, Acts DEF Closes

-----------------------------------------------------------------------------
(* The steps of Start between the spawn and the first row. *)
LEMMA SameKnown ==
  ASSUME TypeOK, NEW a \in Adapter, Knows(a), pc[a] # "minted",
         UNCHANGED <<record, attempts, worker, found>>,
         mem'[a] = mem[a], mem[a].named \/ bar'
  PROVE  Knows(a)'
BY DEF Knows, Out, Covers, worker

LEMMA BeginStep ==
  ASSUME TypeOK, Inv, NEW a \in Adapter, Begin(a) PROVE Inv'
<1>1. /\ lock = a /\ lock' = a /\ mem' = mem /\ mem[a] # NoRecord
      /\ pc[a] = "spawned" /\ pc'[a] = "begun"
      /\ Knows(a) /\ AdapterInv(a) /\ ~mem[a].named
      /\ \A b \in Adapter : b # a => pc'[b] = pc[b]
      /\ UNCHANGED <<bar, receipt, record, attempts, worker, found>>
  BY Holds DEF Begin, Goto, At, TypeOK, Inv, AdapterInv, disk
<1>2. LifeInv'
  BY <1>1, QuietStep
<1>3. registrations' = 1 /\ record # NoRecord
  BY <1>1 DEF AdapterInv, Begin, Knows
<1>4. StartInv'
  BY <1>1, <1>3 DEF Inv, StartInv, RegisteredOnce, NeverUnidentified
<1>5. Knows(a)'
  BY <1>1, SameKnown DEF Knows
<1>6. AdapterInv(a)'
  BY <1>1, <1>5 DEF AdapterInv, Knows
<1> QED
  BY <1>1, <1>2, <1>4, <1>6, Acts

LEMMA ReceiptStep ==
  ASSUME TypeOK, Inv, NEW a \in Adapter, PublishReceipt(a) PROVE Inv'
<1>1. /\ lock = a /\ lock' = a /\ mem' = mem /\ mem[a] # NoRecord
      /\ pc[a] = "begun" /\ pc'[a] = "published"
      /\ Knows(a) /\ AdapterInv(a) /\ bar
      /\ \A b \in Adapter : b # a => pc'[b] = pc[b]
      /\ UNCHANGED <<bar, record, attempts, worker, found, registrations>>
  BY Holds DEF PublishReceipt, Goto, At, TypeOK, Inv, AdapterInv
<1>2. LifeInv'
  BY <1>1, QuietStep
<1>3. StartInv'
  BY <1>1 DEF Inv, StartInv, RegisteredOnce, NeverUnidentified
<1>4. Knows(a)'
  BY <1>1, SameKnown
<1>5. AdapterInv(a)'
  BY <1>1, <1>4 DEF AdapterInv
<1> QED
  BY <1>1, <1>2, <1>3, <1>5, Acts

LEMMA UnbarStep ==
  ASSUME TypeOK, Inv, NEW a \in Adapter, Unbar(a) PROVE Inv'
<1>1. /\ lock = a /\ lock' = a /\ mem' = mem /\ mem[a] # NoRecord
      /\ pc[a] = "named" /\ pc'[a] = "unbarred"
      /\ Knows(a) /\ AdapterInv(a) /\ mem[a].named /\ record.named
      /\ record # NoRecord
      /\ \A b \in Adapter : b # a => pc'[b] = pc[b]
      /\ UNCHANGED <<receipt, record, attempts, worker, found, registrations>>
  BY Holds DEF Unbar, Goto, At, TypeOK, Inv, AdapterInv, Knows
<1>2. LifeInv'
  BY <1>1, QuietStep
<1>3. StartInv'
  BY <1>1 DEF Inv, StartInv, RegisteredOnce, NeverUnidentified
<1>4. Knows(a)'
  BY <1>1, SameKnown
<1>5. AdapterInv(a)'
  BY <1>1, <1>4 DEF AdapterInv
<1> QED
  BY <1>1, <1>2, <1>3, <1>5, Acts

LEMMA BoundStep ==
  ASSUME TypeOK, Inv, NEW a \in Adapter, PersistBound(a) PROVE Inv'
<1>1. /\ lock = a /\ lock' = a /\ mem' = mem /\ mem[a] # NoRecord
      /\ pc[a] # "minted" /\ pc'[a] \in {"running", "failed"}
      /\ Knows(a) /\ AdapterInv(a)
      /\ \A b \in Adapter : b # a => pc'[b] = pc[b]
      /\ UNCHANGED <<bar, receipt, record, attempts, worker, found, registrations>>
  BY Holds DEF PersistBound, Goto, At, TypeOK, Inv, AdapterInv
<1>2. LifeInv'
  BY <1>1, QuietStep
<1>3. StartInv'
  BY <1>1 DEF Inv, StartInv, RegisteredOnce, NeverUnidentified
<1>4. Knows(a)'
  BY <1>1, SameKnown DEF Knows
<1>5. AdapterInv(a)'
  BY <1>1, <1>4 DEF AdapterInv
<1> QED
  BY <1>1, <1>2, <1>3, <1>5, Acts

LEMMA BindStep ==
  ASSUME TypeOK, Inv, NEW a \in Adapter, Bind(a) PROVE Inv'
<1> DEFINE m == mem[a]
           s == Named(mem[a])
<1>1. /\ lock = a /\ lock' = a /\ m \in Record /\ m # NoRecord
      /\ pc[a] = "published" /\ pc'[a] = "named"
      /\ Knows(a) /\ AdapterInv(a)
      /\ \A b \in Adapter : b # a => pc'[b] = pc[b] /\ mem'[b] = mem[b]
      /\ record' = s /\ mem'[a] = s
      /\ UNCHANGED <<bar, receipt, attempts, worker, found, registrations>>
  <2>1. /\ lock = a /\ lock' = a /\ m \in Record /\ m # NoRecord
        /\ pc[a] = "published" /\ Knows(a) /\ AdapterInv(a)
    BY Holds DEF Bind, At, TypeOK, Inv, AdapterInv
  <2>2. /\ pc'[a] = "named" /\ mem'[a] = s
        /\ \A b \in Adapter : b # a => pc'[b] = pc[b] /\ mem'[b] = mem[b]
    BY DEF Bind, Goto, TypeOK
  <2> QED
    BY <2>1, <2>2 DEF Bind, disk
<1>2. /\ s \in Record /\ s.attempt = m.attempt /\ s.named
      /\ s.alive = m.alive /\ s.overflow = m.overflow
  BY <1>1, Retyped
<1>3. s # NoRecord
  BY <1>2 DEF Record, NoRecord
<1>4. /\ m.attempt = attempts /\ attempts \in Attempt
      /\ record # NoRecord /\ record.attempt = attempts
  BY <1>1 DEF Knows, Record
<1>5. Covers(s)
  BY <1>1, <1>2 DEF Knows, Covers
<1>6. LifeInv'
  <2>1. Ages
    BY <1>1, Still
  <2> QED
    BY <1>1, <1>2, <1>4, <1>5, <2>1, LifePublish DEF Inv
<1>7. StartInv'
  BY <1>1, <1>2, <1>3 DEF Inv, StartInv, RegisteredOnce, NeverUnidentified
<1>8. Knows(a)'
  BY <1>1, <1>2, <1>3, <1>4, <1>5 DEF Knows, Out, Covers, worker
<1>9. AdapterInv(a)'
  BY <1>1, <1>2, <1>3, <1>8 DEF AdapterInv
<1> QED
  BY <1>1, <1>6, <1>7, <1>9, Acts

LEMMA WorkerStep ==
  ASSUME TypeOK, Inv, WorkerMoves PROVE Inv'
<1>1. Ages
  BY WorkerAges
<1>2. UNCHANGED <<pc, lock, bar, receipt, journal, record, mem, attempts, found,
                  registrations>>
  BY DEF WorkerMoves, disk
<1>3. LifeInv'
  BY <1>1, <1>2, LifeFrame DEF Inv
<1>4. StartInv'
  BY <1>2 DEF Inv, StartInv, RegisteredOnce, NeverUnidentified
<1>5. ASSUME NEW a \in Adapter PROVE AdapterInv(a)'
  <2>1. AdapterInv(a)
    BY DEF Inv
  <2>2. mem[a] # NoRecord => mem[a].attempt \in Attempt
    BY DEF TypeOK, Record
  <2>3. ASSUME mem[a] # NoRecord, Knows(a) PROVE Knows(a)'
    <3>1. attempts \in Attempt
      BY <2>2, <2>3 DEF Knows
    <3>2. mem[a].alive \subseteq Out(attempts)'
      BY <1>1, <1>2, <2>3, <3>1 DEF Knows, Ages
    <3>3. found[attempts] \subseteq Out(attempts)
      BY <3>1 DEF Inv, LifeInv
    <3>4. Covers(mem[a])'
      BY <1>1, <1>2, <2>3, <3>1, <3>3 DEF Knows, Covers, Ages
    <3> QED
      BY <1>2, <2>3, <3>2, <3>4 DEF Knows
  <2>4. \A w \in Attempt : ~Lives(w) => ~Lives(w)'
    BY <1>1 DEF Ages
  <2>5. \A w \in Attempt : Quiet(w) => Quiet(w)'
    BY <1>1, <1>2 DEF Inv, LifeInv, Quiet, Ages
  <2> QED
    BY <1>2, <2>1, <2>3, <2>4, <2>5 DEF AdapterInv
<1> QED
  BY <1>3, <1>4, <1>5 DEF Inv

LEMMA InvStep == IInv /\ [Next]_vars => Inv'
<1> SUFFICES ASSUME TypeOK, Inv, [Next]_vars PROVE Inv'
  BY DEF IInv
<1>1. CASE UNCHANGED vars
  BY <1>1 DEF vars, disk, worker, Inv, LifeInv, LatestOnRecord, Lives, Unborn, Out,
              Covers, Quiet, StartInv, RegisteredOnce, NeverUnidentified, AdapterInv,
              Knows
<1>2. CASE WorkerMoves
  BY <1>2, WorkerStep
<1>3. ASSUME NEW a \in Adapter,
             \/ Open(a) \/ StartBars(a) \/ ResumeAdmits(a)
             \/ Refused(a) \/ PublishIntent(a) \/ StartChild(a) \/ RecordChild(a)
      PROVE  Inv'
  BY <1>3, OpenStep, StartBarsStep, ResumeStep, RefusedStep, PublishIntentStep,
     StartChildStep, RecordChildStep
<1>4. ASSUME NEW a \in Adapter,
             \/ LaunchFails(a) \/ BeginFails(a) \/ ReceiptFails(a) \/ BindFails(a)
             \/ UnbarFails(a)
      PROVE  Inv'
  BY <1>4, FailsStep
<1>5. ASSUME NEW a \in Adapter,
             \/ Begin(a) \/ PublishReceipt(a) \/ Bind(a) \/ Unbar(a) \/ PersistBound(a)
      PROVE  Inv'
  BY <1>5, BeginStep, ReceiptStep, BindStep, UnbarStep, BoundStep
<1>6. ASSUME NEW a \in Adapter,
             Sample(a) \/ Reap(a) \/ Close(a) \/ Release(a) \/ Dies(a)
      PROVE  Inv'
  BY <1>6, SampleStep, CloserStep, ReleaseStep, DiesStep
<1> QED
  BY <1>1, <1>2, <1>3, <1>4, <1>5, <1>6 DEF Next

-----------------------------------------------------------------------------
LEMMA Inductive == Spec => []IInv
<1>1. Init => IInv
  BY TypeInit, InvInit DEF IInv
<1>2. IInv /\ [Next]_vars => IInv'
  BY TypeStep, InvStep DEF IInv
<1> QED
  BY <1>1, <1>2, PTL DEF Spec

(* Every reachable state has the declared types: no adapter's record names *)
(* more descendants than a record has room for.                            *)
THEOREM OwnershipTypes == Spec => []TypeOK
BY Inductive, PTL DEF IInv

(* A live worker is always the one the ownership record on disk is about,  *)
(* so an admission that reads it never misses an earlier attempt.          *)
THEOREM LatestAttemptOnRecord == Spec => []LatestOnRecord
<1>1. IInv => LatestOnRecord
  BY DEF IInv, Inv, LifeInv
<1> QED
  BY <1>1, Inductive, PTL

(* Two workers of one receipt never live together, however many adapters   *)
(* start, resume and die, and however many processes the workers fork.     *)
THEOREM OneWorkerLives == Spec => []OneWorker
<1>1. IInv => OneWorker
  BY DEF IInv, Inv, LifeInv, LatestOnRecord, OneWorker
<1> QED
  BY <1>1, Inductive, PTL

(* The ledger is asked to begin the session at most once. *)
THEOREM BegunOnce == Spec => []RegisteredOnce
<1>1. IInv => RegisteredOnce
  BY DEF IInv, Inv, StartInv
<1> QED
  BY <1>1, Inductive, PTL

(* Whenever an adapter dies, a receipt without its start intent has an     *)
(* ownership record that holds the identity.                               *)
THEOREM RecordsAreIdentified == Spec => []NeverUnidentified
<1>1. IInv => NeverUnidentified
  BY DEF IInv, Inv, StartInv
<1> QED
  BY <1>1, Inductive, PTL

(* An escaped child that a scan on record had seen is gone before another  *)
(* attempt's worker lives.                                                 *)
THEOREM FoundEscapeesAreGone == Spec => []FoundAreGone
<1>1. IInv => FoundAreGone
  BY DEF IInv, Inv, LifeInv, LatestOnRecord, FoundAreGone, Quiet
<1> QED
  BY <1>1, Inductive, PTL

(* A worker has neither another nor an escaped child of another beside it. *)
THEOREM WorkersStayAlone == Spec => []WorkersAreAlone
<1>1. OneWorker /\ FoundAreGone => WorkersAreAlone
  BY DEF WorkersAreAlone
<1> QED
  BY <1>1, OneWorkerLives, FoundEscapeesAreGone, PTL

(* The record, the start intent and the receipt agree on the last worker.  *)
THEOREM FilesStayTrue == Spec => []FilesAreTrue
<1>1. LatestOnRecord /\ RegisteredOnce /\ NeverUnidentified => FilesAreTrue
  BY DEF FilesAreTrue
<1> QED
  BY <1>1, LatestAttemptOnRecord, BegunOnce, RecordsAreIdentified, PTL
=============================================================================
