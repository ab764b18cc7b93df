-------------------------- MODULE DescendantsProofs --------------------------
(***************************************************************************)
(* Proofs about Descendants.  A row says who the parent was when it was    *)
(* read.  As long as the parent's pid is held by a process that started no *)
(* later than the child, that process is the parent: its successors start  *)
(* after the tick the parent ended in.  And what the record names is       *)
(* living, or will never be again.                                         *)
(***************************************************************************)
EXTENDS Descendants, FiniteSetTheorems, TLAPS

-----------------------------------------------------------------------------
Types ==
  /\ clock \in Time
  /\ proc \in [Pid -> Process \cup {Nobody}]
  /\ freeFrom \in [Pid -> 0 .. MaxTime + 1]
  /\ table \in [Pid -> Process \cup {Nobody}]
  /\ kin \subseteq Identity
  /\ check \subseteq Identity
  /\ visit \subseteq Pid
  /\ next \subseteq Identity
  /\ alive \subseteq Identity

(* What an identity may come to: it is over, and its pid is a later one's. *)
Over(e) ==
  \/ IsThere(proc, e.pid) /\ proc[e.pid].start > e.start
  \/ ~IsThere(proc, e.pid) /\ freeFrom[e.pid] > e.start

Was(e) == Living(e) \/ Over(e)

(* Processes and their parents. *)
ProcInv ==
  /\ IsThere(proc, Leader) /\ proc[Leader].start = 0
  /\ [pid |-> Leader, start |-> 0] \in kin
  /\ \A q \in Pid : IsThere(proc, q) =>
       /\ proc[q].start <= clock
       /\ proc[q].parent \in Pid =>
            /\ IsThere(proc, proc[q].parent)
            /\ proc[proc[q].parent].start <= proc[q].start
            /\ Of(proc, proc[q].parent) \in kin => Of(proc, q) \in kin

(* The parent a row names, as far as it can still be found. *)
SaysParent(c) ==
  LET p == table[c].parent IN
  p \in Pid =>
    IF IsThere(proc, p)
    THEN proc[p].start <= table[c].start =>
           (Of(proc, p) \in kin => Of(table, c) \in kin)
    ELSE freeFrom[p] > table[c].start

RowInv ==
  \A c \in Pid : IsThere(table, c) =>
    /\ table[c].start <= clock
    /\ Was(Of(table, c))
    /\ SaysParent(c)
    /\ c = Leader => table[c].start = 0

Unique(R) == \A d, e \in R : d.pid = e.pid => d = e

RecordInv ==
  /\ next \cup alive \subseteq kin
  /\ \A e \in next \cup alive : e.start <= clock /\ Was(e)
  /\ Unique(next) /\ Unique(alive)
  /\ check \subseteq alive
  /\ phase \in {"idle", "check"} => next \subseteq alive
  /\ phase # "idle" => \A e \in alive : e \in check \/ e \in next \/ ~Living(e)
  /\ phase \in {"read", "walk"} => check = {}
  /\ phase # "walk" => visit = {}
  /\ \A p \in visit : IsThere(table, p) /\ Of(table, p) \in kin

DInv == Types /\ ProcInv /\ RowInv /\ RecordInv

-----------------------------------------------------------------------------
LEMMA DInit == Init => DInv
<1> SUFFICES ASSUME Init PROVE DInv
  OBVIOUS
<1>1. [start |-> 0, parent |-> Init1, inGroup |-> TRUE] \in Process
  BY BoundAssumption DEF Process, Time
<1>2. Types
  BY <1>1, BoundAssumption, LeaderAssumption
     DEF Init, Types, NoTable, Of, Identity, Time, Process
<1>3. /\ IsThere(proc, Leader) /\ proc[Leader].start = 0
      /\ proc[Leader].parent = Init1
      /\ \A q \in Pid : q # Leader => ~IsThere(proc, q)
  BY <1>1, LeaderAssumption, NobodyAssumption DEF Init, NoTable, IsThere
<1>3a. [pid |-> Leader, start |-> 0] \in kin
  BY <1>3 DEF Init, Of
<1>3b. clock = 0
  BY DEF Init
<1>4. ProcInv
  BY <1>3, <1>3a, <1>3b, LeaderAssumption DEF ProcInv
<1>5. RowInv
  BY DEF Init, RowInv, IsThere, NoTable
<1>6. RecordInv
  BY DEF Init, RecordInv, Unique
<1> QED
  BY <1>2, <1>4, <1>5, <1>6 DEF DInv

(* A kernel step neither revives what is over nor makes a start time lie.  *)
Moves ==
  \A p \in Pid :
    \/ proc'[p] = proc[p] /\ freeFrom'[p] = freeFrom[p]
    \/ /\ IsThere(proc, p) /\ IsThere(proc', p)
       /\ proc'[p].start = proc[p].start
    \/ IsThere(proc, p) /\ ~IsThere(proc', p) /\ freeFrom'[p] = clock + 1
    \/ /\ ~IsThere(proc, p) /\ IsThere(proc', p)
       /\ freeFrom[p] <= clock /\ proc'[p].start = clock

LEMMA WasMoves ==
  ASSUME Types, Moves, NEW e \in Identity, e.start <= clock, Was(e)
  PROVE  Was(e)' /\ (~Living(e) => ~Living(e)')
<1>1. e.pid \in Pid /\ e.start \in Nat /\ clock \in Nat
  BY DEF Identity, Time, Types
<1>2. /\ IsThere(proc, e.pid) => proc[e.pid].start \in Nat
      /\ freeFrom[e.pid] \in Nat
  BY <1>1 DEF Types, IsThere, Process, Time
<1> QED
  BY <1>1, <1>2 DEF Moves, Was, Living, Over, IsThere

Grows ==
  /\ clock <= clock'
  /\ kin \subseteq kin'
  /\ \A p \in Pid : IsThere(proc, p) /\ Of(proc, p) \in kin' => Of(proc, p) \in kin

LEMMA OfIdentity ==
  ASSUME Types, NEW p \in Pid
  PROVE  /\ IsThere(proc, p) => /\ Of(proc, p) \in Identity
                               /\ proc[p] \in Process /\ proc[p].start \in Time
                               /\ proc[p].parent \in Pid \cup {Init1}
         /\ IsThere(table, p) => /\ Of(table, p) \in Identity
                                /\ table[p] \in Process /\ table[p].start \in Time
                                /\ table[p].parent \in Pid \cup {Init1}
BY DEF Types, IsThere, Of, Identity, Process

(* What a kernel step leaves of the rows and the records. *)
LEMMA KernelRest ==
  ASSUME DInv, Types', Moves, Grows, UNCHANGED <<scan, record>>
  PROVE  RowInv' /\ RecordInv'
<1>1. Types /\ ProcInv /\ RowInv /\ RecordInv /\ clock \in Nat /\ clock' \in Nat
  BY DEF DInv, Types, Time
<1>2. RowInv'
  <2> SUFFICES ASSUME NEW c \in Pid, IsThere(table, c)
               PROVE  /\ table[c].start <= clock'
                      /\ Was(Of(table, c))'
                      /\ SaysParent(c)'
                      /\ c = Leader => table[c].start = 0
    <3>1. table' = table
      BY DEF scan
    <3> QED
      BY <3>1 DEF RowInv, IsThere
  <2>0. c = Leader => table[c].start = 0
    BY <1>1 DEF RowInv
  <2>1. /\ table[c].start \in Nat /\ table[c].start <= clock
        /\ Was(Of(table, c)) /\ SaysParent(c) /\ table' = table
        /\ Of(table, c) \in Identity /\ Of(table, c).start <= clock
    <3>1. /\ table[c].start <= clock /\ Was(Of(table, c)) /\ SaysParent(c)
          /\ table' = table
      BY <1>1 DEF RowInv, scan
    <3>2. Of(table, c) \in Identity /\ table[c].start \in Nat
      BY <1>1, OfIdentity DEF Time
    <3>3. Of(table, c).start = table[c].start
      BY DEF Of
    <3> QED
      BY <3>1, <3>2, <3>3
  <2>2. table[c].start <= clock'
    BY <1>1, <2>1 DEF Grows
  <2>3. Was(Of(table, c))'
    <3> DEFINE e == Of(table, c)
    <3>1. e \in Identity /\ e.start <= clock /\ Was(e)
      BY <2>1
    <3>2. e' = e
      BY <2>1 DEF Of
    <3> HIDE DEF e
    <3>3. Was(e)'
      BY <1>1, <3>1, <3>2 DEF Moves, Was, Living, Over, IsThere, Types, Identity, Time,
                              Process
    <3> QED
      BY <3>3 DEF e
  <2>4. ASSUME table[c].parent \in Pid PROVE SaysParent(c)'
    <3> DEFINE p == table[c].parent
    <3>1. /\ IsThere(proc, p) => proc[p].start \in Nat
          /\ freeFrom[p] \in Nat
      BY <1>1, <2>4, OfIdentity DEF Types, Time
    <3>2. CASE proc'[p] = proc[p] /\ freeFrom'[p] = freeFrom[p]
      BY <2>1, <2>4, <3>2 DEF SaysParent, IsThere, Of, Grows
    <3>3. CASE IsThere(proc, p) /\ IsThere(proc', p) /\ proc'[p].start = proc[p].start
      BY <2>1, <2>4, <3>3 DEF SaysParent, IsThere, Of, Grows
    <3>4. CASE IsThere(proc, p) /\ ~IsThere(proc', p) /\ freeFrom'[p] = clock + 1
      BY <1>1, <2>1, <2>4, <3>4 DEF SaysParent, IsThere
    <3>5. CASE /\ ~IsThere(proc, p) /\ IsThere(proc', p)
               /\ freeFrom[p] <= clock /\ proc'[p].start = clock
      BY <1>1, <2>1, <2>4, <3>1, <3>5 DEF SaysParent, IsThere
    <3> QED
      BY <2>4, <3>2, <3>3, <3>4, <3>5 DEF Moves
  <2>5. SaysParent(c)'
    BY <2>1, <2>4 DEF SaysParent
  <2> QED
    BY <2>0, <2>2, <2>3, <2>5
<1>3. RecordInv'
  <2>1. UNCHANGED <<phase, check, table, visit, next, alive>>
    BY DEF scan, record
  <2>2. \A e \in next \cup alive : e.start <= clock' /\ Was(e)' /\ (~Living(e) => ~Living(e)')
    <3> SUFFICES ASSUME NEW e \in next \cup alive
                 PROVE  e.start <= clock' /\ Was(e)' /\ (~Living(e) => ~Living(e)')
      OBVIOUS
    <3>1. e \in Identity /\ e.start <= clock /\ Was(e) /\ e.start \in Nat
      BY <1>1 DEF RecordInv, Types, Identity, Time
    <3> QED
      BY <1>1, <3>1, WasMoves DEF Grows
  <2>3. \A p \in visit : IsThere(table, p)' /\ Of(table, p)' \in kin'
    BY <1>1, <2>1 DEF RecordInv, Grows, IsThere, Of
  <2> QED
    BY <1>1, <2>1, <2>2, <2>3 DEF RecordInv, Grows, Unique
<1> QED
  BY <1>2, <1>3

-----------------------------------------------------------------------------
(* Each kernel step moves the processes and keeps their parents. *)
Kept == Types' /\ Moves /\ Grows /\ ProcInv'

LEMMA StartKeeps ==
  ASSUME DInv, NEW p \in Pid, NEW parent \in Pid \cup {Init1}, NEW inGroup \in BOOLEAN,
         Starts(p, parent, inGroup), UNCHANGED <<scan, record>>,
         parent \in Pid => IsThere(proc, parent),
         kin' = kin \/ (kin' = kin \cup {Of(proc', p)}),
         parent \in Pid /\ Of(proc, parent) \in kin => Of(proc', p) \in kin'
  PROVE  Kept
<1>1. Types /\ ProcInv /\ clock \in Time /\ clock \in Nat
  BY DEF DInv, Types, Time
<1> DEFINE r == [start |-> clock, parent |-> parent, inGroup |-> inGroup]
<1>2. r \in Process /\ r # Nobody
  BY <1>1, NobodyAssumption DEF Process
<1>3. /\ ~IsThere(proc, p) /\ freeFrom[p] <= clock /\ proc' = [proc EXCEPT ![p] = r]
      /\ clock' = clock /\ freeFrom' = freeFrom
  BY DEF Starts
<1>4. proc'[p] = r /\ \A q \in Pid : q # p => proc'[q] = proc[q]
  BY <1>1, <1>3 DEF Types
<1>5. Moves
  BY <1>2, <1>3, <1>4 DEF Moves, IsThere
<1>6. Of(proc', p) \in Identity
  BY <1>1, <1>4 DEF Of, Identity
<1>7. Types'
  BY <1>1, <1>2, <1>3, <1>6 DEF Types, scan, record
<1>8. \A x \in kin' : x \in kin \/ x.pid = p
  BY DEF Of
<1>9. Grows
  BY <1>1, <1>3, <1>8 DEF Grows, Of
<1>10. ProcInv'
  <2>1. IsThere(proc, Leader) /\ Leader # p /\ Leader \in Pid
    BY <1>1, <1>3, LeaderAssumption DEF ProcInv
  <2>2. ASSUME NEW q \in Pid, IsThere(proc', q)
        PROVE  /\ proc'[q].start <= clock
               /\ proc'[q].parent \in Pid =>
                    /\ IsThere(proc', proc'[q].parent)
                    /\ proc'[proc'[q].parent].start <= proc'[q].start
                    /\ Of(proc', proc'[q].parent) \in kin' => Of(proc', q) \in kin'
    <3>1. CASE q = p
      <4>1. parent \in Pid => /\ parent # p /\ proc'[parent] = proc[parent]
                             /\ proc[parent].start <= clock
        BY <1>1, <1>3, <1>4 DEF ProcInv
      <4>2. parent \in Pid => (Of(proc', parent) \in kin' => Of(proc, parent) \in kin)
        BY <4>1, <1>8 DEF Of
      <4> QED
        BY <1>1, <1>4, <3>1, <4>1, <4>2 DEF IsThere
    <3>2. CASE q # p
      <4>1. IsThere(proc, q) /\ proc'[q] = proc[q]
        BY <1>4, <2>2, <3>2 DEF IsThere
      <4>2. proc[q].parent \in Pid => proc[q].parent # p /\ proc'[proc[q].parent] = proc[proc[q].parent]
        BY <1>1, <1>3, <1>4, <4>1 DEF ProcInv
      <4> QED
        BY <1>1, <1>9, <4>1, <4>2 DEF ProcInv, Grows, Of, IsThere
    <3> QED
      BY <3>1, <3>2
  <2> QED
    BY <1>1, <1>3, <1>4, <1>9, <2>1, <2>2 DEF ProcInv, Grows, IsThere
<1> QED
  BY <1>5, <1>7, <1>9, <1>10 DEF Kept

LEMMA ExitKeeps ==
  ASSUME DInv, NEW p \in Pid, Exits(p), UNCHANGED <<scan, record>>
  PROVE  Kept
<1>1. Types /\ ProcInv /\ clock \in Nat /\ clock <= MaxTime
  BY BoundAssumption DEF DInv, Types, Time
<1>2. /\ clock' = clock /\ kin' = kin
      /\ freeFrom' = [freeFrom EXCEPT ![p] = clock + 1]
      /\ \A q \in Pid : proc'[q] =
           IF q = p /\ p # Leader THEN Nobody
           ELSE IF IsThere(proc, q) /\ proc[q].parent = p
                THEN [proc[q] EXCEPT !.parent = Init1]
                ELSE proc[q]
      /\ IsThere(proc, p)
  BY DEF Exits
<1>3. \A q \in Pid : IsThere(proc, q) =>
        /\ [proc[q] EXCEPT !.parent = Init1] \in Process
        /\ [proc[q] EXCEPT !.parent = Init1].start = proc[q].start
        /\ [proc[q] EXCEPT !.parent = Init1].parent = Init1
        /\ [proc[q] EXCEPT !.parent = Init1] # Nobody
  BY <1>1, OfIdentity, NobodyAssumption DEF Process
<1>4. \A q \in Pid : proc'[q] \in Process \cup {Nobody}
  BY <1>1, <1>2, <1>3 DEF IsThere, Types
<1>4a. \A q \in Pid : IsThere(proc', q) => /\ IsThere(proc, q)
                                           /\ proc'[q].start = proc[q].start
  BY <1>1, <1>2, <1>3 DEF IsThere, Types
<1>4b. \A q \in Pid : IsThere(proc, q) => IsThere(proc', q) \/ (q = p /\ p # Leader)
  BY <1>1, <1>2, <1>3 DEF IsThere, Types
<1>4c. \A q \in Pid : IsThere(proc', q) /\ proc'[q].parent # Init1 =>
         proc'[q].parent = proc[q].parent /\ proc'[q].parent # p
  BY <1>1, <1>2, <1>3 DEF IsThere, Types
<1>5. Types'
  <2>1. proc' \in [Pid -> Process \cup {Nobody}]
    BY <1>4 DEF Exits
  <2>2. freeFrom' \in [Pid -> 0 .. MaxTime + 1]
    BY <1>1, <1>2, BoundAssumption DEF Types
  <2> QED
    BY <1>1, <1>2, <2>1, <2>2 DEF Types, scan, record
<1>6. Moves
  <2> SUFFICES ASSUME NEW q \in Pid
               PROVE  \/ proc'[q] = proc[q] /\ freeFrom'[q] = freeFrom[q]
                      \/ /\ IsThere(proc, q) /\ IsThere(proc', q)
                         /\ proc'[q].start = proc[q].start
                      \/ IsThere(proc, q) /\ ~IsThere(proc', q) /\ freeFrom'[q] = clock + 1
    BY DEF Moves
  <2>1. /\ ~IsThere(proc, q) => ~IsThere(proc', q)
        /\ IsThere(proc', q) => proc'[q].start = proc[q].start
        /\ IsThere(proc, q) => IsThere(proc', q) \/ q = p
    BY <1>4a, <1>4b
  <2>2. CASE IsThere(proc, q)
    <3>1. q = p => freeFrom'[q] = clock + 1
      BY <1>1, <1>2 DEF Types
    <3> QED
      BY <2>1, <2>2, <3>1
  <2>3. CASE ~IsThere(proc, q)
    <3>1. q # p /\ proc[q] = Nobody /\ proc'[q] = Nobody
      BY <1>2, <2>1, <2>3 DEF IsThere
    <3>2. freeFrom'[q] = freeFrom[q]
      BY <1>1, <1>2, <3>1 DEF Types
    <3> QED
      BY <3>1, <3>2
  <2> QED
    BY <2>2, <2>3
<1>7. Grows
  BY <1>1, <1>2 DEF Grows
<1>8. ProcInv'
  <2>1. IsThere(proc', Leader) /\ proc'[Leader].start = 0
    <3>1. IsThere(proc, Leader) /\ proc[Leader].start = 0
      BY <1>1 DEF ProcInv
    <3>2. IsThere(proc', Leader)
      BY <1>4b, <3>1, LeaderAssumption
    <3> QED
      BY <1>4a, <3>1, <3>2, LeaderAssumption
  <2>2. ASSUME NEW q \in Pid, IsThere(proc', q)
        PROVE  /\ proc'[q].start <= clock
               /\ proc'[q].parent \in Pid =>
                    /\ IsThere(proc', proc'[q].parent)
                    /\ proc'[proc'[q].parent].start <= proc'[q].start
                    /\ Of(proc', proc'[q].parent) \in kin' => Of(proc', q) \in kin'
    <3>1. IsThere(proc, q) /\ proc'[q].start = proc[q].start
      BY <1>4a, <2>2
    <3>1a. proc[q].start <= clock
      BY <1>1, <3>1 DEF ProcInv
    <3>2. ASSUME proc'[q].parent \in Pid
          PROVE  /\ proc'[q].parent = proc[q].parent /\ proc[q].parent # p
                 /\ proc[q].parent \in Pid
      BY <1>4c, <2>2, <3>2, LeaderAssumption
    <3>3. ASSUME proc[q].parent \in Pid, proc[q].parent # p
          PROVE  /\ IsThere(proc, proc[q].parent)
                 /\ proc[proc[q].parent].start <= proc[q].start
                 /\ Of(proc, proc[q].parent) \in kin => Of(proc, q) \in kin
                 /\ IsThere(proc', proc[q].parent)
                 /\ proc'[proc[q].parent].start = proc[proc[q].parent].start
      <4>1. /\ IsThere(proc, proc[q].parent)
            /\ proc[proc[q].parent].start <= proc[q].start
            /\ Of(proc, proc[q].parent) \in kin => Of(proc, q) \in kin
        BY <1>1, <3>1, <3>3 DEF ProcInv
      <4>2. IsThere(proc', proc[q].parent)
        BY <1>4b, <3>3, <4>1
      <4> QED
        BY <1>4a, <3>3, <4>1, <4>2
    <3> QED
      BY <1>2, <3>1, <3>1a, <3>2, <3>3 DEF Of
  <2>3. [pid |-> Leader, start |-> 0] \in kin'
    BY <1>1, <1>2 DEF ProcInv
  <2> QED
    BY <1>2, <2>1, <2>2, <2>3 DEF ProcInv
<1> QED
  BY <1>5, <1>6, <1>7, <1>8 DEF Kept

LEMMA LeavesGroupKeeps ==
  ASSUME DInv, NEW p \in Pid, LeavesGroup(p), UNCHANGED <<scan, record>>
  PROVE  Kept
<1>1. Types /\ ProcInv /\ clock \in Nat
  BY DEF DInv, Types, Time
<1>2. /\ UNCHANGED <<clock, freeFrom, kin>> /\ IsThere(proc, p)
      /\ proc' = [proc EXCEPT ![p] = [proc[p] EXCEPT !.inGroup = FALSE]]
  BY DEF LeavesGroup
<1>3. /\ [proc[p] EXCEPT !.inGroup = FALSE] \in Process
      /\ [proc[p] EXCEPT !.inGroup = FALSE].start = proc[p].start
      /\ [proc[p] EXCEPT !.inGroup = FALSE].parent = proc[p].parent
      /\ [proc[p] EXCEPT !.inGroup = FALSE] # Nobody
  BY <1>1, <1>2, OfIdentity, NobodyAssumption DEF Process
<1>4. /\ proc'[p].start = proc[p].start /\ proc'[p].parent = proc[p].parent
      /\ IsThere(proc', p)
      /\ \A q \in Pid : q # p => proc'[q] = proc[q]
  BY <1>1, <1>2, <1>3 DEF Types, IsThere
<1>4a. \A q \in Pid : /\ IsThere(proc', q) <=> IsThere(proc, q)
                      /\ proc'[q].start = proc[q].start
                      /\ proc'[q].parent = proc[q].parent
  BY <1>2, <1>4 DEF IsThere
<1>5. Types'
  BY <1>1, <1>2, <1>3 DEF Types, scan, record
<1>6. Moves
  BY <1>2, <1>4 DEF Moves
<1>7. Grows
  BY <1>1, <1>2 DEF Grows
<1>4b. \A q \in Pid : Of(proc', q) = Of(proc, q)
  BY <1>4a DEF Of
<1>8. ProcInv'
  <2>1. IsThere(proc', Leader) /\ proc'[Leader].start = 0
    BY <1>1, <1>4a, LeaderAssumption DEF ProcInv
  <2>2. ASSUME NEW q \in Pid, IsThere(proc', q)
        PROVE  /\ proc'[q].start <= clock
               /\ proc'[q].parent \in Pid =>
                    /\ IsThere(proc', proc'[q].parent)
                    /\ proc'[proc'[q].parent].start <= proc'[q].start
                    /\ Of(proc', proc'[q].parent) \in kin => Of(proc', q) \in kin
    <3>1. IsThere(proc, q) /\ proc'[q].start = proc[q].start
          /\ proc'[q].parent = proc[q].parent /\ Of(proc', q) = Of(proc, q)
      BY <1>4a, <1>4b, <2>2
    <3>2. proc[q].start <= clock
      BY <1>1, <3>1 DEF ProcInv
    <3>3. ASSUME proc[q].parent \in Pid
          PROVE  /\ IsThere(proc', proc[q].parent)
                 /\ proc'[proc[q].parent].start <= proc[q].start
                 /\ Of(proc', proc[q].parent) \in kin => Of(proc, q) \in kin
      <4>1. /\ IsThere(proc, proc[q].parent)
            /\ proc[proc[q].parent].start <= proc[q].start
            /\ Of(proc, proc[q].parent) \in kin => Of(proc, q) \in kin
        BY <1>1, <3>1, <3>3 DEF ProcInv
      <4>2. /\ IsThere(proc', proc[q].parent) <=> IsThere(proc, proc[q].parent)
            /\ proc'[proc[q].parent].start = proc[proc[q].parent].start
            /\ Of(proc', proc[q].parent) = Of(proc, proc[q].parent)
        BY <1>4a, <1>4b, <3>3
      <4> QED
        BY <4>1, <4>2
    <3> QED
      BY <3>1, <3>2, <3>3
  <2> QED
    BY <1>1, <1>2, <2>1, <2>2 DEF ProcInv
<1> QED
  BY <1>5, <1>6, <1>7, <1>8 DEF Kept

LEMMA TickKeeps ==
  ASSUME DInv, Tick, UNCHANGED <<scan, record>>
  PROVE  Kept
<1>1. Types /\ ProcInv /\ clock \in Nat /\ MaxTime \in Nat
  BY BoundAssumption DEF DInv, Types, Time
<1>2. clock' = clock + 1 /\ clock < MaxTime /\ UNCHANGED <<proc, freeFrom, kin>>
  BY DEF Tick
<1>3. Types'
  BY <1>1, <1>2 DEF Types, Time, scan, record
<1>4. Moves /\ Grows
  BY <1>1, <1>2 DEF Moves, Grows
<1>5. ProcInv'
  <2>1. \A q \in Pid : IsThere(proc, q) => proc[q].start \in Nat
    BY <1>1, OfIdentity DEF Time
  <2> QED
    BY <1>1, <1>2, <2>1 DEF ProcInv, IsThere, Of
<1> QED
  BY <1>3, <1>4, <1>5 DEF Kept

LEMMA KernelKeeps ==
  ASSUME DInv, KernelStep
  PROVE  DInv'
<1>1. UNCHANGED <<scan, record>> /\ Types
  BY DEF KernelStep, DInv
<1>2. ASSUME NEW p \in Pid, NEW c \in Pid, Fork(p, c)
      PROVE  Kept
  <2>1. proc[p].inGroup \in BOOLEAN
    BY <1>1, <1>2, OfIdentity DEF Fork, Process
  <2>2. /\ IsThere(proc, p) /\ Starts(c, p, proc[p].inGroup)
        /\ kin' = kin \/ (kin' = kin \cup {Of(proc', c)})
        /\ Of(proc, p) \in kin => Of(proc', c) \in kin'
    BY <1>2 DEF Fork
  <2> QED
    BY <1>1, <2>1, <2>2, StartKeeps
<1>3. ASSUME NEW p \in Pid, StrangerStarts(p)
      PROVE  Kept
  BY <1>1, <1>3, StartKeeps, LeaderAssumption DEF StrangerStarts
<1>4. Kept
  <2>1. CASE Tick
    BY <1>1, <2>1, TickKeeps
  <2>2. CASE \E p \in Pid : \/ \E c \in Pid : Fork(p, c)
                           \/ StrangerStarts(p) \/ LeavesGroup(p) \/ Exits(p)
    BY <1>1, <1>2, <1>3, <2>2, LeavesGroupKeeps, ExitKeeps
  <2> QED
    BY <2>1, <2>2 DEF KernelStep
<1> QED
  BY <1>1, <1>4, KernelRest DEF Kept, DInv

-----------------------------------------------------------------------------
(* The steps of a scan leave the kernel alone. *)
LEMMA ScanRest ==
  ASSUME DInv, UNCHANGED kernel
  PROVE  /\ ProcInv'
         /\ table' = table => RowInv'
         /\ \A e \in Identity : Was(e)' = Was(e) /\ Living(e)' = Living(e)
<1>1. ProcInv /\ RowInv /\ UNCHANGED <<clock, proc, freeFrom, kin>>
  BY DEF DInv, kernel
<1>2. ProcInv'
  BY <1>1 DEF ProcInv, IsThere, Of
<1>3. table' = table => RowInv'
  BY <1>1 DEF RowInv, IsThere, Of, Was, Living, Over, SaysParent
<1>4. \A e \in Identity : Was(e)' = Was(e) /\ Living(e)' = Living(e)
  BY <1>1 DEF Was, Living, Over, IsThere
<1> QED
  BY <1>2, <1>3, <1>4

LEMMA BeginKeeps ==
  ASSUME DInv, BeginScan
  PROVE  DInv'
<1>1. Types /\ RecordInv
  BY DEF DInv
<1>2. /\ UNCHANGED kernel /\ UNCHANGED <<clock, proc, freeFrom, exited, kin>>
      /\ UNCHANGED <<table, visit, next, alive>>
      /\ phase = "idle" /\ phase' = "check" /\ check' = alive
  BY DEF BeginScan, kernel, record
<1>3. Types'
  BY <1>1, <1>2 DEF Types
<1>4. RecordInv'
  BY <1>1, <1>2 DEF RecordInv, Unique, Was, Living, Over, IsThere, Of
<1> QED
  BY <1>2, <1>3, <1>4, ScanRest DEF DInv

LEMMA CheckKeeps ==
  ASSUME DInv, NEW e \in check, Check(e)
  PROVE  DInv'
<1>1. Types /\ RecordInv
  BY DEF DInv
<1>2. /\ UNCHANGED kernel /\ UNCHANGED <<clock, proc, freeFrom, exited, kin>>
      /\ UNCHANGED <<table, visit, alive, phase>>
      /\ phase = "check" /\ check' = check \ {e}
      /\ next' = next \cup {e} \/ (~Living(e) /\ next' = next)
  BY DEF Check, kernel, record
<1>3. Types'
  BY <1>1, <1>2 DEF Types
<1>4. e \in alive /\ next \subseteq alive /\ next' \subseteq alive
  BY <1>1, <1>2 DEF RecordInv
<1>5. RecordInv'
  BY <1>1, <1>2, <1>4 DEF RecordInv, Unique, Was, Living, Over, IsThere, Of
<1> QED
  BY <1>2, <1>3, <1>5, ScanRest DEF DInv

LEMMA ListKeeps ==
  ASSUME DInv, ListTable
  PROVE  DInv'
<1>1. Types /\ RecordInv
  BY DEF DInv
<1>2. /\ UNCHANGED kernel /\ UNCHANGED <<clock, proc, freeFrom, exited, kin>>
      /\ UNCHANGED <<table, visit, next, alive, check>>
      /\ phase = "check" /\ phase' \in {"read", "walk"} /\ check = {}
  BY DEF ListTable, kernel, record
<1>3. Types'
  BY <1>1, <1>2 DEF Types
<1>4. RecordInv'
  BY <1>1, <1>2 DEF RecordInv, Unique, Was, Living, Over, IsThere, Of
<1> QED
  BY <1>2, <1>3, <1>4, ScanRest DEF DInv

LEMMA ReadKeeps ==
  ASSUME DInv, NEW p \in Pid, ReadRow(p)
  PROVE  DInv'
<1>1. Types /\ ProcInv /\ RowInv /\ RecordInv
  BY DEF DInv
<1>2. /\ UNCHANGED kernel /\ UNCHANGED <<clock, proc, freeFrom, exited, kin>>
      /\ UNCHANGED <<next, alive, check>>
      /\ phase = "read" /\ table' = [table EXCEPT ![p] = proc[p]]
      /\ \/ phase' = "walk" /\ visit' = Roots(table')
         \/ phase' = phase /\ visit' = visit
  BY DEF ReadRow, kernel, record
<1>3. table'[p] = proc[p] /\ \A q \in Pid : q # p => table'[q] = table[q]
  BY <1>1, <1>2 DEF Types
<1>4. Types'
  BY <1>1, <1>2 DEF Types, Roots
<1>5. RowInv'
  <2> SUFFICES ASSUME NEW c \in Pid, IsThere(table', c)
               PROVE  /\ table'[c].start <= clock'
                      /\ Was(Of(table, c))'
                      /\ SaysParent(c)'
                      /\ c = Leader => table'[c].start = 0
    BY DEF RowInv
  <2>1. CASE c = p
    <3>1. /\ IsThere(proc, p) /\ table'[c] = proc[p] /\ proc[p].start <= clock
          /\ p = Leader => proc[p].start = 0
      BY <1>1, <1>3, <2>1 DEF IsThere, ProcInv
    <3>2. Was(Of(table, c))'
      BY <1>2, <2>1, <3>1 DEF Was, Living, Of, IsThere
    <3>2a. Of(table', c) = Of(proc, p)
      BY <2>1, <3>1 DEF Of
    <3>3. SaysParent(c)'
      BY <1>1, <1>2, <2>1, <3>1 DEF ProcInv, SaysParent, IsThere, Of
    <3> QED
      BY <1>2, <2>1, <3>1, <3>2, <3>3
  <2>2. CASE c # p
    <3>1. table'[c] = table[c] /\ IsThere(table, c)
      BY <1>3, <2>2 DEF IsThere
    <3> QED
      <4>1. /\ table[c].start <= clock /\ Was(Of(table, c)) /\ SaysParent(c)
            /\ c = Leader => table[c].start = 0
        BY <1>1, <3>1 DEF RowInv
      <4>2. Was(Of(table, c))'
        BY <1>2, <3>1, <4>1 DEF Was, Living, Over, IsThere, Of
      <4>3. SaysParent(c)'
        BY <1>2, <3>1, <4>1 DEF SaysParent, IsThere, Of
      <4> QED
        BY <1>2, <3>1, <4>1, <4>2, <4>3
  <2> QED
    BY <2>1, <2>2
<1>6. \A q \in visit' : IsThere(table', q) /\ Of(table', q) \in kin'
  <2>1. CASE visit' = Roots(table')
    <3>1. SUFFICES ASSUME NEW q \in Roots(table')
                   PROVE  IsThere(table', q) /\ Of(table', q) \in kin'
      BY <2>1
    <3>2. /\ q \in Pid /\ IsThere(table', q)
          /\ q = Leader \/ Of(table', q) \in next
      BY <1>2 DEF Roots
    <3>3. q = Leader => Of(table', q) \in kin'
      <4>1. q = Leader => table'[q].start = 0
        BY <1>5, <3>2 DEF RowInv
      <4>2. [pid |-> Leader, start |-> 0] \in kin'
        BY <1>1, <1>2 DEF ProcInv
      <4> QED
        BY <4>1, <4>2 DEF Of
    <3> QED
      BY <1>1, <1>2, <3>2, <3>3 DEF RecordInv
  <2>2. CASE visit' = visit
    BY <1>1, <1>2, <2>2 DEF RecordInv
  <2> QED
    BY <1>2, <2>1, <2>2
<1>7. RecordInv'
  BY <1>1, <1>2, <1>6 DEF RecordInv, Unique, Was, Living, Over, IsThere, Of
<1> QED
  BY <1>2, <1>4, <1>5, <1>7, ScanRest DEF DInv

(* A child of a row that still has its pid is the worker's, as the row is. *)
LEMMA ChildrenAreKin ==
  ASSUME DInv, NEW p \in visit, Living(Of(table, p)), NEW c \in Children(p)
  PROVE  c \in Pid /\ IsThere(table, c) /\ Of(table, c) \in kin
<1>1. Types /\ RowInv /\ RecordInv /\ p \in Pid
  BY DEF DInv, Types
<1>2. /\ c \in Pid /\ IsThere(table, c) /\ table[c].parent = p
      /\ table[c].start >= table[p].start
  BY DEF Children
<1>3. IsThere(table, p) /\ Of(table, p) \in kin
  BY <1>1 DEF RecordInv
<1>4. IsThere(proc, p) /\ proc[p].start = table[p].start
  BY DEF Living, Of
<1>5. table[c].start \in Nat /\ table[p].start \in Nat
  BY <1>1, <1>2, <1>3, OfIdentity DEF Time
<1>6. SaysParent(c)
  BY <1>1, <1>2 DEF RowInv
<1>7. Of(proc, p) = Of(table, p)
  BY <1>4 DEF Of
<1> QED
  BY <1>1, <1>2, <1>3, <1>4, <1>5, <1>6, <1>7 DEF SaysParent

LEMMA VisitKeeps ==
  ASSUME DInv, NEW p \in Pid, Visit(p)
  PROVE  DInv'
<1>1. Types /\ RowInv /\ RecordInv
  BY DEF DInv
<1>2. /\ UNCHANGED kernel /\ UNCHANGED <<clock, proc, freeFrom, exited, kin>>
      /\ UNCHANGED <<table, alive, check, phase>>
      /\ phase = "walk" /\ p \in visit /\ next' = Noted(p)
      /\ visit' \subseteq visit \/ (/\ Living(Of(table, p))
                                    /\ visit' \subseteq visit \cup Children(p))
  BY DEF Visit, kernel
<1>3. /\ IsThere(table, p) /\ Of(table, p) \in kin /\ Of(table, p) \in Identity
      /\ Was(Of(table, p)) /\ table[p].start <= clock /\ table[p].start \in Nat
      /\ Of(table, p).start = table[p].start /\ Of(table, p).pid = p
  <2>1. IsThere(table, p) /\ Of(table, p) \in kin
    BY <1>1, <1>2 DEF RecordInv
  <2>2. Of(table, p) \in Identity /\ table[p].start \in Nat
    BY <1>1, <2>1, OfIdentity DEF Time
  <2>3. Was(Of(table, p)) /\ table[p].start <= clock
    BY <1>1, <2>1 DEF RowInv
  <2>4. Of(table, p).start = table[p].start /\ Of(table, p).pid = p
    BY DEF Of
  <2> QED
    BY <2>1, <2>2, <2>3, <2>4
<1> DEFINE d == Of(table, p)
<1> HIDE DEF d
<1>4. /\ d \in kin /\ d \in Identity /\ Was(d) /\ d.start <= clock
      /\ d.start = table[p].start /\ d.pid = p
  BY <1>3 DEF d
<1>5. \/ next' = next
      \/ /\ \E e \in RecordedAs(p) : table[p].start > e.start
         /\ next' = (next \ RecordedAs(p)) \cup {d}
      \/ RecordedAs(p) = {} /\ next' = next \cup {d}
  BY <1>2 DEF Noted, d
<1>6. visit' \subseteq Pid
  BY <1>1, <1>2 DEF Types, Children
<1>7. Types'
  BY <1>1, <1>2, <1>4, <1>5, <1>6 DEF Types
<1>8. \A q \in visit' : IsThere(table, q) /\ Of(table, q) \in kin
  <2>1. \A q \in visit : IsThere(table, q) /\ Of(table, q) \in kin
    BY <1>1 DEF RecordInv
  <2> QED
    BY <1>2, <2>1, ChildrenAreKin
<1>9. Unique(next)'
  BY <1>1, <1>4, <1>5 DEF RecordInv, Unique, RecordedAs
<1>10. \A e \in next : e \in next' \/ ~Living(e)
  <2> SUFFICES ASSUME NEW e \in next, e \notin next'
               PROVE  ~Living(e)
    OBVIOUS
  <2>1. e.pid = p /\ table[p].start > e.start
    BY <1>1, <1>5 DEF RecordInv, Unique, RecordedAs
  <2>2. /\ e.start \in Nat
        /\ IsThere(proc, p) => proc[p].start \in Nat
    BY <1>1, OfIdentity DEF Types, Identity, Time
  <2> QED
    BY <1>3, <1>4, <2>1, <2>2 DEF Was, Living, Over
<1>11. RecordInv'
  <2>1. /\ next' \subseteq next \cup {d} /\ next' \subseteq kin
        /\ \A e \in next' : e.start <= clock /\ Was(e)
    BY <1>1, <1>4, <1>5 DEF RecordInv
  <2>2. \A e \in alive : e \in next' \/ ~Living(e)
    BY <1>1, <1>2, <1>10 DEF RecordInv
  <2> QED
    BY <1>1, <1>2, <1>8, <1>9, <2>1, <2>2
       DEF RecordInv, Unique, Was, Living, Over, IsThere, Of
<1> QED
  BY <1>2, <1>7, <1>11, ScanRest DEF DInv

LEMMA CommitKeeps ==
  ASSUME DInv, Commit
  PROVE  DInv'
<1>1. Types /\ RecordInv
  BY DEF DInv
<1>2. /\ UNCHANGED kernel /\ UNCHANGED <<clock, proc, freeFrom, exited, kin>>
      /\ UNCHANGED <<check, visit>>
      /\ phase = "walk" /\ visit = {} /\ alive' = next /\ phase' = "idle"
      /\ table' = NoTable /\ next' = {}
  BY DEF Commit, kernel
<1>3. Types'
  BY <1>1, <1>2 DEF Types, NoTable
<1>4. RowInv'
  BY <1>2 DEF RowInv, IsThere, NoTable
<1>5. RecordInv'
  BY <1>1, <1>2 DEF RecordInv, Unique, Was, Living, Over, IsThere
<1> QED
  BY <1>2, <1>3, <1>4, <1>5, ScanRest DEF DInv

LEMMA DNext == DInv /\ [Next]_vars => DInv'
<1> SUFFICES ASSUME DInv, [Next]_vars PROVE DInv'
  OBVIOUS
<1>1. CASE KernelStep
  BY <1>1, KernelKeeps
<1>2. CASE ScanStep
  BY <1>2, BeginKeeps, ListKeeps, CommitKeeps, CheckKeeps, ReadKeeps, VisitKeeps
     DEF ScanStep
<1>3. CASE UNCHANGED vars
  <2>1. /\ UNCHANGED <<clock, proc, freeFrom, exited, kin>>
        /\ UNCHANGED <<table, visit, next, alive, check, phase>>
    BY <1>3 DEF vars, kernel, scan, record
  <2>2. UNCHANGED kernel
    BY <2>1 DEF kernel
  <2>3. Types'
    BY <2>1 DEF DInv, Types
  <2>4. RecordInv'
    BY <2>1 DEF DInv, RecordInv, Unique, Was, Living, Over, IsThere, Of
  <2> QED
    BY <2>1, <2>2, <2>3, <2>4, ScanRest DEF DInv
<1> QED
  BY <1>1, <1>2, <1>3 DEF Next

LEMMA DInvariant == Spec => []DInv
  BY DInit, DNext, PTL DEF Spec

-----------------------------------------------------------------------------
(* The record stays within its room. *)
RoomInv ==
  /\ exited \in BOOLEAN /\ errs \in BOOLEAN /\ still \in BOOLEAN
  /\ overflow \in BOOLEAN
  /\ phase \in {"idle", "check", "read", "walk"}
  /\ unread \subseteq Pid
  /\ IsFiniteSet(next) /\ Cardinality(next) <= MaxRecorded
  /\ IsFiniteSet(alive) /\ Cardinality(alive) <= MaxRecorded

LEMMA NotedFits ==
  ASSUME DInv, RoomInv, NEW p \in Pid
  PROVE  IsFiniteSet(Noted(p)) /\ Cardinality(Noted(p)) <= MaxRecorded
<1>1. /\ IsFiniteSet(next) /\ Cardinality(next) <= MaxRecorded
      /\ Unique(next) /\ MaxRecorded \in Nat
  BY BoundAssumption DEF RoomInv, DInv, RecordInv
<1> DEFINE d == Of(table, p)
<1> HIDE DEF d
<1>2. Cardinality(next) \in Nat
  BY <1>1, FS_CardinalityType
<1>3. CASE Noted(p) = next
  BY <1>1, <1>3
<1>4. CASE Cardinality(next) < MaxRecorded /\ Noted(p) = next \cup {d}
  <2>1. /\ IsFiniteSet(next \cup {d})
        /\ Cardinality(next \cup {d}) = IF d \in next THEN Cardinality(next)
                                        ELSE Cardinality(next) + 1
    BY <1>1, FS_AddElement
  <2> QED
    BY <1>1, <1>2, <1>4, <2>1
<1>5. CASE RecordedAs(p) # {} /\ Noted(p) = (next \ RecordedAs(p)) \cup {d}
  <2>1. PICK e \in next : e \in RecordedAs(p)
    BY <1>5 DEF RecordedAs
  <2>2. RecordedAs(p) = {e}
    BY <1>1, <2>1 DEF RecordedAs, Unique
  <2> DEFINE rest == next \ {e}
  <2>3. /\ IsFiniteSet(rest) /\ Cardinality(rest) = Cardinality(next) - 1
    BY <1>1, <2>1, FS_RemoveElement
  <2>4. /\ IsFiniteSet(rest \cup {d})
        /\ Cardinality(rest \cup {d}) = IF d \in rest THEN Cardinality(rest)
                                        ELSE Cardinality(rest) + 1
    BY <2>3, FS_AddElement
  <2> QED
    BY <1>1, <1>2, <1>5, <2>2, <2>3, <2>4
<1> QED
  BY <1>3, <1>4, <1>5 DEF Noted, d

LEMMA RoomNext == DInv /\ RoomInv /\ [Next]_vars => RoomInv'
<1> SUFFICES ASSUME DInv, RoomInv, [Next]_vars PROVE RoomInv'
  OBVIOUS
<1>1. CASE KernelStep
  <2>1. exited' \in BOOLEAN
    BY <1>1 DEF KernelStep, Tick, Fork, StrangerStarts, Starts, LeavesGroup, Exits,
                RoomInv
  <2> QED
    BY <1>1, <2>1 DEF KernelStep, RoomInv, scan, record
<1>2. CASE BeginScan \/ ListTable
  BY <1>2 DEF BeginScan, ListTable, RoomInv, kernel, record
<1>3. CASE Commit
  <2>1. next' = {} /\ alive' = next
    BY <1>3 DEF Commit
  <2>2. IsFiniteSet({}) /\ Cardinality({}) <= MaxRecorded
    BY FS_EmptySet, BoundAssumption
  <2>3. IsFiniteSet(next') /\ Cardinality(next') <= MaxRecorded
    BY <2>1, <2>2
  <2>4. IsFiniteSet(alive') /\ Cardinality(alive') <= MaxRecorded
    BY <2>1 DEF RoomInv
  <2> QED
    BY <1>3, <2>3, <2>4 DEF Commit, RoomInv, kernel
<1>4. ASSUME NEW e \in check, Check(e) PROVE RoomInv'
  <2>1. next' \subseteq alive
    BY <1>4 DEF Check, DInv, RecordInv
  <2>2. IsFiniteSet(alive) /\ Cardinality(alive) <= MaxRecorded
    BY DEF RoomInv
  <2>3. IsFiniteSet(next') /\ Cardinality(next') <= Cardinality(alive)
    BY <2>1, <2>2, FS_Subset
  <2>4. Cardinality(next') \in Nat /\ Cardinality(alive) \in Nat
    BY <2>2, <2>3, FS_CardinalityType
  <2>5. Cardinality(next') <= MaxRecorded
    BY <2>2, <2>3, <2>4, BoundAssumption
  <2> QED
    BY <1>4, <2>3, <2>5 DEF Check, RoomInv, kernel, record
<1>5. ASSUME NEW p \in Pid, ReadRow(p) PROVE RoomInv'
  BY <1>5 DEF ReadRow, RoomInv, kernel, record
<1>6. ASSUME NEW p \in Pid, Visit(p) PROVE RoomInv'
  <2>1. IsFiniteSet(next') /\ Cardinality(next') <= MaxRecorded
    BY <1>6, NotedFits DEF Visit
  <2>2. overflow' \in BOOLEAN
    BY <1>6 DEF Visit, RoomInv
  <2> QED
    BY <1>6, <2>1, <2>2 DEF Visit, RoomInv, kernel
<1>7. CASE UNCHANGED vars
  BY <1>7 DEF vars, kernel, scan, record, RoomInv
<1> QED
  BY <1>1, <1>2, <1>3, <1>4, <1>5, <1>6, <1>7 DEF Next, ScanStep

LEMMA RoomInit == Init => RoomInv
<1> SUFFICES ASSUME Init PROVE RoomInv
  OBVIOUS
<1>1. next = {} /\ alive = {}
  BY DEF Init
<1>2. IsFiniteSet({}) /\ Cardinality({}) <= MaxRecorded
  BY FS_EmptySet, BoundAssumption
<1>3. /\ IsFiniteSet(next) /\ Cardinality(next) <= MaxRecorded
      /\ IsFiniteSet(alive) /\ Cardinality(alive) <= MaxRecorded
  BY <1>1, <1>2
<1> QED
  BY <1>3 DEF Init, RoomInv

(* The state keeps its types, and the record and what a scan prepares of   *)
(* it stay within the room of descendants.go: what is kept is kept from    *)
(* the record, and a successor takes its predecessor's place.              *)
THEOREM RecordStaysInRoom == Spec => []TypeOK
<1>1. DInv /\ RoomInv => TypeOK
  BY DEF DInv, Types, RoomInv, TypeOK
<1> QED
  BY <1>1, RoomInit, DInvariant, RoomNext, PTL DEF Spec

-----------------------------------------------------------------------------
(* Whatever moved while the table was read, and whatever pid was handed    *)
(* on, a scan of descendants.go records no process the worker did not      *)
(* fork.                                                                   *)
THEOREM RecordedAreDescendants == Spec => []OnlyDescendants
<1>1. DInv => OnlyDescendants
  BY DEF DInv, RecordInv, OnlyDescendants
<1> QED
  BY <1>1, DInvariant, PTL

(* A scan never leaves two identities under one pid in the record, which   *)
(* a resume would refuse for good.                                         *)
THEOREM PidsAreRecordedOnce == Spec => []NoPidTwice
<1>1. DInv => NoPidTwice
  BY DEF DInv, RecordInv, Unique, NoPidTwice
<1> QED
  BY <1>1, DInvariant, PTL

(* commitDescendants lets go of an identity only when its process is over, *)
(* so an escaped descendant that lives stays on record.                    *)
THEOREM LivingStayOnRecord == Spec => [][DroppedAreGone]_vars
<1>1. DInv /\ [Next]_vars => [DroppedAreGone]_vars
  <2> SUFFICES ASSUME DInv, [Next]_vars, NEW e \in alive, e \notin alive'
               PROVE  ~Living(e)
    BY DEF DroppedAreGone
  <2>1. CASE Commit
    BY <2>1 DEF Commit, DInv, RecordInv
  <2>2. CASE UNCHANGED alive
    BY <2>2
  <2>3. Commit \/ UNCHANGED alive
    BY DEF Next, KernelStep, ScanStep, BeginScan, Check, ListTable, ReadRow, Visit,
           vars, record
  <2> QED
    BY <2>1, <2>2, <2>3
<1> QED
  BY <1>1, DInvariant, PTL DEF Spec

(* What a scan leaves on record: descendants, each pid once, within the    *)
(* room there is, and nobody who lives is dropped.                         *)
THEOREM RecordStaysTrue == Spec => RecordIsTrue
<1>1. /\ (TypeOK /\ OnlyDescendants /\ NoPidTwice)'
      /\ [DroppedAreGone]_vars
      => [DroppedAreGone /\ (TypeOK /\ OnlyDescendants /\ NoPidTwice)']_vars
  OBVIOUS
<1> QED
  BY <1>1, RecordStaysInRoom, RecordedAreDescendants, PidsAreRecordedOnce, LivingStayOnRecord, PTL
     DEF RecordIsTrue


-----------------------------------------------------------------------------
(* A worker does not leave the group it leads. *)
LeaderInv == proc[Leader].inGroup

(* A scan that nothing disturbs has the table the kernel has.  W is what   *)
(* it has walked through: all the table has below it is in W or waits to   *)
(* be visited, and what escaped of it is recorded.                         *)
Covers(W) ==
  /\ Roots(table) \subseteq W \cup visit
  /\ \A q \in Pid : IsThere(proc, q) /\ proc[q].parent \in W => q \in W \cup visit
  /\ \A q \in W : IsThere(proc, q) /\ ~proc[q].inGroup => Of(proc, q) \in next \/ overflow

QuietInv ==
  still =>
    /\ phase # "idle"
    /\ phase = "read" => \A p \in Pid \ unread : table[p] = proc[p]
    /\ phase = "walk" /\ ~errs => table = proc /\ \E W \in SUBSET Pid : Covers(W)

(* The row a scan visits in a table nothing has torn. *)
LEMMA VisitCovers ==
  ASSUME DInv, RoomInv, LeaderInv, NEW p \in Pid, Visit(p), still, ~errs', table = proc,
         NEW W \in SUBSET Pid, Covers(W)
  PROVE  Covers(W \cup {p})'
<1>1. Types /\ ProcInv /\ RowInv /\ RecordInv
  BY DEF DInv
<1>2. /\ UNCHANGED <<clock, proc, kin, table, alive>>
      /\ p \in visit /\ next' = Noted(p) /\ overflow' = (overflow \/ Dropped(p))
  BY DEF Visit, kernel
<1>3. IsThere(proc, p) /\ Of(table, p) = Of(proc, p)
  BY <1>1, <1>2 DEF RecordInv
<1>4. Living(Of(table, p))
  BY <1>3 DEF Living, Of
<1>5. visit' = (visit \ {p}) \cup Children(p)
  BY <1>4 DEF Visit
<1> DEFINE d == Of(proc, p)
<1> HIDE DEF d
<1>6. d \in Identity /\ d.pid = p /\ d.start = proc[p].start /\ proc[p].start \in Nat
  BY <1>1, <1>3, OfIdentity DEF d, Of, Time
<1>7. ASSUME NEW e \in next, e.pid = p, ~(proc[p].start > e.start) PROVE e = d
  <2>1. Was(e) /\ e \in Identity /\ e.start \in Nat
    BY <1>1 DEF RecordInv, Types, Identity, Time
  <2>2. e.start = proc[p].start
    BY <1>3, <1>6, <1>7, <2>1 DEF Was, Living, Over
  <2> QED
    BY <1>6, <1>7, <2>1, <2>2 DEF Identity
<1>8. next' \subseteq next \cup {d}
  BY <1>2, <1>3 DEF Noted, d
<1>9. \A e \in next : e.pid # p => e \in next'
  BY <1>2 DEF Noted, RecordedAs
<1>10. d \in next => d \in next'
  <2> SUFFICES ASSUME d \in next PROVE d \in next'
    OBVIOUS
  <2>1. p \in Roots(table)
    BY <1>3 DEF Roots, d, IsThere
  <2> QED
    BY <1>2, <2>1 DEF Noted
<1>11. Cardinality(next) \in Nat /\ MaxRecorded \in Nat
  BY BoundAssumption, FS_CardinalityType DEF RoomInv
<1>12. ~proc[p].inGroup => d \in next' \/ overflow'
  <2> SUFFICES ASSUME ~proc[p].inGroup, d \notin next
               PROVE  d \in next' \/ overflow'
    BY <1>10
  <2>1. p \notin Roots(table) /\ ~table[p].inGroup
    BY <1>3 DEF Roots, LeaderInv, d
  <2>2. CASE RecordedAs(p) = {}
    <3>1. CASE Cardinality(next) < MaxRecorded
      <4>1. Noted(p) = next \cup {Of(table, p)}
        BY <2>1, <2>2, <3>1 DEF Noted
      <4> QED
        BY <1>2, <1>3, <4>1 DEF d
    <3>2. CASE Cardinality(next) >= MaxRecorded
      BY <1>2, <2>1, <2>2, <3>2 DEF Dropped
    <3> QED
      BY <1>11, <3>1, <3>2
  <2>3. CASE \E e \in RecordedAs(p) : proc[p].start > e.start
    BY <1>2, <1>3, <2>1, <2>3 DEF Noted, d
  <2>4. CASE RecordedAs(p) # {} /\ \A e \in RecordedAs(p) : ~(proc[p].start > e.start)
    BY <1>7, <2>4 DEF RecordedAs
  <2> QED
    BY <2>2, <2>3, <2>4
<1>13. Roots(table)' \subseteq (W \cup {p}) \cup visit'
  <2> SUFFICES ASSUME NEW q \in Pid, IsThere(table, q), q = Leader \/ Of(table, q) \in next', q # p
               PROVE  q \in (W \cup {p}) \cup visit'
    BY <1>2 DEF Roots
  <2>1. Of(table, q) # d
    BY <1>6 DEF Of
  <2>2. q \in Roots(table)
    BY <1>8, <2>1 DEF Roots
  <2> QED
    BY <1>5, <2>2 DEF Covers
<1>14. ASSUME NEW q \in Pid, IsThere(proc, q), proc[q].parent \in W \cup {p}
       PROVE  q \in (W \cup {p}) \cup visit'
  <2>1. CASE proc[q].parent = p
    <3>1. proc[q].start >= proc[p].start
      <4>1. proc[q].start \in Nat /\ proc[p].start <= proc[q].start
        BY <1>1, <1>14, <2>1, OfIdentity DEF ProcInv, Time
      <4> QED
        BY <1>6, <4>1
    <3>2. q \in Roots(table) \/ q \in Children(p)
      BY <1>14, <2>1, <3>1 DEF Children
    <3> QED
      BY <1>5, <3>2 DEF Covers
  <2>2. CASE proc[q].parent # p
    BY <1>5, <1>14, <2>2 DEF Covers
  <2> QED
    BY <2>1, <2>2
<1>15. ASSUME NEW q \in W \cup {p}, IsThere(proc, q), ~proc[q].inGroup
       PROVE  Of(proc, q) \in next' \/ overflow'
  <2>1. CASE q = p
    BY <1>12, <1>15, <2>1 DEF d
  <2>2. CASE q # p
    <3>1. Of(proc, q) \in next \/ overflow
      BY <1>15, <2>2 DEF Covers
    <3>2. Of(proc, q).pid # p
      BY <2>2 DEF Of
    <3> QED
      BY <1>2, <1>9, <3>1, <3>2
  <2> QED
    BY <2>1, <2>2
<1> QED
  BY <1>2, <1>13, <1>14, <1>15 DEF Covers, IsThere, Of

LEMMA LeaderNext == DInv /\ LeaderInv /\ [Next]_vars => LeaderInv'
<1> SUFFICES ASSUME DInv, LeaderInv, [Next]_vars PROVE LeaderInv'
  OBVIOUS
<1>1. proc \in [Pid -> Process \cup {Nobody}] /\ IsThere(proc, Leader) /\ Leader \in Pid
  BY LeaderAssumption DEF DInv, Types, ProcInv
<1>2. CASE KernelStep
  <2>1. CASE Tick
    BY <2>1 DEF Tick, LeaderInv
  <2>2. ASSUME NEW p \in Pid, NEW x, NEW i, Starts(p, x, i) PROVE LeaderInv'
    BY <1>1, <2>2 DEF Starts, LeaderInv
  <2>3. ASSUME NEW p \in Pid, LeavesGroup(p) PROVE LeaderInv'
    BY <1>1, <2>3 DEF LeavesGroup, LeaderInv
  <2>4. ASSUME NEW p \in Pid, Exits(p) PROVE LeaderInv'
    <3>1. proc'[Leader] = proc[Leader] \/ proc'[Leader] = [proc[Leader] EXCEPT !.parent = Init1]
      BY <1>1, <2>4 DEF Exits
    <3>2. proc[Leader] \in Process
      BY <1>1 DEF IsThere
    <3> QED
      BY <3>1, <3>2 DEF LeaderInv, Process
  <2> QED
    BY <1>2, <2>1, <2>2, <2>3, <2>4 DEF KernelStep, Fork, StrangerStarts
<1>3. CASE UNCHANGED proc
  BY <1>3 DEF LeaderInv
<1> QED
  BY <1>2, <1>3 DEF Next, ScanStep, BeginScan, Check, ListTable, ReadRow, Visit, Commit, vars, kernel

LEMMA QuietNext == DInv /\ RoomInv /\ LeaderInv /\ QuietInv /\ [Next]_vars => QuietInv'
<1> SUFFICES ASSUME DInv, RoomInv, LeaderInv, QuietInv, [Next]_vars, still' PROVE QuietInv'
  BY DEF QuietInv
<1>1. Types /\ ProcInv /\ RecordInv
  BY DEF DInv
<1>2. CASE BeginScan
  BY <1>2 DEF BeginScan, QuietInv
<1>3. CASE \E e \in check : Check(e)
  BY <1>3 DEF Check, QuietInv
<1>4. CASE ListTable
  BY <1>4 DEF ListTable, QuietInv
<1>5. ASSUME NEW p \in Pid, ReadRow(p) PROVE QuietInv'
  <2>1. /\ UNCHANGED <<proc, next, errs, still>> /\ phase = "read" /\ unread' = unread \ {p}
        /\ table' = [table EXCEPT ![p] = proc[p]]
        /\ \/ unread' = {} /\ phase' = "walk" /\ visit' = Roots(table')
           \/ phase' = "read"
    BY <1>5 DEF ReadRow, kernel
  <2>2. \A q \in Pid \ unread' : table'[q] = proc[q]
    BY <1>1, <2>1 DEF QuietInv, Types
  <2>3. CASE phase' = "read"
    BY <2>1, <2>2, <2>3 DEF QuietInv
  <2>4. CASE unread' = {} /\ phase' = "walk" /\ visit' = Roots(table')
    <3>1. table' = proc
      BY <1>1, <2>1, <2>2, <2>4 DEF Types
    <3>2. Covers({})'
      BY <2>1, <2>4 DEF Covers, Roots
    <3> QED
      BY <2>1, <2>4, <3>1, <3>2 DEF QuietInv
  <2> QED
    BY <2>1, <2>3, <2>4
<1>6. ASSUME NEW p \in Pid, Visit(p) PROVE QuietInv'
  <2>1. UNCHANGED <<proc, table, phase, still>> /\ phase = "walk" /\ (errs => errs')
    <3>1. UNCHANGED <<proc, table, phase, still>> /\ phase = "walk"
      BY <1>6 DEF Visit, kernel
    <3>2. errs' = errs \/ errs' = TRUE
      BY <1>6 DEF Visit
    <3>3. errs => errs'
      BY <3>2, Zenon
    <3> QED
      BY <3>1, <3>3
  <2>2. CASE errs'
    BY <2>1, <2>2 DEF QuietInv
  <2>3. CASE ~errs'
    <3>1. PICK W \in SUBSET Pid : table = proc /\ Covers(W)
      BY <2>1, <2>3 DEF QuietInv
    <3>2. PICK V : V = W \cup {p}
      OBVIOUS
    <3>3. V \in SUBSET Pid /\ Covers(V)'
      BY <1>6, <2>1, <2>3, <3>1, <3>2, VisitCovers DEF Covers
    <3> QED
      BY <2>1, <3>1, <3>3 DEF QuietInv
  <2> QED
    BY <2>2, <2>3
<1>7. CASE KernelStep \/ Commit
  BY <1>7 DEF KernelStep, Commit
<1>8. CASE UNCHANGED vars
  <2>1. UNCHANGED <<proc, phase, unread, table, visit, next, errs, still, overflow>>
    BY <1>8 DEF vars, kernel, scan, record
  <2>2. \A W : Covers(W) => Covers(W)'
    BY <2>1 DEF Covers, Roots, IsThere, Of
  <2> QED
    BY <2>1, <2>2 DEF QuietInv
<1> QED
  BY <1>2, <1>3, <1>4, <1>5, <1>6, <1>7, <1>8 DEF Next, ScanStep

(* A scan of descendants.go that no process moves under, and that could    *)
(* read what it needed, misses no escaped descendant, however deep, but    *)
(* for want of room, which it says.                                        *)
THEOREM QuietScansFindAll == Spec => []QuietScanFindsAll
<1>1. Init => LeaderInv /\ QuietInv
  <2> SUFFICES ASSUME Init PROVE LeaderInv /\ QuietInv
    OBVIOUS
  <2>1. proc[Leader] = [start |-> 0, parent |-> Init1, inGroup |-> TRUE]
    BY LeaderAssumption DEF Init, NoTable
  <2> QED
    BY <2>1 DEF Init, LeaderInv, QuietInv
<1>2. DInv /\ QuietInv => QuietScanFindsAll
  <2> SUFFICES ASSUME DInv, QuietInv, phase = "walk", visit = {}, still, ~errs,
                      NEW p \in Pid, IsThere(proc, p), ~proc[p].inGroup, Below(p)
               PROVE  Of(proc, p) \in next \/ overflow
    BY DEF QuietScanFindsAll
  <2>1. PICK W \in SUBSET Pid : table = proc /\ Covers(W)
    BY DEF QuietInv
  <2>2. Leader \in W
    BY <2>1, LeaderAssumption DEF DInv, ProcInv, Covers, Roots
  <2>3. ASSUME NEW e \in alive, Living(e) PROVE e.pid \in W
    <3>1. e \in next /\ e \in Identity
      BY <2>3 DEF DInv, Types, RecordInv
    <3>2. e.pid \in Pid /\ IsThere(proc, e.pid) /\ Of(proc, e.pid) = e
      BY <2>3, <3>1 DEF Identity, Living, Of
    <3> QED
      BY <2>1, <3>1, <3>2 DEF Covers, Roots
  <2>4. \A q \in Pid : IsThere(proc, q) /\ proc[q].parent \in W => q \in W
    BY <2>1 DEF Covers
  <2>5. p \in W
    BY <2>2, <2>3, <2>4 DEF Below
  <2> QED
    BY <2>1, <2>5 DEF Covers
<1>3. Init => RoomInv
  BY RoomInit
<1> QED
  BY <1>1, <1>2, <1>3, DInvariant, RoomNext, LeaderNext, QuietNext, PTL DEF Spec
=============================================================================
