--------------------------- MODULE SessionsProofs ---------------------------
(***************************************************************************)
(* Theorems about what the ledger keeps of a session while its processes   *)
(* come and go: the files it has written, the queue of its adapter, the    *)
(* processes themselves and the observations of its turns, for any         *)
(* sessions, processes, hooks and bounds.  Each part has its own inductive *)
(* invariant; a step of another part leaves it alone, for a behaviour is   *)
(* of one part.                                                            *)
(***************************************************************************)
EXTENDS MCSessions, Integers, Sequences, FiniteSets, SequenceTheorems, WellFoundedInduction, TLAPS

(***************************************************************************)
(* Dirty files.  What keeps an uncommitted file on record is that a scan   *)
(* in flight can only retract what was recorded before it began, and that  *)
(* everything owed then is on its list.  What announces a collision is     *)
(* that the later of two recorders has still to look, unless one of the    *)
(* two was told.                                                           *)
(***************************************************************************)
Held == {p \in Session \X File : rows[p] # -1}
Alive(s) == ended[s] = -1

Plain == [at : {"reads", "claim", "record", "peers", "warn"}, s : Session, f : File, edits : BOOLEAN]
Listing == [at : {"git"}, s : Session, f : File, edits : BOOLEAN, started : Nat]
Listed == [at : {"retain"}, s : Session, f : File, edits : BOOLEAN, started : Nat, dirty : SUBSET File]
NoBeat == [at |-> "none"]

BeatsTyped(B) == beats \in [B -> {NoBeat} \cup Plain \cup Listing \cup Listed]

DirtyTypeOK ==
  /\ now \in Nat /\ tree \subseteq File
  /\ ended \in [Session -> Int] /\ scans \in [Session -> Int]
  /\ rows \in [Session \X File -> Int]
  /\ warned \subseteq Session \X File /\ owed \subseteq Session \X File /\ spoiled \subseteq Session \X File

(* No stamp is of the future. *)
StampsInv == \A s \in Session : scans[s] <= now

(* What is owed is on record and in the tree, and on the list of every     *)
(* scan that began after it was recorded.                                  *)
OwedInv(B) ==
  /\ owed \subseteq Held /\ \A p \in owed : p[2] \in tree
  /\ \A h \in B : beats[h].at \in {"git", "retain"} => beats[h].started <= now
  /\ \A h \in B : beats[h].at = "retain" =>
       \A p \in owed : rows[p] < beats[h].started => p[2] \in beats[h].dirty

(* A beat that has recorded a pair and will look for its other holders. *)
WillLook(h, p) ==
  beats[h].at \in {"peers", "warn"} /\ beats[h].edits /\ beats[h].s = p[1] /\ beats[h].f = p[2]

Told(B, p) == p \in warned \/ \E h \in B : WillLook(h, p)

Collide(p, q) == p[1] # q[1] /\ p[2] = q[2] /\ Alive(p[1]) /\ Alive(q[1])

ToldInv(B) ==
  /\ \A h \in B : beats[h].at \in {"peers", "warn"} => beats[h].edits
  /\ \A p \in Held : ~Alive(p[1]) => p \in spoiled
  /\ \A p, q \in Held \ spoiled : Collide(p, q) => Told(B, p) \/ Told(B, q)

DirtyInv(B) == DirtyTypeOK /\ BeatsTyped(B) /\ StampsInv /\ OwedInv(B) /\ ToldInv(B)

-----------------------------------------------------------------------------
(* What of a beat is kept by a step that moves it on. *)
LEMMA BeatKinds ==
  ASSUME NEW B, NEW h \in B, BeatsTyped(B)
  PROVE  /\ beats[h] = NoBeat \/ beats[h] \in Plain \/ beats[h] \in Listing \/ beats[h] \in Listed
         /\ beats[h].at \in {"none", "reads", "claim", "record", "peers", "warn", "git", "retain"}
         /\ beats[h].at = "none" => beats[h] = NoBeat
         /\ beats[h].at \in {"reads", "claim", "record", "peers", "warn"} => beats[h] \in Plain
         /\ beats[h].at = "git" => beats[h] \in Listing
         /\ beats[h].at = "retain" => beats[h] \in Listed
  <1>1. beats[h] \in {NoBeat} \cup Plain \cup Listing \cup Listed
    BY DEF BeatsTyped
  <1>2. NoBeat.at = "none" /\ (\A b \in Listing : b.at = "git") /\ (\A b \in Listed : b.at = "retain")
    BY DEF NoBeat, Listing, Listed
  <1>3. \A b \in Plain : b.at \in {"reads", "claim", "record", "peers", "warn"}
    BY DEF Plain
  <1> QED
    BY <1>1, <1>2, <1>3

LEMMA MovesOn ==
  ASSUME NEW b \in Plain, NEW at \in {"reads", "claim", "record", "peers", "warn"}
  PROVE  /\ [b EXCEPT !.at = at] \in Plain
         /\ [b EXCEPT !.at = at].at = at /\ [b EXCEPT !.at = at].s = b.s
         /\ [b EXCEPT !.at = at].f = b.f /\ [b EXCEPT !.at = at].edits = b.edits
  BY DEF Plain

(* Beats other than the one that moves are as they were. *)
LEMMA OneMoves ==
  ASSUME NEW B, NEW h \in B, BeatsTyped(B), NEW b, beats' = [beats EXCEPT ![h] = b],
         b \in {NoBeat} \cup Plain \cup Listing \cup Listed
  PROVE  /\ BeatsTyped(B)' /\ beats'[h] = b
         /\ \A g \in B : g # h => beats'[g] = beats[g]
  BY DEF BeatsTyped

LEMMA DirtyInit == ASSUME NEW B, NEW T, dirty(B, T)!Init PROVE DirtyInv(B)
  <1>1. DirtyTypeOK /\ StampsInv
    BY DEF dirty!Init, DirtyTypeOK, StampsInv, dirty!Never
  <1>2. BeatsTyped(B) /\ \A h \in B : beats[h].at = "none"
    BY DEF dirty!Init, BeatsTyped, dirty!Free, NoBeat
  <1>3. Held = {}
    BY DEF dirty!Init, Held, dirty!Never
  <1>4. OwedInv(B)
    BY <1>2 DEF dirty!Init, OwedInv
  <1>5. ToldInv(B)
    BY <1>2, <1>3 DEF ToldInv
  <1> QED
    BY <1>1, <1>2, <1>4, <1>5 DEF DirtyInv

-----------------------------------------------------------------------------
(* The world. *)
LEMMA DirtyTick == ASSUME NEW B, NEW T, DirtyInv(B), dirty(B, T)!Tick PROVE DirtyInv(B)'
  <1> USE DEF dirty!Tick, dirty!tables, dirty!history
  <1>1. DirtyTypeOK' /\ BeatsTyped(B)'
    BY DEF DirtyInv, DirtyTypeOK, BeatsTyped
  <1>2. StampsInv'
    BY DEF DirtyInv, DirtyTypeOK, StampsInv
  <1>3. \A h \in B : beats[h].at \in {"git", "retain"} => beats[h].started <= now'
    <2> TAKE h \in B
    <2> HAVE beats[h].at \in {"git", "retain"}
    <2>1. beats[h].started \in Nat
      BY BeatKinds DEF DirtyInv, Listing, Listed
    <2> QED
      BY <2>1 DEF DirtyInv, DirtyTypeOK, OwedInv
  <1>4. OwedInv(B)'
    BY <1>3 DEF DirtyInv, OwedInv, Held
  <1>5. ToldInv(B)'
    BY DEF DirtyInv, ToldInv, Held, Alive, Collide, Told, WillLook
  <1> QED
    BY <1>1, <1>2, <1>4, <1>5 DEF DirtyInv

LEMMA DirtyBye ==
  ASSUME NEW B, NEW T, DirtyInv(B), NEW s \in Session, dirty(B, T)!Bye(s)
  PROVE  DirtyInv(B)'
  <1> USE DEF dirty!Bye, dirty!tables
  <1>1. DirtyTypeOK' /\ BeatsTyped(B)'
    BY DEF DirtyInv, DirtyTypeOK, BeatsTyped, dirty!Rows
  <1>2. StampsInv' /\ OwedInv(B)'
    BY DEF DirtyInv, StampsInv, OwedInv, Held
  <1>3. Held' = Held /\ spoiled \subseteq spoiled' /\ \A p \in Held : p[1] = s => p \in spoiled'
    BY DEF Held, dirty!Rows, dirty!Never
  <1>4. \A t \in Session : Alive(t)' => Alive(t)
    BY DEF DirtyInv, DirtyTypeOK, Alive
  <1>5. \A t \in Session : t # s /\ ~Alive(t)' => ~Alive(t)
    BY DEF DirtyInv, DirtyTypeOK, Alive
  <1>6. \A p \in Held : p[1] \in Session
    BY DEF Held
  <1>7. \A p, q \in Held : Collide(p, q)' => Collide(p, q)
    BY <1>4, <1>6 DEF Collide
  <1>8. \A p : Told(B, p)' <=> Told(B, p)
    BY DEF Told, WillLook
  <1>9. ToldInv(B)'
    <2>1. \A p \in Held : ~Alive(p[1])' => p \in spoiled'
      BY <1>3, <1>5, <1>6 DEF DirtyInv, ToldInv
    <2>2. \A p, q \in (Held \ spoiled)' : Collide(p, q)' => Told(B, p)' \/ Told(B, q)'
      BY <1>3, <1>7, <1>8 DEF DirtyInv, ToldInv
    <2> QED
      BY <1>3, <2>1, <2>2 DEF DirtyInv, ToldInv
  <1> QED
    BY <1>1, <1>2, <1>9 DEF DirtyInv

LEMMA DirtyHello ==
  ASSUME NEW B, NEW T, DirtyInv(B), NEW s \in Session, dirty(B, T)!Hello(s)
  PROVE  DirtyInv(B)'
  <1> USE DEF dirty!Hello, dirty!tables, dirty!history
  <1>1. DirtyTypeOK' /\ BeatsTyped(B)'
    BY DEF DirtyInv, DirtyTypeOK, BeatsTyped, dirty!Never
  <1>2. StampsInv' /\ OwedInv(B)'
    BY DEF DirtyInv, StampsInv, OwedInv, Held
  <1>3. Held' = Held /\ \A p \in Held : p[1] \in Session
    BY DEF Held
  <1>4. ~Alive(s) /\ \A t \in Session : Alive(t)' => Alive(t) \/ t = s
    BY DEF DirtyInv, DirtyTypeOK, Alive, dirty!Live, dirty!Never
  <1>5. \A t \in Session : Alive(t) => Alive(t)'
    BY DEF DirtyInv, DirtyTypeOK, Alive, dirty!Never
  <1>6. \A p, q \in Held \ spoiled : Collide(p, q)' => Collide(p, q)
    BY <1>3, <1>4 DEF Collide, DirtyInv, ToldInv
  <1>7. \A p : Told(B, p)' <=> Told(B, p)
    BY DEF Told, WillLook
  <1>8. ToldInv(B)'
    <2>1. \A p \in Held : ~Alive(p[1])' => p \in spoiled
      BY <1>3, <1>5 DEF DirtyInv, ToldInv
    <2> QED
      BY <1>3, <1>6, <1>7, <2>1 DEF DirtyInv, ToldInv
  <1> QED
    BY <1>1, <1>2, <1>8 DEF DirtyInv

LEMMA DirtyTree ==
  ASSUME NEW B, NEW T, DirtyInv(B), NEW f \in File, dirty(B, T)!ShellWrites(f) \/ dirty(B, T)!Clean(f)
  PROVE  DirtyInv(B)'
  <1> USE DEF dirty!ShellWrites, dirty!Clean, dirty!tables, dirty!history
  <1>1. DirtyTypeOK' /\ BeatsTyped(B)' /\ StampsInv'
    BY DEF DirtyInv, DirtyTypeOK, BeatsTyped, StampsInv
  <1>2. owed' \subseteq owed /\ \A p \in owed' : p[2] \in tree => p[2] \in tree'
    OBVIOUS
  <1>3. OwedInv(B)'
    BY <1>2 DEF DirtyInv, OwedInv, Held
  <1>4. ToldInv(B)'
    BY DEF DirtyInv, ToldInv, Held, Alive, Collide, Told, WillLook
  <1> QED
    BY <1>1, <1>3, <1>4 DEF DirtyInv

-----------------------------------------------------------------------------
(* A step of one beat that writes nothing down keeps the invariant, if     *)
(* what the beat now carries is right and if it forgets no look it owes.   *)
LEMMA BeatMoves ==
  ASSUME NEW B, NEW h \in B, DirtyInv(B), NEW b,
         beats' = [beats EXCEPT ![h] = b], b \in {NoBeat} \cup Plain \cup Listing \cup Listed,
         UNCHANGED <<now, ended, rows, warned, owed, spoiled>>,
         tree \subseteq tree', tree' \subseteq File, scans' \in [Session -> Int], StampsInv',
         b.at \in {"git", "retain"} => b.started <= now,
         b.at = "retain" => \A p \in owed : rows[p] < b.started => p[2] \in b.dirty,
         b.at \in {"peers", "warn"} => b.edits,
         \A p, q \in Held \ spoiled : WillLook(h, p) /\ Collide(p, q) =>
           p \in warned \/ (b.at \in {"peers", "warn"} /\ b.s = p[1] /\ b.f = p[2])
  PROVE  DirtyInv(B)'
  <1>1. BeatsTyped(B)' /\ beats'[h] = b /\ \A g \in B : g # h => beats'[g] = beats[g]
    BY OneMoves DEF DirtyInv
  <1>2. DirtyTypeOK'
    BY DEF DirtyInv, DirtyTypeOK
  <1>3. OwedInv(B)'
    <2>1. \A g \in B : beats'[g].at \in {"git", "retain"} => beats'[g].started <= now
      BY <1>1 DEF DirtyInv, OwedInv
    <2>2. \A g \in B : beats'[g].at = "retain" => \A p \in owed : rows[p] < beats'[g].started => p[2] \in beats'[g].dirty
      BY <1>1 DEF DirtyInv, OwedInv
    <2>3. Held' = Held
      BY DEF Held
    <2> QED
      BY <2>1, <2>2, <2>3 DEF DirtyInv, OwedInv
  <1>4. Held' = Held /\ \A p, q : Collide(p, q)' <=> Collide(p, q)
    BY DEF Held, Collide, Alive
  <1>5. \A g \in B : beats'[g].at \in {"peers", "warn"} => beats'[g].edits
    BY <1>1 DEF DirtyInv, ToldInv
  <1>6. \A p, q \in Held \ spoiled : Collide(p, q) /\ Told(B, p) => Told(B, p)'
    <2> SUFFICES ASSUME NEW p \in Held \ spoiled, NEW q \in Held \ spoiled, Collide(p, q), Told(B, p)
                 PROVE  Told(B, p)'
      OBVIOUS
    <2>1. CASE p \in warned
      BY <2>1 DEF Told
    <2>2. CASE \E g \in B : WillLook(g, p)
      <3>1. PICK g \in B : WillLook(g, p)
        BY <2>2
      <3>2. CASE g # h
        BY <1>1, <3>1, <3>2 DEF Told, WillLook
      <3>3. CASE g = h
        BY <1>1, <3>1, <3>3 DEF Told, WillLook
      <3> QED
        BY <3>2, <3>3
    <2> QED
      BY <2>1, <2>2 DEF Told
  <1>7. \A p, q : Collide(p, q) => Collide(q, p)
    BY DEF Collide
  <1>8. ToldInv(B)'
    <2>1. \A p \in Held' : ~Alive(p[1])' => p \in spoiled'
      BY <1>4 DEF DirtyInv, ToldInv, Alive
    <2>2. \A p, q \in (Held \ spoiled)' : Collide(p, q)' => Told(B, p)' \/ Told(B, q)'
      BY <1>4, <1>6, <1>7 DEF DirtyInv, ToldInv
    <2> QED
      BY <1>5, <2>1, <2>2 DEF ToldInv
  <1> QED
    BY <1>1, <1>2, <1>3, <1>8 DEF DirtyInv

LEMMA DirtyLaunch ==
  ASSUME NEW B, NEW T, DirtyInv(B), NEW h \in B, NEW s \in Session, NEW f \in File,
         dirty(B, T)!Edit(h, s, f) \/ dirty(B, T)!Look(h, s, f)
  PROVE  DirtyInv(B)'
  <1> USE DEF dirty!Edit, dirty!Look, dirty!tables, dirty!history, dirty!world
  <1>1. PICK edits \in BOOLEAN :
          beats' = [beats EXCEPT ![h] = [at |-> "reads", s |-> s, f |-> f, edits |-> edits]]
    OBVIOUS
  <1> DEFINE b == [at |-> "reads", s |-> s, f |-> f, edits |-> edits]
  <1>2. b \in Plain /\ b.at = "reads"
    BY DEF Plain
  <1>3. tree \subseteq tree' /\ tree' \subseteq File
    BY DEF DirtyInv, DirtyTypeOK
  <1>4. UNCHANGED <<now, ended, rows, scans, warned, owed, spoiled>> /\ ~\E p : WillLook(h, p)
    BY DEF WillLook, dirty!Free
  <1>5. scans' \in [Session -> Int] /\ StampsInv'
    BY <1>4 DEF DirtyInv, DirtyTypeOK, StampsInv
  <1> HIDE DEF b, dirty!Edit, dirty!Look
  <1> QED
    BY <1>1, <1>2, <1>3, <1>4, <1>5, BeatMoves DEF b

LEMMA DirtyReadLease ==
  ASSUME NEW B, NEW T, DirtyInv(B), NEW h \in B, dirty(B, T)!ReadLease(h)
  PROVE  DirtyInv(B)'
  <1>1. beats[h].at = "reads" /\ UNCHANGED <<now, ended, tree, rows, scans, warned, owed, spoiled>>
    BY DEF dirty!ReadLease, dirty!At, dirty!tables, dirty!history, dirty!world
  <1>2. beats[h] \in Plain
    BY <1>1, BeatKinds DEF DirtyInv
  <1>3. PICK b \in {NoBeat, [beats[h] EXCEPT !.at = "claim"], [beats[h] EXCEPT !.at = "record"]} :
          beats' = [beats EXCEPT ![h] = b]
    BY DEF dirty!ReadLease, dirty!Go, dirty!End, dirty!Free, NoBeat
  <1>4. b \in {NoBeat} \cup Plain /\ b.at \in {"none", "claim", "record"}
    <2>1. NoBeat.at = "none"
      BY DEF NoBeat
    <2>2. [beats[h] EXCEPT !.at = "claim"] \in Plain /\ [beats[h] EXCEPT !.at = "claim"].at = "claim"
      BY <1>2, MovesOn
    <2>3. [beats[h] EXCEPT !.at = "record"] \in Plain /\ [beats[h] EXCEPT !.at = "record"].at = "record"
      BY <1>2, MovesOn
    <2> QED
      BY <2>1, <2>2, <2>3
  <1>5. scans' \in [Session -> Int] /\ StampsInv' /\ tree' \subseteq File
    BY <1>1 DEF DirtyInv, DirtyTypeOK, StampsInv
  <1>6. ~\E p : WillLook(h, p)
    BY <1>1 DEF WillLook
  <1> QED
    BY <1>1, <1>3, <1>4, <1>5, <1>6, BeatMoves

LEMMA DirtyClaimScan ==
  ASSUME NEW B, NEW T, DirtyInv(B), NEW h \in B, dirty(B, T)!ClaimScan(h)
  PROVE  DirtyInv(B)'
  <1>1. beats[h].at = "claim" /\ UNCHANGED <<now, ended, tree, rows, warned, owed, spoiled>>
    BY DEF dirty!ClaimScan, dirty!At, dirty!history, dirty!world
  <1>2. beats[h] \in Plain
    BY <1>1, BeatKinds DEF DirtyInv
  <1>3. ~\E p : WillLook(h, p)
    BY <1>1 DEF WillLook
  <1>4. now \in Nat /\ tree' \subseteq File /\ scans \in [Session -> Int] /\ StampsInv
    BY <1>1 DEF DirtyInv, DirtyTypeOK
  <1>5. CASE dirty(B, T)!StillDue(beats[h].s)
    <2> DEFINE b == [at |-> "git", s |-> beats[h].s, f |-> beats[h].f, edits |-> beats[h].edits, started |-> now]
    <2>1. beats' = [beats EXCEPT ![h] = b] /\ scans' = [scans EXCEPT ![beats[h].s] = now]
      BY <1>5 DEF dirty!ClaimScan
    <2>2. b \in Listing /\ b.at = "git" /\ b.started = now
      BY <1>2, <1>4 DEF Plain, Listing
    <2>3. scans' \in [Session -> Int] /\ StampsInv'
      <3>1. beats[h].s \in Session
        BY <1>2 DEF Plain
      <3>2. scans' \in [Session -> Int]
        BY <1>4, <2>1, <3>1
      <3>3. \A s \in Session : scans'[s] <= now
        BY <1>4, <2>1, <3>1 DEF StampsInv
      <3> QED
        BY <1>1, <3>2, <3>3 DEF StampsInv
    <2>4. b.started <= now
      BY <1>4
    <2> HIDE DEF b
    <2> QED
      BY <1>1, <1>3, <1>4, <2>1, <2>2, <2>3, <2>4, BeatMoves
  <1>6. CASE ~dirty(B, T)!StillDue(beats[h].s)
    <2> DEFINE b == [beats[h] EXCEPT !.at = "record"]
    <2>1. beats' = [beats EXCEPT ![h] = b] /\ scans' = scans
      BY <1>6 DEF dirty!ClaimScan, dirty!Go
    <2>2. b \in Plain /\ b.at = "record"
      BY <1>2, MovesOn
    <2>3. StampsInv'
      BY <1>1, <1>4, <2>1 DEF StampsInv
    <2> HIDE DEF b
    <2> QED
      BY <1>1, <1>3, <1>4, <2>1, <2>2, <2>3, BeatMoves
  <1> QED
    BY <1>5, <1>6

LEMMA DirtyGitStatus ==
  ASSUME NEW B, NEW T, DirtyInv(B), NEW h \in B, dirty(B, T)!GitStatus(h)
  PROVE  DirtyInv(B)'
  <1> DEFINE c == beats[h]
             b == [at |-> "retain", s |-> c.s, f |-> c.f, edits |-> c.edits, started |-> c.started, dirty |-> tree]
             d == [at |-> "record", s |-> c.s, f |-> c.f, edits |-> c.edits]
  <1>1. c.at = "git" /\ UNCHANGED <<now, ended, tree, rows, scans, warned, owed, spoiled>>
    BY DEF dirty!GitStatus, dirty!At, dirty!history, dirty!world, dirty!tables
  <1>2. c \in Listing
    BY <1>1, BeatKinds DEF DirtyInv
  <1>3. ~\E p : WillLook(h, p)
    BY <1>1 DEF WillLook
  <1>4. tree \subseteq File /\ tree' \subseteq File /\ scans' \in [Session -> Int] /\ StampsInv'
    BY <1>1 DEF DirtyInv, DirtyTypeOK, StampsInv
  <1>5. beats' = [beats EXCEPT ![h] = b] \/ beats' = [beats EXCEPT ![h] = d]
    BY DEF dirty!GitStatus, dirty!DirtyStatus
  <1>6. b \in Listed /\ b.at = "retain" /\ b.started = c.started /\ b.dirty = tree
    BY <1>2, <1>4 DEF Listing, Listed
  <1>7. d \in Plain /\ d.at = "record"
    BY <1>2 DEF Listing, Plain
  <1>8. c.started <= now /\ \A p \in owed : p[2] \in tree
    BY <1>1 DEF DirtyInv, OwedInv
  <1> HIDE DEF b, d
  <1>9. CASE beats' = [beats EXCEPT ![h] = b]
    BY <1>1, <1>3, <1>4, <1>6, <1>8, <1>9, BeatMoves
  <1>10. CASE beats' = [beats EXCEPT ![h] = d]
    BY <1>1, <1>3, <1>4, <1>7, <1>10, BeatMoves
  <1> QED
    BY <1>5, <1>9, <1>10

LEMMA DirtyRetain ==
  ASSUME NEW B, NEW T, DirtyInv(B), NEW h \in B, dirty(B, T)!RetainDirty(h)
  PROVE  DirtyInv(B)'
  <1> DEFINE c == beats[h]
             d == [at |-> "record", s |-> c.s, f |-> c.f, edits |-> c.edits]
             gone == {p \in Held : rows[p] < c.started /\ p[2] \notin c.dirty}
  <1>1. c.at = "retain" /\ UNCHANGED <<now, ended, tree, scans, warned, owed>>
    BY DEF dirty!RetainDirty, dirty!At, dirty!world
  <1>2. c \in Listed
    BY <1>1, BeatKinds DEF DirtyInv
  <1>3. d \in Plain /\ d.at = "record" /\ beats' = [beats EXCEPT ![h] = d]
    BY <1>2 DEF Listed, Plain, dirty!RetainDirty
  <1>4. /\ rows' = [p \in Session \X File |-> IF p \in gone THEN -1 ELSE rows[p]]
        /\ spoiled' = {p \in spoiled : rows'[p] # -1}
    BY DEF dirty!RetainDirty, dirty!Before, dirty!Rows, dirty!Never, Held, DirtyInv, DirtyTypeOK
  <1>5. BeatsTyped(B)' /\ beats'[h] = d /\ \A g \in B : g # h => beats'[g] = beats[g]
    <2> HIDE DEF d
    <2> QED
      BY <1>3, OneMoves DEF DirtyInv
  <1>6. DirtyTypeOK' /\ StampsInv'
    BY <1>1, <1>4 DEF DirtyInv, DirtyTypeOK, StampsInv
  <1>7. Held' = Held \ gone /\ \A p \in Held' : rows'[p] = rows[p]
    BY <1>4 DEF Held
  <1>8. gone \cap owed = {}
    BY <1>1 DEF DirtyInv, OwedInv
  <1> HIDE DEF d, gone
  <1>9. \A p \in owed : p \in Held' /\ rows'[p] = rows[p]
    BY <1>7, <1>8 DEF DirtyInv, OwedInv
  <1>10. OwedInv(B)'
    <2>1. \A g \in B : beats'[g].at \in {"git", "retain"} => beats'[g].started <= now
      BY <1>3, <1>5 DEF DirtyInv, OwedInv
    <2>2. \A g \in B : beats'[g].at = "retain" => \A p \in owed : rows'[p] < beats'[g].started => p[2] \in beats'[g].dirty
      BY <1>3, <1>5, <1>9 DEF DirtyInv, OwedInv
    <2> QED
      BY <1>1, <1>9, <2>1, <2>2 DEF DirtyInv, OwedInv
  <1>11. \A p \in Held' : p \in Held /\ (p \in spoiled' <=> p \in spoiled)
    BY <1>4, <1>7 DEF Held
  <1>12. \A p, q : Collide(p, q)' <=> Collide(p, q)
    BY <1>1 DEF Collide, Alive
  <1>13. \A p : Told(B, p) => Told(B, p)'
    <2>1. \A g \in B : g = h => ~\E p : WillLook(g, p)
      BY <1>1 DEF WillLook
    <2>2. \A g \in B : \A p : WillLook(g, p) => WillLook(g, p)'
      BY <1>5, <2>1 DEF WillLook
    <2> QED
      BY <1>1, <2>2 DEF Told
  <1>14. ToldInv(B)'
    <2>1. \A g \in B : beats'[g].at \in {"peers", "warn"} => beats'[g].edits
      BY <1>3, <1>5 DEF DirtyInv, ToldInv
    <2>2. \A p \in Held' : ~Alive(p[1])' => p \in spoiled'
      BY <1>1, <1>11 DEF DirtyInv, ToldInv, Alive
    <2>3. \A p, q \in (Held \ spoiled)' : Collide(p, q)' => Told(B, p)' \/ Told(B, q)'
      BY <1>11, <1>12, <1>13 DEF DirtyInv, ToldInv
    <2> QED
      BY <2>1, <2>2, <2>3 DEF ToldInv
  <1> QED
    BY <1>5, <1>6, <1>10, <1>14 DEF DirtyInv

LEMMA DirtyRecord ==
  ASSUME NEW B, NEW T, DirtyInv(B), NEW h \in B, dirty(B, T)!RecordDirty(h)
  PROVE  DirtyInv(B)'
  <1> DEFINE c == beats[h]
             d == [c EXCEPT !.at = "peers"]
  <1>1. c.at = "record" /\ UNCHANGED <<now, ended, tree, scans, warned>>
    BY DEF dirty!RecordDirty, dirty!At, dirty!world
  <1>2. c \in Plain
    BY <1>1, BeatKinds DEF DirtyInv
  <1>3. ~\E p : WillLook(h, p)
    BY <1>1 DEF WillLook
  <1>4. tree' \subseteq File /\ scans' \in [Session -> Int] /\ StampsInv'
    BY <1>1 DEF DirtyInv, DirtyTypeOK, StampsInv
  <1>5. CASE ~c.edits
    <2>1. beats' = [beats EXCEPT ![h] = NoBeat] /\ UNCHANGED <<rows, owed, spoiled>>
      BY <1>5 DEF dirty!RecordDirty, dirty!End, dirty!Free, NoBeat
    <2>2. NoBeat.at = "none"
      BY DEF NoBeat
    <2> QED
      BY <1>1, <1>3, <1>4, <2>1, <2>2, BeatMoves
  <1>6. CASE c.edits
    <2>0. c.s \in Session /\ c.f \in File
      BY <1>2 DEF Plain
    <2> PICK pair \in Session \X File : pair = <<c.s, c.f>>
      BY <2>0
    <2>1. /\ rows' = [rows EXCEPT ![pair] = now]
          /\ owed' = IF c.f \in tree THEN owed \cup {pair} ELSE owed
          /\ spoiled' = IF ended[c.s] = -1 THEN spoiled \ {pair} ELSE spoiled \cup {pair}
          /\ beats' = [beats EXCEPT ![h] = [@ EXCEPT !.at = "peers"]]
      BY <1>6 DEF dirty!RecordDirty, dirty!Go, dirty!Pair, dirty!Live, dirty!Never
    <2>2. pair \in Session \X File /\ pair[1] = c.s /\ pair[2] = c.f
      OBVIOUS
    <2>3. d \in Plain /\ d.at = "peers" /\ d.edits /\ d.s = c.s /\ d.f = c.f
      <3>1. d \in Plain /\ d.at = "peers" /\ d.edits = c.edits /\ d.s = c.s /\ d.f = c.f
        BY <1>2, MovesOn
      <3> QED
        BY <1>6, <3>1
    <2>4. BeatsTyped(B)' /\ beats'[h] = d /\ \A g \in B : g # h => beats'[g] = beats[g]
      <3>1. beats' = [beats EXCEPT ![h] = d]
        BY <2>1
      <3> HIDE DEF d
      <3> QED
        BY <2>3, <3>1, OneMoves DEF DirtyInv
    <2> HIDE DEF d
    <2>5. DirtyTypeOK'
      BY <1>1, <2>1, <2>2 DEF DirtyInv, DirtyTypeOK
    <2>6. Held' = Held \cup {pair} /\ rows'[pair] = now /\ \A p \in Held : p # pair => rows'[p] = rows[p]
      <3>1. rows \in [Session \X File -> Int] /\ now \in Nat
        BY DEF DirtyInv, DirtyTypeOK
      <3>2. now # -1
        BY <3>1
      <3> QED
        BY <2>1, <2>2, <3>1, <3>2 DEF Held
    <2>7. \A g \in B : beats'[g].at \in {"git", "retain"} =>
            beats'[g] = beats[g] /\ beats[g].started <= now /\ ~(now < beats[g].started)
      <3> TAKE g \in B
      <3> HAVE beats'[g].at \in {"git", "retain"}
      <3>1. beats'[g] = beats[g]
        BY <2>3, <2>4
      <3>2. beats[g].started \in Nat /\ now \in Nat
        BY <3>1, BeatKinds DEF DirtyInv, DirtyTypeOK, Listing, Listed
      <3> QED
        BY <3>1, <3>2 DEF DirtyInv, OwedInv
    <2>8. OwedInv(B)'
      <3>1. owed' \subseteq owed \cup {pair} /\ \A p \in owed' : p[2] \in tree
        BY <2>1, <2>2 DEF DirtyInv, OwedInv
      <3>2. owed' \subseteq Held'
        BY <2>6, <3>1 DEF DirtyInv, OwedInv
      <3>3. \A g \in B : beats'[g].at = "retain" =>
              \A p \in owed' : rows'[p] < beats'[g].started => p[2] \in beats'[g].dirty
        BY <2>6, <2>7, <3>1 DEF DirtyInv, OwedInv
      <3>4. \A g \in B : beats'[g].at \in {"git", "retain"} => beats'[g].started <= now'
        BY <1>1, <2>7
      <3> QED
        BY <1>1, <3>1, <3>2, <3>3, <3>4 DEF OwedInv
    <2>9. \A p : Told(B, p) => Told(B, p)'
      <3>1. \A g \in B : \A p : WillLook(g, p) => WillLook(g, p)'
        BY <1>3, <2>4 DEF WillLook
      <3> QED
        BY <1>1, <3>1 DEF Told
    <2>10. Told(B, pair)'
      <3>1. WillLook(h, pair)'
        BY <2>2, <2>3, <2>4 DEF WillLook
      <3> QED
        BY <3>1 DEF Told
    <2>11. \A p, q : Collide(p, q)' <=> Collide(p, q)
      BY <1>1 DEF Collide, Alive
    <2>12. ToldInv(B)'
      <3>1. \A g \in B : beats'[g].at \in {"peers", "warn"} => beats'[g].edits
        BY <2>3, <2>4 DEF DirtyInv, ToldInv
      <3>2. \A p \in Held' : ~Alive(p[1])' => p \in spoiled'
        BY <1>1, <2>1, <2>2, <2>6 DEF DirtyInv, ToldInv, Alive
      <3>3. \A p \in (Held \ spoiled)' : p # pair => p \in Held \ spoiled
        BY <2>1, <2>6
      <3>4. \A p, q \in (Held \ spoiled)' : Collide(p, q)' => Told(B, p)' \/ Told(B, q)'
        BY <2>9, <2>10, <2>11, <3>3 DEF DirtyInv, ToldInv
      <3> QED
        BY <3>1, <3>2, <3>4 DEF ToldInv
    <2> QED
      BY <1>4, <2>4, <2>5, <2>8, <2>12 DEF DirtyInv
  <1> QED
    BY <1>5, <1>6

LEMMA DirtyReadPeers ==
  ASSUME NEW B, NEW T, DirtyInv(B), NEW h \in B, dirty(B, T)!ReadPeers(h)
  PROVE  DirtyInv(B)'
  <1> DEFINE c == beats[h]
             d == [c EXCEPT !.at = "warn"]
  <1>1. c.at = "peers" /\ UNCHANGED <<now, ended, tree, rows, scans, warned, owed, spoiled>>
    BY DEF dirty!ReadPeers, dirty!At, dirty!world, dirty!tables, dirty!history
  <1>2. c \in Plain /\ c.edits
    BY <1>1, BeatKinds DEF DirtyInv, ToldInv
  <1>3. tree' \subseteq File /\ scans' \in [Session -> Int] /\ StampsInv'
    BY <1>1 DEF DirtyInv, DirtyTypeOK, StampsInv
  <1>4. d \in Plain /\ d.at = "warn" /\ d.edits /\ d.s = c.s /\ d.f = c.f
    <2>1. d \in Plain /\ d.at = "warn" /\ d.edits = c.edits /\ d.s = c.s /\ d.f = c.f
      BY <1>2, MovesOn
    <2> QED
      BY <1>2, <2>1
  <1>5. \A p : WillLook(h, p) => p[1] = c.s /\ p[2] = c.f
    BY DEF WillLook
  <1>6. CASE dirty(B, T)!HeldBy(c.s, c.f) = {} \/ ~dirty(B, T)!DirtyWarnPending(c.s, c.f)
    <2>1. beats' = [beats EXCEPT ![h] = NoBeat] /\ NoBeat.at = "none"
      BY <1>6 DEF dirty!ReadPeers, dirty!End, dirty!Free, NoBeat
    <2>2. \A p, q \in Held \ spoiled : WillLook(h, p) /\ Collide(p, q) => p \in warned
      <3> SUFFICES ASSUME NEW p \in Held, NEW q \in Held, WillLook(h, p), Collide(p, q) PROVE p \in warned
        OBVIOUS
      <3>1. p = <<c.s, c.f>> /\ q = <<q[1], c.f>> /\ q[1] \in Session \ {c.s}
        BY <1>5 DEF Held, Collide
      <3>2. q[1] \in dirty(B, T)!HeldBy(c.s, c.f)
        BY <3>1 DEF dirty!HeldBy, dirty!Rows, dirty!Live, dirty!Never, Held, Collide, Alive
      <3> QED
        BY <1>6, <3>1, <3>2 DEF dirty!DirtyWarnPending
    <2> QED
      BY <1>1, <1>3, <2>1, <2>2, BeatMoves
  <1>7. CASE ~(dirty(B, T)!HeldBy(c.s, c.f) = {} \/ ~dirty(B, T)!DirtyWarnPending(c.s, c.f))
    <2>1. beats' = [beats EXCEPT ![h] = d]
      BY <1>7 DEF dirty!ReadPeers, dirty!Go
    <2> HIDE DEF d
    <2> QED
      BY <1>1, <1>3, <1>4, <1>5, <2>1, BeatMoves
  <1> QED
    BY <1>6, <1>7

LEMMA DirtyMarkWarned ==
  ASSUME NEW B, NEW T, DirtyInv(B), NEW h \in B, dirty(B, T)!MarkDirtyWarned(h)
  PROVE  DirtyInv(B)'
  <1> DEFINE c == beats[h]
  <1>1. /\ c.at = "warn" /\ UNCHANGED <<now, ended, tree, rows, scans, owed, spoiled>>
        /\ warned' = warned \cup {<<c.s, c.f>>} /\ beats' = [beats EXCEPT ![h] = NoBeat]
    BY DEF dirty!MarkDirtyWarned, dirty!At, dirty!world, dirty!history, dirty!End, dirty!Free, dirty!Pair, NoBeat
  <1>2. c.s \in Session /\ c.f \in File
    BY <1>1, BeatKinds DEF DirtyInv, Plain
  <1>3. BeatsTyped(B)' /\ beats'[h] = NoBeat /\ \A g \in B : g # h => beats'[g] = beats[g]
    BY <1>1, OneMoves DEF DirtyInv
  <1>4. NoBeat.at = "none"
    BY DEF NoBeat
  <1>5. DirtyTypeOK' /\ StampsInv'
    BY <1>1, <1>2 DEF DirtyInv, DirtyTypeOK, StampsInv
  <1>6. Held' = Held /\ \A p, q : Collide(p, q)' <=> Collide(p, q)
    BY <1>1 DEF Held, Collide, Alive
  <1>7. OwedInv(B)'
    <2>1. \A g \in B : beats'[g].at \in {"git", "retain"} => beats'[g] = beats[g]
      BY <1>3, <1>4
    <2> QED
      BY <1>1, <1>6, <2>1 DEF DirtyInv, OwedInv
  <1>8. \A p \in Held : Told(B, p) => Told(B, p)'
    <2> SUFFICES ASSUME NEW p \in Held, NEW g \in B, WillLook(g, p) PROVE Told(B, p)'
      BY <1>1 DEF Told
    <2>1. CASE g # h
      BY <1>3, <2>1 DEF Told, WillLook
    <2>2. CASE g = h
      <3>1. p = <<c.s, c.f>>
        BY <2>2 DEF WillLook, Held
      <3> QED
        BY <1>1, <3>1 DEF Told
    <2> QED
      BY <2>1, <2>2
  <1>9. ToldInv(B)'
    <2>1. \A g \in B : beats'[g].at \in {"peers", "warn"} => beats'[g].edits
      BY <1>3, <1>4 DEF DirtyInv, ToldInv
    <2>2. \A p \in Held' : ~Alive(p[1])' => p \in spoiled'
      BY <1>1, <1>6 DEF DirtyInv, ToldInv, Alive
    <2>3. \A p, q \in (Held \ spoiled)' : Collide(p, q)' => Told(B, p)' \/ Told(B, q)'
      BY <1>1, <1>6, <1>8 DEF DirtyInv, ToldInv
    <2> QED
      BY <2>1, <2>2, <2>3 DEF ToldInv
  <1> QED
    BY <1>3, <1>5, <1>7, <1>9 DEF DirtyInv

LEMMA DirtyFails ==
  ASSUME NEW B, NEW T, DirtyInv(B), NEW h \in B, dirty(B, T)!Fails(h)
  PROVE  DirtyInv(B)'
  <1> DEFINE c == beats[h]
  <1>1. /\ c # NoBeat /\ UNCHANGED <<now, ended, tree, rows, scans, owed, warned>>
        /\ spoiled' = IF c.edits THEN spoiled \cup ({<<c.s, c.f>>} \cap Held) ELSE spoiled
        /\ beats' = [beats EXCEPT ![h] = NoBeat]
    BY DEF dirty!Fails, dirty!world, dirty!tables, dirty!End, dirty!Free, dirty!Pair, dirty!Rows, dirty!Never,
           NoBeat, Held
  <1>2. BeatsTyped(B)' /\ beats'[h] = NoBeat /\ \A g \in B : g # h => beats'[g] = beats[g]
    BY <1>1, OneMoves DEF DirtyInv
  <1>3. NoBeat.at = "none"
    BY DEF NoBeat
  <1>4. spoiled \subseteq spoiled' /\ spoiled' \subseteq spoiled \cup Held /\ Held \subseteq Session \X File
    BY <1>1 DEF Held
  <1>5. DirtyTypeOK' /\ StampsInv'
    BY <1>1, <1>4 DEF DirtyInv, DirtyTypeOK, StampsInv
  <1>6. Held' = Held /\ \A p, q : Collide(p, q)' <=> Collide(p, q)
    BY <1>1 DEF Held, Collide, Alive
  <1>7. OwedInv(B)'
    <2>1. \A g \in B : beats'[g].at \in {"git", "retain"} => beats'[g] = beats[g]
      BY <1>2, <1>3
    <2> QED
      BY <1>1, <1>6, <2>1 DEF DirtyInv, OwedInv
  <1>8. \A p \in Held \ spoiled' : Told(B, p) => Told(B, p)'
    <2> SUFFICES ASSUME NEW p \in Held \ spoiled', NEW g \in B, WillLook(g, p) PROVE Told(B, p)'
      BY <1>1 DEF Told
    <2>1. g # h
      <3>1. ASSUME g = h PROVE FALSE
        <4>1. p = <<c.s, c.f>> /\ c.edits
          BY <3>1 DEF WillLook, Held
        <4> QED
          BY <1>1, <4>1
      <3> QED
        BY <3>1
    <2> QED
      BY <1>2, <2>1 DEF Told, WillLook
  <1>9. ToldInv(B)'
    <2>1. \A g \in B : beats'[g].at \in {"peers", "warn"} => beats'[g].edits
      BY <1>2, <1>3 DEF DirtyInv, ToldInv
    <2>2. \A p \in Held' : ~Alive(p[1])' => p \in spoiled'
      BY <1>1, <1>4, <1>6 DEF DirtyInv, ToldInv, Alive
    <2>3. \A p, q \in (Held \ spoiled)' : Collide(p, q)' => Told(B, p)' \/ Told(B, q)'
      BY <1>4, <1>6, <1>8 DEF DirtyInv, ToldInv
    <2> QED
      BY <2>1, <2>2, <2>3 DEF ToldInv
  <1> QED
    BY <1>2, <1>5, <1>7, <1>9 DEF DirtyInv

-----------------------------------------------------------------------------
(* A sweep forgets only what the ended left, and a warning only with the   *)
(* session it was given to. *)
LEMMA DirtySweep ==
  ASSUME NEW B, NEW T, DirtyInv(B), dirty(B, T)!SweepDirty PROVE DirtyInv(B)'
  <1> DEFINE gone == {p \in Held : dirty(B, T)!Over(p[1], Keep)}
  <1>1. UNCHANGED <<now, ended, tree, beats>>
    BY DEF dirty!SweepDirty, dirty!world
  <1>2. /\ rows' = [p \in Session \X File |-> IF dirty(B, T)!Over(p[1], Keep) THEN -1 ELSE rows[p]]
        /\ spoiled' = {p \in spoiled : rows'[p] # -1}
        /\ scans' \in [Session -> Int] /\ \A s \in Session : scans'[s] = -1 \/ scans'[s] = scans[s]
    BY DEF dirty!SweepDirty, dirty!Forgets, dirty!Never, DirtyInv, DirtyTypeOK
  <1>3. /\ warned' \subseteq warned /\ \A p \in warned : Alive(p[1]) => p \in warned'
        /\ owed' \subseteq owed /\ \A p \in owed' : ~dirty(B, T)!Over(p[1], Keep)
    BY DEF dirty!SweepDirty, dirty!Over, dirty!Live, dirty!Never, Alive
  <1>4. BeatsTyped(B)'
    BY <1>1 DEF DirtyInv, BeatsTyped
  <1>5. now \in Nat /\ DirtyTypeOK'
    BY <1>1, <1>2, <1>3 DEF DirtyInv, DirtyTypeOK
  <1>6. StampsInv'
    BY <1>1, <1>2, <1>5 DEF DirtyInv, StampsInv
  <1>7. Held' = Held \ gone /\ \A p \in Held' : rows'[p] = rows[p] /\ (p \in spoiled' <=> p \in spoiled)
    BY <1>2 DEF Held
  <1>8. \A p \in owed' : p \in Held' /\ rows'[p] = rows[p] /\ p \in owed
    BY <1>3, <1>7 DEF DirtyInv, OwedInv
  <1> HIDE DEF gone
  <1>9. OwedInv(B)'
    BY <1>1, <1>8 DEF DirtyInv, OwedInv
  <1>10. \A p, q : Collide(p, q)' <=> Collide(p, q)
    BY <1>1 DEF Collide, Alive
  <1>11. \A p : Alive(p[1]) /\ Told(B, p) => Told(B, p)'
    BY <1>1, <1>3 DEF Told, WillLook
  <1>12. ToldInv(B)'
    <2>1. \A g \in B : beats'[g].at \in {"peers", "warn"} => beats'[g].edits
      BY <1>1 DEF DirtyInv, ToldInv
    <2>2. \A p \in Held' : ~Alive(p[1])' => p \in spoiled'
      BY <1>1, <1>7 DEF DirtyInv, ToldInv, Alive
    <2>3. \A p, q \in (Held \ spoiled)' : Collide(p, q)' => Told(B, p)' \/ Told(B, q)'
      <3> SUFFICES ASSUME NEW p \in Held \ spoiled, NEW q \in Held \ spoiled, Collide(p, q)
                   PROVE  Told(B, p)' \/ Told(B, q)'
        BY <1>7, <1>10
      <3>1. Told(B, p) \/ Told(B, q)
        BY DEF DirtyInv, ToldInv
      <3> QED
        BY <1>11, <3>1 DEF Collide
    <2> QED
      BY <2>1, <2>2, <2>3 DEF ToldInv
  <1> QED
    BY <1>4, <1>5, <1>6, <1>9, <1>12 DEF DirtyInv

LEMMA DirtyStep ==
  ASSUME NEW B, NEW T, DirtyInv(B), dirty(B, T)!Next
  PROVE  DirtyInv(B)'
  <1>1. ASSUME dirty(B, T)!Tick \/ dirty(B, T)!SweepDirty PROVE DirtyInv(B)'
    BY <1>1, DirtyTick, DirtySweep
  <1>2. ASSUME NEW s \in Session, dirty(B, T)!Bye(s) \/ dirty(B, T)!Hello(s) PROVE DirtyInv(B)'
    BY <1>2, DirtyBye, DirtyHello
  <1>3. ASSUME NEW f \in File, dirty(B, T)!ShellWrites(f) \/ dirty(B, T)!Clean(f) PROVE DirtyInv(B)'
    BY <1>3, DirtyTree
  <1>4. ASSUME NEW h \in B, dirty(B, T)!Step(h) PROVE DirtyInv(B)'
    <2>1. CASE dirty(B, T)!ReadLease(h) \/ dirty(B, T)!ClaimScan(h) \/ dirty(B, T)!GitStatus(h)
      BY <2>1, DirtyReadLease, DirtyClaimScan, DirtyGitStatus
    <2>2. CASE dirty(B, T)!RetainDirty(h) \/ dirty(B, T)!RecordDirty(h)
      BY <2>2, DirtyRetain, DirtyRecord
    <2>3. CASE dirty(B, T)!ReadPeers(h) \/ dirty(B, T)!MarkDirtyWarned(h)
      BY <2>3, DirtyReadPeers, DirtyMarkWarned
    <2> QED
      BY <1>4, <2>1, <2>2, <2>3 DEF dirty!Step
  <1>5. ASSUME NEW h \in B, dirty(B, T)!Fails(h) PROVE DirtyInv(B)'
    BY <1>5, DirtyFails
  <1>6. ASSUME NEW h \in B, NEW s \in Session, NEW f \in File,
               dirty(B, T)!Edit(h, s, f) \/ dirty(B, T)!Look(h, s, f)
        PROVE  DirtyInv(B)'
    BY <1>6, DirtyLaunch
  <1> QED
    BY <1>1, <1>2, <1>3, <1>4, <1>5, <1>6 DEF dirty!Next

LEMMA DirtyKept == ASSUME NEW B, DirtyInv(B), UNCHANGED dirtyVars PROVE DirtyInv(B)'
  BY DEF dirtyVars, DirtyInv, DirtyTypeOK, BeatsTyped, StampsInv, OwedInv, ToldInv, Held, Alive, Collide, Told,
         WillLook

-----------------------------------------------------------------------------
PartDirtyInv ==
  /\ part = "dirty" => DirtyInv(Hook)
  /\ part = "dirtyLong" => DirtyInv(OneBeat)

(* A step of the files is a step of theirs, and any other leaves them. *)
LEMMA DirtySteps ==
  ASSUME [Next]_vars
  PROVE  /\ part' = part
         /\ part = "dirty" => dirty(Hook, 1)!Next \/ UNCHANGED dirtyVars
         /\ part = "dirtyLong" => dirty(OneBeat, 2)!Next \/ UNCHANGED dirtyVars
  <1>1. CASE DirtyNext
    BY <1>1 DEF DirtyNext, NotDirty
  <1>2. CASE DirtyLongNext
    BY <1>2 DEF DirtyLongNext, NotDirty
  <1>3. CASE TurnsNext \/ ProcsNext
    BY <1>3 DEF TurnsNext, ProcsNext
  <1>4. CASE AdapterNext \/ CorrectionsNext
    BY <1>4 DEF AdapterNext, CorrectionsNext
  <1>5. CASE UNCHANGED vars
    BY <1>5 DEF vars
  <1> QED
    BY <1>1, <1>2, <1>3, <1>4, <1>5 DEF Next

(* The rows, the leases and the beats of the dirty files hold together     *)
(* over any interleaving of beats, commits, byes and sweeps.               *)
THEOREM DirtyInvariant == Spec => []PartDirtyInv
  <1>1. Init => PartDirtyInv
    <2>1. dirty(Hook, 1)!Init => DirtyInv(Hook)
      BY DirtyInit
    <2>2. dirty(OneBeat, 2)!Init => DirtyInv(OneBeat)
      BY DirtyInit
    <2> QED
      BY <2>1, <2>2 DEF Init, PartDirtyInv
  <1>2. PartDirtyInv /\ [Next]_vars => PartDirtyInv'
    <2> SUFFICES ASSUME PartDirtyInv, [Next]_vars PROVE PartDirtyInv'
      OBVIOUS
    <2>1. CASE part = "dirty"
      <3>1. dirty(Hook, 1)!Next \/ UNCHANGED dirtyVars
        BY <2>1, DirtySteps
      <3>2. DirtyInv(Hook)'
        BY <2>1, <3>1, DirtyStep, DirtyKept DEF PartDirtyInv
      <3> QED
        BY <2>1, <3>2, DirtySteps DEF PartDirtyInv
    <2>2. CASE part = "dirtyLong"
      <3>1. dirty(OneBeat, 2)!Next \/ UNCHANGED dirtyVars
        BY <2>2, DirtySteps
      <3>2. DirtyInv(OneBeat)'
        BY <2>2, <3>1, DirtyStep, DirtyKept DEF PartDirtyInv
      <3> QED
        BY <2>2, <3>2, DirtySteps DEF PartDirtyInv
    <2>3. CASE part \notin {"dirty", "dirtyLong"}
      BY <2>3, DirtySteps DEF PartDirtyInv
    <2> QED
      BY <2>1, <2>2, <2>3
  <1> QED
    BY <1>1, <1>2, PTL DEF Spec

LEMMA HoldingsHold == ASSUME NEW B, NEW T, DirtyInv(B) PROVE dirty(B, T)!HoldingsAreTrue
  <1>1. dirty(B, T)!Rows = Held
    BY DEF dirty!Rows, dirty!Never, Held
  <1>2. dirty(B, T)!KeptWhileDirty
    BY <1>1 DEF dirty!KeptWhileDirty, DirtyInv, OwedInv
  <1>3. ASSUME NEW p \in Held, Told(B, p), ~dirty(B, T)!Working(p[1], p[2]) PROVE p \in warned
    <2>1. ASSUME NEW h \in B, WillLook(h, p) PROVE FALSE
      <3>1. beats[h] # NoBeat
        BY <2>1 DEF WillLook, NoBeat
      <3> QED
        BY <1>3, <2>1, <3>1 DEF WillLook, dirty!Working, dirty!Free, NoBeat
    <2> QED
      BY <1>3, <2>1 DEF Told
  <1>4. dirty(B, T)!CollisionAnnounced
    BY <1>1, <1>3 DEF dirty!CollisionAnnounced, DirtyInv, ToldInv, Collide, Alive, dirty!Live, dirty!Never
  <1> QED
    BY <1>2, <1>4 DEF dirty!HoldingsAreTrue

(* noteDirtyPaths, RetainDirty: while a file is uncommitted whoever was    *)
(* recorded with it stays on record, and of two living holders whose beats *)
(* have ended one has been told, whatever the beats saw of each other.     *)
THEOREM HoldingsStayTrue == Spec => []HoldingsAreTrue
  <1>1. PartDirtyInv => HoldingsAreTrue
    BY HoldingsHold DEF PartDirtyInv, HoldingsAreTrue
  <1> QED
    BY <1>1, DirtyInvariant, PTL

LEMMA LeaseSteps ==
  ASSUME NEW B, NEW T, DirtyInv(B), dirty(B, T)!Next
  PROVE  dirty(Hook, 1)!LeaseIsWaitedOut
  <1>1. ASSUME scans' = scans PROVE dirty(Hook, 1)!LeaseIsWaitedOut
    BY <1>1 DEF dirty!LeaseIsWaitedOut
  <1>2. ASSUME NEW h \in B, dirty(B, T)!ClaimScan(h) PROVE dirty(Hook, 1)!LeaseIsWaitedOut
    <2>1. scans \in [Session -> Int] /\ now \in Nat /\ \A s \in Session : scans[s] <= now
      BY DEF DirtyInv, DirtyTypeOK, StampsInv
    <2>2. CASE dirty(B, T)!StillDue(beats[h].s)
      <3>1. scans' = [scans EXCEPT ![beats[h].s] = now]
        BY <1>2, <2>2 DEF dirty!ClaimScan
      <3>2. scans[beats[h].s] = -1 \/ scans[beats[h].s] > now \/ now - scans[beats[h].s] >= Every
        BY <2>2 DEF dirty!StillDue, dirty!LeaseExpired, dirty!Never
      <3> SUFFICES ASSUME NEW s \in Session, scans'[s] # scans[s]
                   PROVE  scans[s] = -1 \/ scans'[s] - scans[s] >= Every
        BY DEF dirty!LeaseIsWaitedOut, dirty!Never
      <3>3. s = beats[h].s /\ scans'[s] = now
        BY <2>1, <3>1
      <3> QED
        BY <2>1, <3>2, <3>3
    <2>3. CASE ~dirty(B, T)!StillDue(beats[h].s)
      BY <1>1, <1>2, <2>3 DEF dirty!ClaimScan
    <2> QED
      BY <2>2, <2>3
  <1>3. ASSUME dirty(B, T)!SweepDirty PROVE dirty(Hook, 1)!LeaseIsWaitedOut
    BY <1>3 DEF dirty!SweepDirty, dirty!LeaseIsWaitedOut, dirty!Never
  <1>4. ASSUME NEW h \in B, dirty(B, T)!Step(h), ~dirty(B, T)!ClaimScan(h) PROVE scans' = scans
    BY <1>4 DEF dirty!Step, dirty!ReadLease, dirty!GitStatus, dirty!RetainDirty, dirty!RecordDirty, dirty!ReadPeers,
                dirty!MarkDirtyWarned, dirty!tables
  <1>5. ASSUME NEW h \in B, dirty(B, T)!Fails(h) PROVE scans' = scans
    BY <1>5 DEF dirty!Fails, dirty!tables
  <1>6. ASSUME NEW h \in B, NEW s, NEW f, dirty(B, T)!Edit(h, s, f) \/ dirty(B, T)!Look(h, s, f)
        PROVE  scans' = scans
    BY <1>6 DEF dirty!Edit, dirty!Look, dirty!tables
  <1>7. ASSUME NEW s, dirty(B, T)!Bye(s) \/ dirty(B, T)!Hello(s) PROVE scans' = scans
    BY <1>7 DEF dirty!Bye, dirty!Hello, dirty!tables
  <1>8. ASSUME NEW f, dirty(B, T)!ShellWrites(f) \/ dirty(B, T)!Clean(f) PROVE scans' = scans
    BY <1>8 DEF dirty!ShellWrites, dirty!Clean, dirty!tables
  <1>9. ASSUME dirty(B, T)!Tick PROVE scans' = scans
    BY <1>9 DEF dirty!Tick, dirty!tables
  <1> QED
    BY <1>1, <1>2, <1>3, <1>4, <1>5, <1>6, <1>7, <1>8, <1>9 DEF dirty!Next

(* DueForDirtyScan: two beats that read one lease start one scan.          *)
THEOREM ScansAreLeased == Spec => OneScanPerLease
  <1>1. PartDirtyInv /\ [Next]_vars =>
          [part = "dirty" \/ part = "dirtyLong" => dirty(Hook, 1)!LeaseIsWaitedOut]_vars
    <2> SUFFICES ASSUME PartDirtyInv, [Next]_vars, part = "dirty" \/ part = "dirtyLong"
                 PROVE  dirty(Hook, 1)!LeaseIsWaitedOut
      OBVIOUS
    <2>1. dirty(Hook, 1)!Next \/ dirty(OneBeat, 2)!Next \/ UNCHANGED dirtyVars
      BY DirtySteps
    <2>2. CASE UNCHANGED dirtyVars
      BY <2>2 DEF dirtyVars, dirty!LeaseIsWaitedOut
    <2>3. CASE part = "dirty" /\ dirty(Hook, 1)!Next
      BY <2>3, LeaseSteps DEF PartDirtyInv
    <2>4. CASE part = "dirtyLong" /\ dirty(OneBeat, 2)!Next
      BY <2>4, LeaseSteps DEF PartDirtyInv
    <2> QED
      BY <2>2, <2>3, <2>4, DirtySteps
  <1> QED
    BY <1>1, DirtyInvariant, PTL DEF Spec, OneScanPerLease

(***************************************************************************)
(* The adapter channel.  A launch keeps the incarnation it captured, a     *)
(* message its number, and a number names one message for ever: so what    *)
(* was shown, fetched or marked under a number is about that message.      *)
(***************************************************************************)
MsgRec(S) ==
  [id : Nat \ {0}, target : S, sender : S \cup {"none"}, adapter : BOOLEAN, inc : Nat, corrects : Nat]

LaunchRec(S) == [session : S \cup {"none"}, inc : Nat]

CurrentRec == [inc : Nat, live : BOOLEAN]
EndpointRec(Q) == [inc : Nat, proc : Q \cup {"no process"}]

LifeTypeOK(S, Q) == sessions \in [S -> CurrentRec] /\ procs \in [S -> SUBSET Q]
Report == [1..MaxInc -> {"nothing", "idle", "busy"}]
ReportTypeOK(S) == idle \in [S -> Nat] /\ said \in [S -> Report]
EndpointTypeOK(S, Q) == endpoints \in [S -> EndpointRec(Q)]
LaunchTypeOK(S, Q) == launch \in [Q -> LaunchRec(S)]
MailTypeOK(S, Q) ==
  /\ inbox \subseteq MsgRec(S) /\ page \in [Q -> SUBSET MsgRec(S)]
  /\ delivered \subseteq Nat \X S /\ shown \subseteq Nat \X (Q \cup {"people"})
  /\ nextId \in Nat \ {0}

AdapterTypeOK(S, Q) ==
  /\ LifeTypeOK(S, Q) /\ ReportTypeOK(S) /\ EndpointTypeOK(S, Q)
  /\ LaunchTypeOK(S, Q) /\ MailTypeOK(S, Q)

CurrentInv(S) == \A s \in S : sessions[s].inc <= MaxInc /\ (sessions[s].live => sessions[s].inc >= 1)

(* A number is given once. *)
NumbersInv ==
  /\ \A m \in inbox : m.id < nextId /\ m.corrects < nextId
  /\ \A m, n \in inbox : m.id = n.id => m = n
  /\ \A x \in shown \cup delivered : x[1] < nextId

(* What a launch has fetched is addressed to it. *)
PagesInv(Q) ==
  \A p \in Q : \A m \in page[p] :
    /\ m.adapter /\ m.inc >= 1 /\ m.target = launch[p].session /\ m.inc = launch[p].inc
    /\ m.id < nextId /\ \A n \in inbox : n.id = m.id => n = m

RecipientInv(Q) ==
  \A m \in inbox : m.adapter =>
    /\ m.inc >= 1
    /\ <<m.id, "people">> \notin shown
    /\ \A p \in Q : <<m.id, p>> \in shown => launch[p].session = m.target /\ launch[p].inc = m.inc
    /\ <<m.id, m.target>> \in delivered => \E p \in Q : <<m.id, p>> \in shown

CorrectionInv ==
  \A m \in inbox :
    /\ \A c \in inbox : c.corrects = m.id => ~m.adapter
    /\ ~m.adapter /\ <<m.id, m.target>> \in delivered => <<m.id, "people">> \in shown

EndpointInv(S, Q) ==
  \A s \in S :
    /\ endpoints[s].inc >= 1 =>
         /\ endpoints[s].proc \in Q
         /\ launch[endpoints[s].proc].session = s /\ launch[endpoints[s].proc].inc = endpoints[s].inc
    /\ idle[s] >= 1 => idle[s] <= MaxInc /\ said[s][idle[s]] = "idle"

AdapterInv(S, Q) ==
  /\ AdapterTypeOK(S, Q) /\ CurrentInv(S) /\ NumbersInv /\ PagesInv(Q)
  /\ RecipientInv(Q) /\ CorrectionInv /\ EndpointInv(S, Q)

-----------------------------------------------------------------------------
LEMMA IncBound == MaxInc \in Nat
  BY AdapterBounds DEF adapter!BoundAssumption

LEMMA AdapterInit == ASSUME NEW S, NEW Q, NEW N, adapter(S, Q, N)!Init PROVE AdapterInv(S, Q)
  <1> USE DEF adapter!Init
  <1>1. LifeTypeOK(S, Q) /\ ReportTypeOK(S)
    BY IncBound DEF LifeTypeOK, ReportTypeOK, Report, CurrentRec
  <1>2. EndpointTypeOK(S, Q)
    BY DEF EndpointTypeOK, EndpointRec, adapter!NoEndpoint, adapter!AdapterEndpoint, adapter!NoProc
  <1>3. LaunchTypeOK(S, Q)
    BY DEF LaunchTypeOK, LaunchRec, adapter!NoLaunch, adapter!AdapterIdentity
  <1>4. MailTypeOK(S, Q)
    BY DEF MailTypeOK
  <1>5. CurrentInv(S)
    BY IncBound DEF CurrentInv
  <1>6. NumbersInv /\ PagesInv(Q) /\ RecipientInv(Q) /\ CorrectionInv
    BY DEF NumbersInv, PagesInv, RecipientInv, CorrectionInv
  <1>7. EndpointInv(S, Q)
    BY DEF EndpointInv, adapter!NoEndpoint, adapter!AdapterEndpoint
  <1> QED
    BY <1>1, <1>2, <1>3, <1>4, <1>5, <1>6, <1>7 DEF AdapterInv, AdapterTypeOK

-----------------------------------------------------------------------------
(* What registers, reports or ends moves no mail, and a launch that has    *)
(* captured an incarnation keeps it.                                       *)
LEMMA MailRests ==
  ASSUME NEW S, NEW Q, AdapterInv(S, Q), UNCHANGED <<inbox, delivered, nextId, page, shown>>,
         \A p \in Q : launch[p].inc >= 1 => launch'[p] = launch[p]
  PROVE  MailTypeOK(S, Q)' /\ NumbersInv' /\ PagesInv(Q)' /\ RecipientInv(Q)' /\ CorrectionInv'
  <1>1. NumbersInv' /\ CorrectionInv' /\ MailTypeOK(S, Q)'
    <2>1. NumbersInv'
      BY DEF AdapterInv, NumbersInv
    <2>2. CorrectionInv'
      BY DEF AdapterInv, CorrectionInv
    <2>3. MailTypeOK(S, Q)'
      BY DEF AdapterInv, AdapterTypeOK, MailTypeOK
    <2> QED
      BY <2>1, <2>2, <2>3
  <1>2. PagesInv(Q)'
    BY DEF AdapterInv, PagesInv
  <1>3. RecipientInv(Q)'
    BY DEF AdapterInv, RecipientInv
  <1> QED
    BY <1>1, <1>2, <1>3

LEMMA AdapterBegin ==
  ASSUME NEW S, NEW Q, NEW N, AdapterInv(S, Q), NEW p \in Q, NEW s \in S, NEW i,
         adapter(S, Q, N)!BeginLogical(p, s, i)
  PROVE  AdapterInv(S, Q)'
  <1>1. /\ UNCHANGED <<idle, endpoints, said, inbox, delivered, nextId, page, shown>>
        /\ launch[p].inc = 0 /\ sessions[s].inc < MaxInc /\ i = sessions[s].inc
        /\ sessions' = [sessions EXCEPT ![s] = [inc |-> @.inc + 1, live |-> TRUE]]
        /\ procs' = [procs EXCEPT ![s] = {}]
    BY DEF adapter!BeginLogical, adapter!mail, adapter!NoLaunch, adapter!AdapterIdentity
  <1>2. launch' = launch \/ launch' = [launch EXCEPT ![p] = [session |-> s, inc |-> i + 1]]
    BY DEF adapter!BeginLogical, adapter!AdapterIdentity
  <1>3. AdapterTypeOK(S, Q) /\ LifeTypeOK(S, Q) /\ LaunchTypeOK(S, Q) /\ EndpointInv(S, Q) /\ CurrentInv(S)
    BY DEF AdapterInv, AdapterTypeOK
  <1>4. i \in Nat
    BY <1>1, <1>3 DEF LifeTypeOK, CurrentRec
  <1>5. LaunchTypeOK(S, Q)'
    <2>1. [session |-> s, inc |-> i + 1] \in LaunchRec(S)
      BY <1>4 DEF LaunchRec
    <2> QED
      BY <1>2, <1>3, <2>1 DEF LaunchTypeOK
  <1>6. LifeTypeOK(S, Q)'
    BY <1>1, <1>3 DEF LifeTypeOK, CurrentRec
  <1>7. AdapterTypeOK(S, Q)' \/ ~MailTypeOK(S, Q)'
    BY <1>1, <1>3, <1>5, <1>6 DEF AdapterTypeOK, ReportTypeOK, EndpointTypeOK
  <1>8. CurrentInv(S)'
    <2>1. sessions'[s].inc = i + 1 /\ \A t \in S : t # s => sessions'[t] = sessions[t]
      BY <1>1, <1>3 DEF LifeTypeOK
    <2> QED
      BY <1>1, <1>3, <1>4, <2>1, IncBound DEF CurrentInv
  <1>9. \A q \in Q : launch[q].inc >= 1 => launch'[q] = launch[q]
    <2>1. \A q \in Q : q # p => launch'[q] = launch[q]
      BY <1>2, <1>3 DEF LaunchTypeOK
    <2> QED
      BY <1>1, <2>1
  <1>10. EndpointInv(S, Q)'
    BY <1>1, <1>3, <1>9 DEF EndpointInv
  <1> QED
    BY <1>1, <1>7, <1>8, <1>9, <1>10, MailRests DEF AdapterInv

LEMMA AdapterPeople ==
  ASSUME NEW S, NEW Q, NEW N, AdapterInv(S, Q), NEW p \in Q, NEW s \in S,
         adapter(S, Q, N)!Hello(p, s) \/ adapter(S, Q, N)!Beat(p, s) \/ adapter(S, Q, N)!Bye(p, s)
  PROVE  AdapterInv(S, Q)'
  <1>1. /\ UNCHANGED <<endpoints, said, launch, inbox, delivered, nextId, page, shown>>
        /\ idle' = idle \/ idle' = [idle EXCEPT ![s] = 0]
    BY DEF adapter!Hello, adapter!Beat, adapter!Bye, adapter!mail
  <1>2. /\ AdapterTypeOK(S, Q) /\ LifeTypeOK(S, Q) /\ ReportTypeOK(S)
        /\ EndpointInv(S, Q) /\ CurrentInv(S)
    BY DEF AdapterInv, AdapterTypeOK
  <1>3. procs' \in [S -> SUBSET Q]
    <2>1. PICK x \in SUBSET Q : procs' = [procs EXCEPT ![s] = x]
      BY <1>2 DEF LifeTypeOK, adapter!Hello, adapter!Beat, adapter!Bye
    <2> QED
      BY <1>2, <2>1 DEF LifeTypeOK
  <1>4. /\ sessions' \in [S -> CurrentRec]
        /\ CurrentInv(S)'
    <2>0. sessions[s] \in CurrentRec /\ sessions[s].inc \in Nat /\ sessions[s].live \in BOOLEAN
      BY <1>2 DEF LifeTypeOK, CurrentRec
    <2>1. CASE sessions' = sessions
      BY <1>2, <2>1 DEF LifeTypeOK, CurrentInv
    <2>2. CASE sessions' = [sessions EXCEPT ![s] = [inc |-> sessions[s].inc + 1, live |-> TRUE]] /\ sessions[s].inc < MaxInc
      <3>1. [inc |-> sessions[s].inc + 1, live |-> TRUE] \in CurrentRec
        BY <2>0 DEF CurrentRec
      <3>2. sessions' \in [S -> CurrentRec] /\ sessions'[s].inc = sessions[s].inc + 1
        BY <1>2, <2>2, <3>1 DEF LifeTypeOK
      <3>3. \A t \in S : t # s => sessions'[t] = sessions[t]
        BY <1>2, <2>2 DEF LifeTypeOK
      <3> QED
        BY <1>2, <2>0, <2>2, <3>2, <3>3, IncBound DEF CurrentInv
    <2>3. CASE \E b \in BOOLEAN : sessions' = [sessions EXCEPT ![s].live = b] /\ sessions[s].live
      <3>1. PICK b \in BOOLEAN : sessions' = [sessions EXCEPT ![s] = [sessions[s] EXCEPT !.live = b]]
        BY <2>3
      <3>2. [sessions[s] EXCEPT !.live = b] \in CurrentRec /\ [sessions[s] EXCEPT !.live = b].inc = sessions[s].inc
        BY <2>0 DEF CurrentRec
      <3>3. sessions' \in [S -> CurrentRec] /\ sessions'[s].inc = sessions[s].inc
        BY <1>2, <3>1, <3>2 DEF LifeTypeOK
      <3>4. \A t \in S : t # s => sessions'[t] = sessions[t]
        BY <1>2, <3>1 DEF LifeTypeOK
      <3> QED
        BY <1>2, <2>3, <3>3, <3>4 DEF CurrentInv
    <2> QED
      <3>1. CASE adapter(S, Q, N)!Hello(p, s)
        <4>1. CASE sessions[s].live
          <5>1. sessions' = [sessions EXCEPT ![s] = @]
            BY <3>1, <4>1 DEF adapter!Hello
          <5> QED
            BY <1>2, <2>1, <5>1 DEF LifeTypeOK
        <4>2. CASE ~sessions[s].live
          BY <2>2, <3>1, <4>2 DEF adapter!Hello
        <4> QED
          BY <4>1, <4>2
      <3>2. CASE adapter(S, Q, N)!Beat(p, s)
        BY <2>1, <3>2 DEF adapter!Beat
      <3>3. CASE adapter(S, Q, N)!Bye(p, s)
        BY <2>3, <3>3 DEF adapter!Bye
      <3> QED
        BY <3>1, <3>2, <3>3
  <1>5. idle' \in [S -> Nat] /\ \A t \in S : idle'[t] = 0 \/ idle'[t] = idle[t]
    BY <1>1, <1>2 DEF ReportTypeOK
  <1>6. LifeTypeOK(S, Q)' /\ ReportTypeOK(S)'
    BY <1>1, <1>2, <1>3, <1>4, <1>5 DEF LifeTypeOK, ReportTypeOK
  <1>7. EndpointTypeOK(S, Q)' /\ LaunchTypeOK(S, Q)'
    BY <1>1, <1>2 DEF AdapterTypeOK, EndpointTypeOK, LaunchTypeOK
  <1>8. EndpointInv(S, Q)'
    BY <1>1, <1>2, <1>5 DEF EndpointInv
  <1> QED
    BY <1>1, <1>4, <1>6, <1>7, <1>8, MailRests DEF AdapterInv, AdapterTypeOK

(* A launch whose captured incarnation is the current one. *)
LEMMA Captured ==
  ASSUME NEW S, NEW Q, NEW N, AdapterInv(S, Q), NEW p \in Q, adapter(S, Q, N)!AdapterSession(launch[p])
  PROVE  /\ launch[p].session \in S /\ launch[p].inc \in 1..MaxInc
         /\ sessions[launch[p].session].inc = launch[p].inc /\ sessions[launch[p].session].live
  <1> DEFINE s == launch[p].session
  <1>1. /\ s \in S
        /\ sessions[s].inc = launch[p].inc /\ sessions[s].live
    BY DEF adapter!AdapterSession
  <1> HIDE DEF s
  <1>2. sessions[s].inc \in Nat /\ sessions[s].inc <= MaxInc /\ sessions[s].inc >= 1
    BY <1>1 DEF AdapterInv, AdapterTypeOK, LifeTypeOK, CurrentRec, CurrentInv
  <1> QED
    BY <1>1, <1>2, IncBound DEF s

LEMMA AdapterReports ==
  ASSUME NEW S, NEW Q, NEW N, AdapterInv(S, Q), NEW p \in Q,
         adapter(S, Q, N)!BusyLogical(p) \/ adapter(S, Q, N)!IdleLogical(p)
  PROVE  AdapterInv(S, Q)'
  <1> DEFINE s == launch[p].session
             i == launch[p].inc
  <1>1. /\ UNCHANGED <<sessions, procs, endpoints, launch, inbox, delivered, nextId, page, shown>>
        /\ adapter(S, Q, N)!AdapterSession(launch[p])
    BY DEF adapter!BusyLogical, adapter!IdleLogical, adapter!mail
  <1>2. s \in S /\ i \in 1..MaxInc
    BY <1>1, Captured
  <1>3. AdapterTypeOK(S, Q) /\ ReportTypeOK(S) /\ EndpointInv(S, Q) /\ CurrentInv(S)
    BY DEF AdapterInv, AdapterTypeOK
  <1>4. \/ /\ said' = [said EXCEPT ![s] = [@ EXCEPT ![i] = "idle"]]
           /\ idle' = [idle EXCEPT ![s] = i]
        \/ /\ said' = [said EXCEPT ![s] = [@ EXCEPT ![i] = "busy"]]
           /\ idle' = [idle EXCEPT ![s] = IF @ = i THEN 0 ELSE @]
    BY DEF adapter!BusyLogical, adapter!IdleLogical, adapter!Say
  <1> HIDE DEF s, i
  <1>5. PICK word \in {"idle", "busy"}, mark \in {i, 0, idle[s]} :
          /\ said' = [said EXCEPT ![s] = [said[s] EXCEPT ![i] = word]]
          /\ idle' = [idle EXCEPT ![s] = mark]
          /\ word = "idle" => mark = i
          /\ word = "busy" => mark # i \/ mark = 0
    BY <1>2, <1>4
  <1>6. said[s] \in Report /\ idle[s] \in Nat /\ i \in Nat /\ i >= 1
    BY <1>2, <1>3, IncBound DEF ReportTypeOK
  <1>7. [said[s] EXCEPT ![i] = word] \in Report /\ mark \in Nat
    BY <1>2, <1>6 DEF Report
  <1>8. ReportTypeOK(S)'
    BY <1>2, <1>3, <1>5, <1>7 DEF ReportTypeOK
  <1>9. /\ \A t \in S : t # s => idle'[t] = idle[t] /\ said'[t] = said[t]
        /\ idle'[s] = mark /\ said'[s] = [said[s] EXCEPT ![i] = word]
    BY <1>2, <1>3, <1>5 DEF ReportTypeOK
  <1>10. mark >= 1 => mark <= MaxInc /\ [said[s] EXCEPT ![i] = word][mark] = "idle"
    <2> SUFFICES ASSUME mark >= 1 PROVE mark <= MaxInc /\ [said[s] EXCEPT ![i] = word][mark] = "idle"
      OBVIOUS
    <2>1. CASE mark = i
      <3>1. word = "idle"
        BY <1>5, <1>6, <2>1
      <3>2. [said[s] EXCEPT ![i] = word][i] = "idle"
        BY <1>2, <1>6, <3>1 DEF Report
      <3> QED
        BY <1>2, <2>1, <3>2, IncBound
    <2>2. CASE mark # i
      <3>1. mark = idle[s] /\ mark <= MaxInc /\ said[s][mark] = "idle"
        BY <1>2, <1>3, <2>2 DEF EndpointInv
      <3> QED
        BY <1>6, <1>7, <2>2, <3>1 DEF Report
    <2> QED
      BY <2>1, <2>2
  <1>11. \A t \in S : idle'[t] >= 1 => idle'[t] <= MaxInc /\ said'[t][idle'[t]] = "idle"
    BY <1>3, <1>9, <1>10 DEF EndpointInv
  <1>12. EndpointInv(S, Q)' /\ CurrentInv(S)'
    BY <1>1, <1>3, <1>11 DEF EndpointInv, CurrentInv
  <1>13. LifeTypeOK(S, Q)' /\ EndpointTypeOK(S, Q)' /\ LaunchTypeOK(S, Q)'
    BY <1>1, <1>3 DEF AdapterTypeOK, LifeTypeOK, EndpointTypeOK, LaunchTypeOK
  <1> QED
    BY <1>1, <1>8, <1>12, <1>13, MailRests DEF AdapterInv, AdapterTypeOK

LEMMA AdapterEnds ==
  ASSUME NEW S, NEW Q, NEW N, AdapterInv(S, Q), NEW p \in Q,
         adapter(S, Q, N)!EndLogical(p) \/ adapter(S, Q, N)!RegisterAdapterEndpoint(p)
  PROVE  AdapterInv(S, Q)'
  <1> DEFINE s == launch[p].session
             i == launch[p].inc
  <1>1. /\ UNCHANGED <<idle, said, launch, inbox, delivered, nextId, page, shown>>
        /\ adapter(S, Q, N)!AdapterSession(launch[p])
    BY DEF adapter!EndLogical, adapter!RegisterAdapterEndpoint, adapter!mail
  <1>2. s \in S /\ i \in 1..MaxInc
    BY <1>1, Captured
  <1>3. /\ AdapterTypeOK(S, Q) /\ LifeTypeOK(S, Q) /\ EndpointTypeOK(S, Q)
        /\ EndpointInv(S, Q) /\ CurrentInv(S)
    BY DEF AdapterInv, AdapterTypeOK
  <1>4. \/ /\ sessions' = [sessions EXCEPT ![s].live = FALSE] /\ procs' = [procs EXCEPT ![s] = {}]
           /\ endpoints' = endpoints
        \/ /\ procs' = [procs EXCEPT ![s] = @ \cup {p}] /\ sessions' = sessions
           /\ endpoints' = [endpoints EXCEPT ![s] = [inc |-> i, proc |-> p]]
    BY DEF adapter!EndLogical, adapter!RegisterAdapterEndpoint, adapter!AdapterEndpoint
  <1>5. i \in Nat /\ launch[p].session = s /\ launch[p].inc = i
    BY <1>2
  <1> HIDE DEF s, i
  <1>6. sessions' \in [S -> CurrentRec] /\ CurrentInv(S)'
    BY <1>2, <1>3, <1>4 DEF LifeTypeOK, CurrentRec, CurrentInv
  <1>7. LifeTypeOK(S, Q)'
    BY <1>2, <1>3, <1>4, <1>6 DEF LifeTypeOK
  <1>8. EndpointTypeOK(S, Q)'
    <2>1. [inc |-> i, proc |-> p] \in EndpointRec(Q)
      BY <1>5 DEF EndpointRec
    <2> QED
      BY <1>2, <1>3, <1>4, <2>1 DEF EndpointTypeOK
  <1>9. ReportTypeOK(S)' /\ LaunchTypeOK(S, Q)'
    BY <1>1, <1>3 DEF AdapterTypeOK, ReportTypeOK, LaunchTypeOK
  <1>10. EndpointInv(S, Q)'
    <2>1. CASE endpoints' = endpoints
      BY <1>1, <1>3, <2>1 DEF EndpointInv
    <2>2. CASE endpoints' = [endpoints EXCEPT ![s] = [inc |-> i, proc |-> p]]
      <3>1. /\ endpoints'[s].proc = p /\ endpoints'[s].inc = i
            /\ \A t \in S : t # s => endpoints'[t] = endpoints[t]
        BY <1>2, <1>3, <2>2 DEF EndpointTypeOK
      <3> QED
        BY <1>1, <1>3, <1>5, <3>1 DEF EndpointInv
    <2> QED
      BY <1>4, <2>1, <2>2
  <1> QED
    BY <1>1, <1>6, <1>7, <1>8, <1>9, <1>10, MailRests DEF AdapterInv, AdapterTypeOK

-----------------------------------------------------------------------------
(* A verb of the mail moves no session, and nothing a session reported. *)
LEMMA LifeRests ==
  ASSUME NEW S, NEW Q, AdapterInv(S, Q), UNCHANGED <<sessions, idle, procs, endpoints, said, launch>>,
         MailTypeOK(S, Q)', NumbersInv', PagesInv(Q)', RecipientInv(Q)', CorrectionInv'
  PROVE  AdapterInv(S, Q)'
  <1>1. AdapterTypeOK(S, Q)'
    BY DEF AdapterInv, AdapterTypeOK, LifeTypeOK, ReportTypeOK, EndpointTypeOK, LaunchTypeOK
  <1>2. CurrentInv(S)' /\ EndpointInv(S, Q)'
    BY DEF AdapterInv, CurrentInv, EndpointInv
  <1> QED
    BY <1>1, <1>2 DEF AdapterInv

(* A message kept under the next number has been shown to nobody, and      *)
(* nothing corrects it. *)
LEMMA MailPut ==
  ASSUME NEW S, NEW Q, AdapterInv(S, Q), UNCHANGED <<sessions, idle, procs, endpoints, said, launch>>,
         UNCHANGED <<delivered, page, shown>>, NEW m \in MsgRec(S),
         m.id = nextId, m.corrects < nextId, m.adapter => m.inc >= 1,
         \A n \in inbox : m.corrects = n.id => ~n.adapter,
         inbox' = inbox \cup {m}, nextId' = nextId + 1
  PROVE  AdapterInv(S, Q)'
  <1>1. MailTypeOK(S, Q) /\ NumbersInv /\ PagesInv(Q) /\ RecipientInv(Q) /\ CorrectionInv
    BY DEF AdapterInv, AdapterTypeOK
  <1>2. MailTypeOK(S, Q)'
    BY <1>1 DEF MailTypeOK
  <1>3. /\ nextId \in Nat
        /\ \A n \in inbox : n.id \in Nat /\ n.corrects \in Nat
        /\ \A x \in shown \cup delivered : x[1] \in Nat
        /\ \A p \in Q : \A n \in page[p] : n.id \in Nat
    BY <1>1 DEF MailTypeOK, MsgRec
  <1>4. \A n \in inbox : n.id # m.id /\ n.corrects # m.id
    BY <1>1, <1>3 DEF NumbersInv
  <1>5. \A x \in shown \cup delivered : x[1] # m.id
    BY <1>1, <1>3 DEF NumbersInv
  <1>6. NumbersInv'
    <2>1. \A n \in inbox' : n.id < nextId' /\ n.corrects < nextId'
      <3>1. m.id < nextId' /\ m.corrects < nextId'
        BY <1>3 DEF MsgRec
      <3>2. \A n \in inbox : n.id < nextId' /\ n.corrects < nextId'
        BY <1>1, <1>3 DEF NumbersInv
      <3> QED
        BY <3>1, <3>2
    <2>2. \A n, k \in inbox' : n.id = k.id => n = k
      BY <1>1, <1>4 DEF NumbersInv
    <2>3. \A x \in shown \cup delivered : x[1] < nextId'
      BY <1>1, <1>3 DEF NumbersInv
    <2> QED
      BY <2>1, <2>2, <2>3 DEF NumbersInv
  <1>7. PagesInv(Q)'
    <2>1. \A p \in Q : \A n \in page[p] : n.id < nextId' /\ n.id # m.id
      BY <1>1, <1>3 DEF PagesInv
    <2> QED
      BY <1>1, <2>1 DEF PagesInv
  <1>8. RecipientInv(Q)'
    <2>1. \A r : <<m.id, r>> \notin shown /\ <<m.id, r>> \notin delivered
      BY <1>5
    <2> QED
      BY <1>1, <2>1 DEF RecipientInv
  <1>9. CorrectionInv'
    <2>1. m.corrects # m.id
      BY <1>3 DEF MsgRec
    <2>2. <<m.id, m.target>> \notin delivered
      BY <1>5
    <2> QED
      BY <1>1, <1>4, <2>1, <2>2 DEF CorrectionInv
  <1> QED
    BY <1>2, <1>6, <1>7, <1>8, <1>9, LifeRests

LEMMA AdapterQueues ==
  ASSUME NEW S, NEW Q, NEW N, AdapterInv(S, Q), NEW p \in Q, NEW r \in S, NEW i,
         adapter(S, Q, N)!QueueAdapter(p, r, i)
  PROVE  AdapterInv(S, Q)'
  <1> DEFINE m == [id |-> nextId, target |-> r, sender |-> launch[p].session, adapter |-> TRUE, inc |-> i, corrects |-> 0]
  <1>1. /\ UNCHANGED <<sessions, idle, procs, endpoints, said, launch, delivered, page, shown>>
        /\ inbox' = inbox \cup {m} /\ nextId' = nextId + 1
        /\ adapter(S, Q, N)!AdapterSession(launch[p])
        /\ sessions[r] = [inc |-> i, live |-> TRUE]
    BY DEF adapter!QueueAdapter, adapter!Put, adapter!AdapterDelivery, adapter!AdapterIdentity,
           adapter!AdapterSession, adapter!observed
  <1>2. launch[p].session \in S
    BY <1>1, Captured
  <1>3. i \in Nat /\ i >= 1
    BY <1>1 DEF AdapterInv, AdapterTypeOK, LifeTypeOK, CurrentRec, CurrentInv
  <1>4. nextId \in Nat \ {0} /\ \A n \in inbox : n.id # 0
    BY DEF AdapterInv, AdapterTypeOK, MailTypeOK, MsgRec
  <1>5. m \in MsgRec(S) /\ m.id = nextId /\ m.corrects = 0 /\ m.inc = i
    BY <1>2, <1>3, <1>4 DEF MsgRec
  <1>6. 0 < nextId
    BY <1>4
  <1> HIDE DEF m
  <1> QED
    BY <1>1, <1>3, <1>4, <1>5, <1>6, MailPut

LEMMA AdapterSends ==
  ASSUME NEW S, NEW Q, NEW N, AdapterInv(S, Q), NEW s \in S, NEW r \in S, NEW c \in Nat,
         adapter(S, Q, N)!Send(s, r, c)
  PROVE  AdapterInv(S, Q)'
  <1> DEFINE m == [id |-> nextId, target |-> r, sender |-> s, adapter |-> FALSE, inc |-> 0, corrects |-> c]
  <1>1. /\ UNCHANGED <<sessions, idle, procs, endpoints, said, launch, delivered, page, shown>>
        /\ inbox' = inbox \cup {m} /\ nextId' = nextId + 1
        /\ c # 0 => \E n \in inbox : n.id = c /\ ~n.adapter
    BY DEF adapter!Send, adapter!Put, adapter!Correctable, adapter!observed
  <1>2. nextId \in Nat \ {0} /\ \A n \in inbox : n.id # 0
    BY DEF AdapterInv, AdapterTypeOK, MailTypeOK, MsgRec
  <1>3. /\ \A n \in inbox : n.id < nextId
        /\ \A n, k \in inbox : n.id = k.id => n = k
    BY DEF AdapterInv, NumbersInv
  <1>4. m \in MsgRec(S) /\ m.id = nextId /\ m.corrects = c /\ ~m.adapter
    BY <1>2 DEF MsgRec
  <1>5. c < nextId
    BY <1>1, <1>2, <1>3
  <1>6. \A n \in inbox : c = n.id => ~n.adapter
    BY <1>1, <1>2, <1>3
  <1> HIDE DEF m
  <1> QED
    BY <1>1, <1>4, <1>5, <1>6, MailPut

LEMMA AdapterFetches ==
  ASSUME NEW S, NEW Q, NEW N, AdapterInv(S, Q), NEW p \in Q, adapter(S, Q, N)!Fetch(p)
  PROVE  AdapterInv(S, Q)'
  <1>1. /\ UNCHANGED <<sessions, idle, procs, endpoints, said, launch, inbox, delivered, nextId, shown>>
        /\ page' = [page EXCEPT ![p] = adapter(S, Q, N)!AdapterInbox(launch[p])]
    BY DEF adapter!Fetch, adapter!observed
  <1>2. \A m \in adapter(S, Q, N)!AdapterInbox(launch[p]) :
          m \in inbox /\ m.adapter /\ m.target = launch[p].session /\ m.inc = launch[p].inc
    BY DEF adapter!AdapterInbox, adapter!Waiting
  <1>3. MailTypeOK(S, Q) /\ NumbersInv /\ PagesInv(Q) /\ RecipientInv(Q) /\ CorrectionInv
    BY DEF AdapterInv, AdapterTypeOK
  <1>4. /\ page'[p] = adapter(S, Q, N)!AdapterInbox(launch[p])
        /\ \A q \in Q : q # p => page'[q] = page[q]
    BY <1>1, <1>3 DEF MailTypeOK
  <1>5. MailTypeOK(S, Q)'
    <2>1. adapter(S, Q, N)!AdapterInbox(launch[p]) \subseteq MsgRec(S)
      BY <1>2, <1>3 DEF MailTypeOK
    <2> QED
      BY <1>1, <1>3, <2>1 DEF MailTypeOK
  <1>6. NumbersInv' /\ RecipientInv(Q)' /\ CorrectionInv'
    BY <1>1, <1>3 DEF NumbersInv, RecipientInv, CorrectionInv
  <1>7. PagesInv(Q)'
    <2>1. \A m \in page'[p] :
            /\ m.adapter /\ m.inc >= 1 /\ m.target = launch[p].session /\ m.inc = launch[p].inc
            /\ m.id < nextId /\ \A n \in inbox : n.id = m.id => n = m
      BY <1>2, <1>3, <1>4 DEF RecipientInv, NumbersInv
    <2> QED
      BY <1>1, <1>3, <1>4, <2>1 DEF PagesInv
  <1> QED
    BY <1>1, <1>5, <1>6, <1>7, LifeRests

LEMMA AdapterIngests ==
  ASSUME NEW S, NEW Q, NEW N, AdapterInv(S, Q), "people" \notin Q, NEW p \in Q, NEW m \in page[p],
         adapter(S, Q, N)!Ingest(p, m)
  PROVE  AdapterInv(S, Q)'
  <1>1. /\ UNCHANGED <<sessions, idle, procs, endpoints, said, launch, inbox, delivered, nextId>>
        /\ page' = [page EXCEPT ![p] = @ \ {m}] /\ shown' = shown \cup {<<m.id, p>>}
    BY DEF adapter!Ingest, adapter!observed
  <1>2. MailTypeOK(S, Q) /\ NumbersInv /\ PagesInv(Q) /\ RecipientInv(Q) /\ CorrectionInv
    BY DEF AdapterInv, AdapterTypeOK
  <1>3. /\ m.target = launch[p].session /\ m.inc = launch[p].inc
        /\ m.id < nextId /\ \A n \in inbox : n.id = m.id => n = m
    BY <1>2 DEF PagesInv
  <1>4. m.id \in Nat
    BY <1>2 DEF MailTypeOK, MsgRec
  <1>5. page' \in [Q -> SUBSET MsgRec(S)] /\ \A q \in Q : page'[q] \subseteq page[q]
    BY <1>1, <1>2 DEF MailTypeOK
  <1>6. MailTypeOK(S, Q)'
    BY <1>1, <1>2, <1>4, <1>5 DEF MailTypeOK
  <1>7. NumbersInv' /\ CorrectionInv'
    BY <1>1, <1>2, <1>3 DEF NumbersInv, CorrectionInv
  <1>8. PagesInv(Q)'
    BY <1>1, <1>2, <1>5 DEF PagesInv
  <1>9. RecipientInv(Q)'
    <2> SUFFICES ASSUME NEW n \in inbox, n.adapter
                 PROVE  /\ n.inc >= 1 /\ <<n.id, "people">> \notin shown'
                        /\ \A q \in Q : <<n.id, q>> \in shown' => launch[q].session = n.target /\ launch[q].inc = n.inc
                        /\ <<n.id, n.target>> \in delivered => \E q \in Q : <<n.id, q>> \in shown'
      BY <1>1 DEF RecipientInv
    <2>1. n.inc >= 1 /\ <<n.id, "people">> \notin shown'
      BY <1>1, <1>2 DEF RecipientInv
    <2>2. \A q \in Q : <<n.id, q>> \in shown' => launch[q].session = n.target /\ launch[q].inc = n.inc
      BY <1>1, <1>2, <1>3 DEF RecipientInv
    <2>3. <<n.id, n.target>> \in delivered => \E q \in Q : <<n.id, q>> \in shown'
      BY <1>1, <1>2 DEF RecipientInv
    <2> QED
      BY <2>1, <2>2, <2>3
  <1> QED
    BY <1>1, <1>6, <1>7, <1>8, <1>9, LifeRests

LEMMA AdapterDelivers ==
  ASSUME NEW S, NEW Q, NEW N, AdapterInv(S, Q), NEW p \in Q, NEW m \in inbox,
         adapter(S, Q, N)!DeliverAdapter(p, m)
  PROVE  AdapterInv(S, Q)'
  <1>1. /\ UNCHANGED <<sessions, idle, procs, endpoints, said, launch, inbox, nextId, page, shown>>
        /\ m.adapter /\ <<m.id, p>> \in shown /\ delivered' = delivered \cup {<<m.id, m.target>>}
    BY DEF adapter!DeliverAdapter, adapter!observed, adapter!Addresses
  <1>2. MailTypeOK(S, Q) /\ NumbersInv /\ PagesInv(Q) /\ RecipientInv(Q) /\ CorrectionInv
    BY DEF AdapterInv, AdapterTypeOK
  <1>3. m.id \in Nat /\ m.target \in S
    BY <1>2 DEF MailTypeOK, MsgRec
  <1>4. MailTypeOK(S, Q)'
    BY <1>1, <1>2, <1>3 DEF MailTypeOK
  <1>5. NumbersInv' /\ PagesInv(Q)'
    BY <1>1, <1>2 DEF NumbersInv, PagesInv
  <1>6. \A n \in inbox : n.id = m.id => n = m
    BY <1>2 DEF NumbersInv
  <1>7. RecipientInv(Q)'
    <2>1. \A n \in inbox : <<n.id, n.target>> \in delivered' => <<n.id, n.target>> \in delivered \/ n = m
      BY <1>1, <1>6
    <2> QED
      BY <1>1, <1>2, <2>1 DEF RecipientInv
  <1>8. CorrectionInv'
    <2>1. \A n \in inbox : ~n.adapter /\ <<n.id, n.target>> \in delivered' => <<n.id, n.target>> \in delivered
      BY <1>1, <1>6
    <2> QED
      BY <1>1, <1>2, <2>1 DEF CorrectionInv
  <1> QED
    BY <1>1, <1>4, <1>5, <1>7, <1>8, LifeRests

LEMMA AdapterDrains ==
  ASSUME NEW S, NEW Q, NEW N, AdapterInv(S, Q), "people" \notin Q, NEW s \in S, adapter(S, Q, N)!LegacyDrain(s)
  PROVE  AdapterInv(S, Q)'
  <1> DEFINE found == adapter(S, Q, N)!Undelivered(s)
  <1>1. \A m \in found : m \in inbox /\ m.target = s /\ ~m.adapter
    BY DEF adapter!Undelivered, adapter!Waiting
  <1>2. /\ UNCHANGED <<sessions, idle, procs, endpoints, said, launch, inbox, nextId, page>>
        /\ shown' = shown \cup {<<m.id, "people">> : m \in found}
        /\ delivered' = delivered \cup {<<m.id, s>> : m \in found}
    BY <1>1 DEF adapter!LegacyDrain, adapter!observed, adapter!People
  <1>3. MailTypeOK(S, Q) /\ NumbersInv /\ PagesInv(Q) /\ RecipientInv(Q) /\ CorrectionInv
    BY DEF AdapterInv, AdapterTypeOK
  <1> HIDE DEF found
  <1>4. \A m \in found : m.id \in Nat /\ m.id < nextId /\ \A n \in inbox : n.id = m.id => n = m
    BY <1>1, <1>3 DEF MailTypeOK, MsgRec, NumbersInv
  <1>5. MailTypeOK(S, Q)'
    BY <1>2, <1>3, <1>4 DEF MailTypeOK
  <1>6. NumbersInv' /\ PagesInv(Q)'
    BY <1>2, <1>3, <1>4 DEF NumbersInv, PagesInv
  <1>7. ASSUME NEW n \in inbox, n.adapter
        PROVE  /\ \A r : <<n.id, r>> \in shown' => <<n.id, r>> \in shown
               /\ \A r : <<n.id, r>> \in delivered' => <<n.id, r>> \in delivered
    BY <1>1, <1>2, <1>4, <1>7
  <1>8. RecipientInv(Q)'
    BY <1>2, <1>3, <1>7 DEF RecipientInv
  <1>9. CorrectionInv'
    <2>1. \A n \in inbox : <<n.id, n.target>> \in delivered' =>
            <<n.id, n.target>> \in delivered \/ <<n.id, "people">> \in shown'
      BY <1>2
    <2> QED
      BY <1>2, <1>3, <2>1 DEF CorrectionInv
  <1> QED
    BY <1>2, <1>5, <1>6, <1>8, <1>9, LifeRests

LEMMA AdapterSweeps ==
  ASSUME NEW S, NEW Q, NEW N, AdapterInv(S, Q), adapter(S, Q, N)!Sweep
  PROVE  AdapterInv(S, Q)'
  <1>1. /\ UNCHANGED <<sessions, idle, procs, endpoints, said, launch, nextId, page, shown>>
        /\ inbox' \subseteq inbox /\ delivered' \subseteq delivered
    BY DEF adapter!Sweep, adapter!observed
  <1>2. MailTypeOK(S, Q) /\ NumbersInv /\ PagesInv(Q) /\ RecipientInv(Q) /\ CorrectionInv
    BY DEF AdapterInv, AdapterTypeOK
  <1>3. MailTypeOK(S, Q)' /\ NumbersInv' /\ PagesInv(Q)'
    BY <1>1, <1>2 DEF MailTypeOK, NumbersInv, PagesInv
  <1>4. RecipientInv(Q)' /\ CorrectionInv'
    BY <1>1, <1>2 DEF RecipientInv, CorrectionInv
  <1> QED
    BY <1>1, <1>3, <1>4, LifeRests

LEMMA AdapterStep ==
  ASSUME NEW S, NEW Q, NEW N, N \in Nat, "people" \notin Q, AdapterInv(S, Q), adapter(S, Q, N)!Next
  PROVE  AdapterInv(S, Q)'
  <1>1. ASSUME NEW p \in Q, adapter(S, Q, N)!Lifecycle(p) PROVE AdapterInv(S, Q)'
    BY <1>1, AdapterBegin, AdapterReports, AdapterEnds DEF adapter!Lifecycle, adapter!ApplyLifecycle
  <1>2. ASSUME NEW p \in Q, adapter(S, Q, N)!AdapterVerb(p) PROVE AdapterInv(S, Q)'
    <2>1. CASE adapter(S, Q, N)!RegisterAdapterEndpoint(p)
      BY <2>1, AdapterEnds
    <2>2. ASSUME NEW r \in S, NEW i, adapter(S, Q, N)!QueueAdapter(p, r, i) PROVE AdapterInv(S, Q)'
      BY <2>2, AdapterQueues
    <2>3. CASE adapter(S, Q, N)!Fetch(p)
      BY <2>3, AdapterFetches
    <2>4. ASSUME NEW m \in inbox, adapter(S, Q, N)!DeliverAdapter(p, m) PROVE AdapterInv(S, Q)'
      BY <2>4, AdapterDelivers
    <2> QED
      BY <1>2, <2>1, <2>2, <2>3, <2>4 DEF adapter!AdapterVerb
  <1>3. ASSUME NEW p \in Q, NEW m \in page[p], adapter(S, Q, N)!Ingest(p, m) PROVE AdapterInv(S, Q)'
    BY <1>3, AdapterIngests
  <1>4. ASSUME NEW p \in Q, NEW s \in S,
               adapter(S, Q, N)!Hello(p, s) \/ adapter(S, Q, N)!Beat(p, s) \/ adapter(S, Q, N)!Bye(p, s)
        PROVE  AdapterInv(S, Q)'
    BY <1>4, AdapterPeople
  <1>5. ASSUME NEW s \in S, adapter(S, Q, N)!LegacyDrain(s) PROVE AdapterInv(S, Q)'
    BY <1>5, AdapterDrains
  <1>6. ASSUME NEW s \in S, NEW r \in S, NEW c \in 0..N, adapter(S, Q, N)!Send(s, r, c) PROVE AdapterInv(S, Q)'
    <2>1. c \in Nat
      OBVIOUS
    <2> QED
      BY <1>6, <2>1, AdapterSends
  <1>7. ASSUME adapter(S, Q, N)!Sweep PROVE AdapterInv(S, Q)'
    BY <1>7, AdapterSweeps
  <1> QED
    BY <1>1, <1>2, <1>3, <1>4, <1>5, <1>6, <1>7 DEF adapter!Next

LEMMA AdapterKept == ASSUME NEW S, NEW Q, AdapterInv(S, Q), UNCHANGED <<onlyAdapter, idle, procs>> PROVE AdapterInv(S, Q)'
  <1>1. MailTypeOK(S, Q)' /\ NumbersInv' /\ PagesInv(Q)' /\ RecipientInv(Q)' /\ CorrectionInv'
    BY MailRests DEF onlyAdapter
  <1> QED
    BY <1>1, LifeRests DEF onlyAdapter

-----------------------------------------------------------------------------
PartAdapterInv ==
  /\ part = "adapter" => AdapterInv(Session, Two)
  /\ part = "corrections" => AdapterInv(One, Three)

adapterVars == <<onlyAdapter, idle, procs>>

LEMMA AdapterSteps ==
  ASSUME [Next]_vars
  PROVE  /\ part' = part
         /\ part = "adapter" => adapter(Session, Two, 1)!Next \/ UNCHANGED adapterVars
         /\ part = "corrections" => adapter(One, Three, 2)!Next \/ UNCHANGED adapterVars
  <1>1. CASE AdapterNext
    BY <1>1 DEF AdapterNext
  <1>2. CASE CorrectionsNext
    BY <1>2 DEF CorrectionsNext
  <1>3. CASE TurnsNext \/ ProcsNext
    BY <1>3 DEF TurnsNext, ProcsNext
  <1>4. CASE DirtyNext \/ DirtyLongNext
    BY <1>4 DEF DirtyNext, DirtyLongNext, NotDirty
  <1>5. CASE UNCHANGED vars
    BY <1>5 DEF vars, adapterVars
  <1> QED
    BY <1>1, <1>2, <1>3, <1>4, <1>5 DEF Next

(* Whatever calls of whatever launches come late, twice or not at all,     *)
(* what is on record of a message and of an endpoint stays about the       *)
(* incarnation that was captured.                                          *)
THEOREM AdapterInvariant == Spec => []PartAdapterInv
  <1>0. "people" \notin Two /\ "people" \notin Three
    BY DEF Two, Three
  <1>1. Init => PartAdapterInv
    <2>1. adapter(Session, Two, 1)!Init => AdapterInv(Session, Two)
      BY AdapterInit
    <2>2. adapter(One, Three, 2)!Init => AdapterInv(One, Three)
      BY AdapterInit
    <2> QED
      BY <2>1, <2>2 DEF Init, PartAdapterInv
  <1>2. PartAdapterInv /\ [Next]_vars => PartAdapterInv'
    <2> SUFFICES ASSUME PartAdapterInv, [Next]_vars PROVE PartAdapterInv'
      OBVIOUS
    <2>1. CASE part = "adapter"
      <3>1. adapter(Session, Two, 1)!Next \/ UNCHANGED adapterVars
        BY <2>1, AdapterSteps
      <3>2. AdapterInv(Session, Two)
        BY <2>1 DEF PartAdapterInv
      <3>3. CASE adapter(Session, Two, 1)!Next
        <4>1. AdapterInv(Session, Two)'
          BY <1>0, <3>2, <3>3, 1 \in Nat, AdapterStep
        <4> QED
          BY <2>1, <4>1, AdapterSteps DEF PartAdapterInv
      <3>4. CASE UNCHANGED adapterVars
        <4>1. AdapterInv(Session, Two)'
          BY <3>2, <3>4, AdapterKept DEF adapterVars
        <4> QED
          BY <2>1, <4>1, AdapterSteps DEF PartAdapterInv
      <3> QED
        BY <3>1, <3>3, <3>4
    <2>2. CASE part = "corrections"
      <3>1. adapter(One, Three, 2)!Next \/ UNCHANGED adapterVars
        BY <2>2, AdapterSteps
      <3>2. AdapterInv(One, Three)
        BY <2>2 DEF PartAdapterInv
      <3>3. CASE adapter(One, Three, 2)!Next
        <4>1. AdapterInv(One, Three)'
          BY <1>0, <3>2, <3>3, 2 \in Nat, AdapterStep
        <4> QED
          BY <2>2, <4>1, AdapterSteps DEF PartAdapterInv
      <3>4. CASE UNCHANGED adapterVars
        <4>1. AdapterInv(One, Three)'
          BY <3>2, <3>4, AdapterKept DEF adapterVars
        <4> QED
          BY <2>2, <4>1, AdapterSteps DEF PartAdapterInv
      <3> QED
        BY <3>1, <3>3, <3>4
    <2>3. CASE part \notin {"adapter", "corrections"}
      BY <2>3, AdapterSteps DEF PartAdapterInv
    <2> QED
      BY <2>1, <2>2, <2>3
  <1> QED
    BY <1>1, <1>2, PTL DEF Spec

LEMMA InspectsOwn ==
  ASSUME NEW S, NEW Q, NEW N, AdapterInv(S, Q) PROVE adapter(S, Q, N)!InspectIsOwn
  <1> SUFFICES ASSUME NEW s \in S, NEW i \in 1..MaxInc
               PROVE  /\ adapter(S, Q, N)!Inspect(s, i).endpoint # adapter(S, Q, N)!NoProc =>
                           launch[adapter(S, Q, N)!Inspect(s, i).endpoint] = [session |-> s, inc |-> i]
                      /\ adapter(S, Q, N)!Inspect(s, i).idle => said[s][i] = "idle"
    BY DEF adapter!InspectIsOwn
  <1> DEFINE current == sessions[s] = [inc |-> i, live |-> TRUE]
             e == adapter(S, Q, N)!Inspect(s, i).endpoint
  <1>1. i \in Nat /\ i >= 1
    BY IncBound
  <1>2. EndpointInv(S, Q) /\ LaunchTypeOK(S, Q)
    BY DEF AdapterInv, AdapterTypeOK
  <1>3. adapter(S, Q, N)!Inspect(s, i).idle => idle[s] = i
    BY DEF adapter!Inspect
  <1>4. e # adapter(S, Q, N)!NoProc => endpoints[s].inc = i /\ e = endpoints[s].proc
    BY DEF adapter!Inspect, adapter!Endpoint
  <1> HIDE DEF e
  <1>5. ASSUME endpoints[s].inc = i, e = endpoints[s].proc PROVE launch[e] = [session |-> s, inc |-> i]
    <2>1. e \in Q /\ launch[e].session = s /\ launch[e].inc = i
      BY <1>1, <1>2, <1>5 DEF EndpointInv
    <2> QED
      BY <1>2, <2>1 DEF LaunchTypeOK, LaunchRec
  <1> QED
    BY <1>1, <1>2, <1>3, <1>4, <1>5 DEF EndpointInv, e

LEMMA RecipientsHold ==
  ASSUME NEW S, NEW Q, NEW N, AdapterInv(S, Q) PROVE adapter(S, Q, N)!OnlyItsRecipient
  <1> SUFFICES ASSUME NEW m \in inbox, m.adapter
               PROVE  /\ \A r \in Q \cup {"people"} : <<m.id, r>> \in shown =>
                           r \in Q /\ launch[r] = [session |-> m.target, inc |-> m.inc]
                      /\ <<m.id, m.target>> \in delivered => \E p \in Q : <<m.id, p>> \in shown
    BY DEF adapter!OnlyItsRecipient, adapter!People
  <1>1. RecipientInv(Q) /\ LaunchTypeOK(S, Q)
    BY DEF AdapterInv, AdapterTypeOK
  <1>2. <<m.id, m.target>> \in delivered => \E p \in Q : <<m.id, p>> \in shown
    BY <1>1 DEF RecipientInv
  <1>3. ASSUME NEW r \in Q \cup {"people"}, <<m.id, r>> \in shown
        PROVE  r \in Q /\ launch[r] = [session |-> m.target, inc |-> m.inc]
    <2>1. r \in Q /\ launch[r].session = m.target /\ launch[r].inc = m.inc
      BY <1>1, <1>3 DEF RecipientInv
    <2> QED
      BY <1>1, <2>1 DEF LaunchTypeOK, LaunchRec
  <1> QED
    BY <1>2, <1>3

(* adapter.go: what is queued for one incarnation is shown to no other,    *)
(* and an inspection tells of the incarnation it names.                    *)
THEOREM IncarnationsStayApart == Spec => []IncarnationsAreApart
  <1>1. \A S, Q, N : AdapterInv(S, Q) => adapter(S, Q, N)!IncarnationsAreApart
    <2> SUFFICES ASSUME NEW S, NEW Q, NEW N, AdapterInv(S, Q) PROVE adapter(S, Q, N)!IncarnationsAreApart
      OBVIOUS
    <2> QED
      BY InspectsOwn, RecipientsHold DEF adapter!IncarnationsAreApart
  <1>2. PartAdapterInv => IncarnationsAreApart
    BY <1>1 DEF PartAdapterInv, IncarnationsAreApart
  <1> QED
    BY <1>2, AdapterInvariant, PTL

(* inbox.go, correctable: nobody is shown a correction who cannot be shown *)
(* the original.                                                           *)
THEOREM CorrectionsMeetOriginals == Spec => []CorrectionMeetsItsOriginal
  <1>1. ASSUME AdapterInv(One, Three) PROVE adapter(One, Three, 2)!CorrectionMeetsItsOriginal
    <2> SUFFICES ASSUME NEW c \in inbox, NEW m \in inbox, c.corrects = m.id, <<m.id, "people">> \notin shown
                 PROVE  m \in adapter(One, Three, 2)!Undelivered(m.target)
      BY DEF adapter!CorrectionMeetsItsOriginal, adapter!People
    <2>1. ~m.adapter /\ <<m.id, m.target>> \notin delivered
      BY <1>1 DEF AdapterInv, CorrectionInv
    <2> QED
      BY <2>1 DEF adapter!Undelivered, adapter!Waiting
  <1>2. PartAdapterInv => CorrectionMeetsItsOriginal
    BY <1>1 DEF PartAdapterInv, CorrectionMeetsItsOriginal
  <1> QED
    BY <1>2, AdapterInvariant, PTL

(***************************************************************************)
(* The processes of a session.  While no beat lands after its pid is       *)
(* reused, a row is replaced only by the process it is of, so every        *)
(* process that spoke for the live session and still runs has its row; and *)
(* a bye without force takes away the row of its own process alone.        *)
(***************************************************************************)
RefRec == [pid : Pid, born : Nat \ {0}]
HookRec == [verb : {"hello", "beat", "bye"}, by : RefRec, wraps : 0..1, found : BOOLEAN, ref : {processes!NoRef} \cup RefRec]

KernelInv ==
  /\ spawned \in Nat /\ DOMAIN kernel = Pid \cup {-1}
  /\ \A p \in Pid : kernel[p] = [born |-> 0, title |-> "free"] \/
       \E b \in 1..spawned : \E t \in {"claude", "retitled"} : kernel[p] = [born |-> b, title |-> t]

(* Who a hook speaks for is its own process, or nobody. *)
HooksInv ==
  \A h \in hooks :
    /\ h \in HookRec /\ h.by.born <= spawned
    /\ h.ref = processes!NoRef \/ h.ref = h.by

UsersInv ==
  /\ users \subseteq RefRec /\ \A u \in users : u.born <= spawned
  /\ live \in BOOLEAN
  /\ live => \A u \in users : processes!Running(u) => u \in procs \cup overrun

(* Whoever runs and spoke for the session is on record, or was overrun.    *)
ProcsInv == KernelInv /\ HooksInv /\ UsersInv

-----------------------------------------------------------------------------

LEMMA HopBound == MaxHops \in Nat /\ Pid \subseteq Nat \ {0} /\ MaxBorn \in Nat
  BY ProcessBounds DEF processes!HopsAssumption, processes!PidAssumption, processes!BornAssumption

(* Two titles of a kernel row, or none. *)
LEMMA KernelRows ==
  ASSUME KernelInv, NEW p \in Pid
  PROVE  /\ kernel[p].born \in 0..spawned
         /\ kernel[p].born = 0 => kernel[p] = processes!Free
         /\ kernel[p].born # 0 => kernel[p].title \in {"claude", "retitled"}
  <1>1. CASE kernel[p] = [born |-> 0, title |-> "free"]
    BY <1>1 DEF KernelInv, processes!Free
  <1>2. CASE \E b \in 1..spawned : \E t \in {"claude", "retitled"} : kernel[p] = [born |-> b, title |-> t]
    BY <1>2 DEF KernelInv
  <1> QED
    BY <1>1, <1>2 DEF KernelInv

(* The chain above a hook whose process runs: its wrappers first, and then *)
(* the process. *)
LEMMA ChainAbove ==
  ASSUME NEW h \in HookRec
  PROVE  LET chain == processes!Above(h)
             n == h.wraps + 1
         IN  /\ n \in DOMAIN chain /\ DOMAIN chain \subseteq Nat \ {0}
             /\ chain[n] = [ref |-> h.by, title |-> kernel[h.by.pid].title]
             /\ \A i \in DOMAIN chain : i < n => chain[i].title = "wrapper"
  <1> DEFINE wrapper == [ref |-> processes!NoRef, title |-> "wrapper"]
             own == [ref |-> h.by, title |-> kernel[h.by.pid].title]
             daemon == [ref |-> processes!Daemon, title |-> "claude"]
             L == {wrapper, own, daemon}
             w == [i \in 1..h.wraps |-> wrapper]
             d == IF kernel[h.by.pid].title = "retitled" THEN <<daemon>> ELSE <<>>
  <1>1. processes!Above(h) = (w \o <<own>>) \o d
    BY DEF processes!Above
  <1>2. h.wraps \in Nat
    BY DEF HookRec
  <1>3. wrapper \in L /\ own \in L /\ daemon \in L /\ wrapper.title = "wrapper"
    OBVIOUS
  <1> HIDE DEF wrapper, own, daemon, L
  <1>4. w \in Seq(L) /\ Len(w) = h.wraps /\ \A i \in 1..h.wraps : w[i] = wrapper
    BY <1>2, <1>3
  <1>5. <<own>> \in Seq(L) /\ Len(<<own>>) = 1 /\ <<own>>[1] = own
    BY <1>3
  <1>6. d \in Seq(L) /\ Len(d) \in Nat
    BY <1>3
  <1> HIDE DEF w, d
  <1> DEFINE u == w \o <<own>>
             chain == u \o d
  <1>7. /\ u \in Seq(L) /\ Len(u) = h.wraps + 1
        /\ u[h.wraps + 1] = own /\ \A i \in 1..h.wraps : u[i] = wrapper
    <2>1. /\ u \in Seq(L) /\ Len(u) = Len(w) + Len(<<own>>)
          /\ \A i \in 1..(Len(w) + Len(<<own>>)) : u[i] = IF i <= Len(w) THEN w[i] ELSE <<own>>[i - Len(w)]
      BY <1>4, <1>5, ConcatProperties
    <2>2. /\ Len(u) = h.wraps + 1
          /\ \A i \in 1..(h.wraps + 1) : u[i] = IF i <= h.wraps THEN w[i] ELSE <<own>>[i - h.wraps]
      BY <1>4, <1>5, <2>1
    <2> HIDE DEF u
    <2>3. u[h.wraps + 1] = own
      BY <1>2, <1>5, <2>2
    <2>4. \A i \in 1..h.wraps : u[i] = wrapper
      BY <1>2, <1>4, <2>2
    <2> QED
      BY <2>1, <2>2, <2>3, <2>4
  <1> HIDE DEF u
  <1>8. /\ chain \in Seq(L) /\ Len(chain) = h.wraps + 1 + Len(d)
        /\ \A i \in 1..(h.wraps + 1) : chain[i] = u[i]
    BY <1>2, <1>6, <1>7, ConcatProperties
  <1>9. DOMAIN chain = 1..(h.wraps + 1 + Len(d))
    BY <1>8, LenProperties
  <1> HIDE DEF chain
  <1>10. chain[h.wraps + 1] = own
    <2>1. h.wraps + 1 \in 1..(h.wraps + 1)
      BY <1>2
    <2> QED
      BY <1>7, <1>8, <2>1
  <1>11. \A i \in DOMAIN chain : i < h.wraps + 1 => chain[i].title = "wrapper"
    BY <1>2, <1>3, <1>6, <1>7, <1>8, <1>9
  <1>12. h.wraps + 1 \in DOMAIN chain /\ DOMAIN chain \subseteq Nat \ {0}
    BY <1>2, <1>6, <1>9
  <1>13. processes!Above(h) = chain
    BY <1>1 DEF chain, u
  <1> QED
    BY <1>10, <1>11, <1>12, <1>13 DEF own

LEMMA AnchorsOwn ==
  ASSUME KernelInv, NEW h \in HookRec PROVE processes!AnchorProc(h) \in {processes!NoRef, h.by}
  <1> DEFINE chain == processes!Above(h)
             n == h.wraps + 1
             hits == processes!Hits(chain)
             near == {i \in hits : i <= MaxHops}
  <1>1. CASE ~processes!Running(h.by)
    BY <1>1 DEF processes!AnchorProc
  <1>2. CASE processes!Running(h.by) /\ near = {}
    BY <1>2 DEF processes!AnchorProc, processes!AnchorWalk
  <1>3. CASE processes!Running(h.by) /\ near # {}
    <2>1. h.by.pid \in Pid /\ h.by.born # 0 /\ n \in Nat
      BY DEF HookRec, RefRec
    <2>2. kernel[h.by.pid].title \in {"claude", "retitled"}
      BY <1>3, <2>1, KernelRows DEF processes!Running
    <2>3. /\ n \in DOMAIN chain /\ DOMAIN chain \subseteq Nat \ {0}
          /\ chain[n].ref = h.by /\ chain[n].title = kernel[h.by.pid].title
          /\ \A i \in DOMAIN chain : i < n => chain[i].title = "wrapper"
      <3>1. /\ n \in DOMAIN chain /\ DOMAIN chain \subseteq Nat \ {0}
            /\ chain[n] = [ref |-> h.by, title |-> kernel[h.by.pid].title]
            /\ \A i \in DOMAIN chain : i < n => chain[i].title = "wrapper"
        BY ChainAbove, Zenon
      <3> QED
        BY <3>1
    <2> HIDE DEF chain, n
    <2>4. /\ n \in hits /\ hits \subseteq Nat
          /\ \A i \in hits : ~(i < n)
      BY <2>2, <2>3 DEF processes!Hits, processes!HarnessMatch
    <2> HIDE DEF hits
    <2>5. n \in near /\ \A i \in near : n <= i /\ i \in Nat
      <3>1. PICK i \in hits : i <= MaxHops
        BY <1>3
      <3>2. i \in Nat /\ n <= i /\ n <= MaxHops
        BY <2>1, <2>4, <3>1, HopBound
      <3>3. \A j \in near : j \in hits /\ j \in Nat /\ n <= j
        BY <2>1, <2>4
      <3> QED
        BY <2>4, <3>2, <3>3
    <2>6. \A i \in near : (\A j \in near : i <= j) => i = n
      BY <2>1, <2>5
    <2> HIDE DEF near
    <2>7. (CHOOSE i \in near : \A j \in near : i <= j) = n
      BY <2>5, <2>6
    <2>8. processes!AnchorProc(h) = chain[n].ref
      BY <1>3, <2>7 DEF processes!AnchorProc, processes!AnchorWalk, chain, hits, near
    <2> QED
      BY <2>3, <2>8
  <1> QED
    BY <1>1, <1>2, <1>3

LEMMA ProcsInit == ASSUME processes!Init PROVE ProcsInv
  <1> USE DEF processes!Init
  <1>1. KernelInv
    <2>1. DOMAIN kernel = Pid \cup {-1} /\ spawned = 0
      BY DEF processes!Daemon
    <2>2. \A p \in Pid : p # -1 /\ kernel[p] = processes!Free
      BY HopBound DEF processes!Daemon
    <2> QED
      BY <2>1, <2>2 DEF KernelInv, processes!Free
  <1>2. HooksInv /\ UsersInv
    BY DEF HooksInv, UsersInv
  <1> QED
    BY <1>1, <1>2 DEF ProcsInv

(* A birth is given once, so a pid that is given again revives nobody. *)
LEMMA ProcsMachine ==
  ASSUME ProcsInv, NEW p \in Pid, processes!Spawn(p) \/ processes!Exit(p)
  PROVE  ProcsInv'
  <1>1. /\ UNCHANGED <<hooks, live, procs, users, overrun>>
        /\ \/ /\ spawned' = spawned + 1
              /\ \E t \in {"claude", "retitled"} : kernel' = [kernel EXCEPT ![p] = [born |-> spawned + 1, title |-> t]]
           \/ spawned' = spawned /\ kernel' = [kernel EXCEPT ![p] = [born |-> 0, title |-> "free"]]
    BY DEF processes!Spawn, processes!Exit, processes!Free
  <1>2. KernelInv /\ HooksInv /\ UsersInv /\ spawned \in Nat
    BY DEF ProcsInv, KernelInv
  <1>3. PICK b \in {0, spawned + 1}, t \in {"claude", "retitled", "free"} :
          /\ kernel' = [kernel EXCEPT ![p] = [born |-> b, title |-> t]]
          /\ b = 0 => t = "free"
          /\ b # 0 => t \in {"claude", "retitled"} /\ spawned' = spawned + 1
    <2>1. spawned + 1 # 0
      BY <1>2
    <2> QED
      BY <1>1, <2>1
  <1>4. spawned' \in Nat /\ spawned <= spawned'
    BY <1>1, <1>2
  <1>5. /\ DOMAIN kernel' = DOMAIN kernel /\ kernel'[p] = [born |-> b, title |-> t]
        /\ \A q \in Pid : q # p => kernel'[q] = kernel[q]
    BY <1>2, <1>3 DEF KernelInv
  <1>6. KernelInv'
    <2> SUFFICES ASSUME NEW q \in Pid
                 PROVE  kernel'[q] = [born |-> 0, title |-> "free"] \/
                          \E c \in 1..spawned' : \E u \in {"claude", "retitled"} : kernel'[q] = [born |-> c, title |-> u]
      BY <1>2, <1>4, <1>5 DEF KernelInv
    <2>1. CASE q = p /\ b = 0
      BY <1>3, <1>5, <2>1
    <2>2. CASE q = p /\ b # 0
      <3>1. b \in 1..spawned' /\ t \in {"claude", "retitled"}
        BY <1>2, <1>3, <2>2
      <3> QED
        BY <1>5, <2>2, <3>1
    <2>3. CASE q # p
      <3>1. 1..spawned \subseteq 1..spawned'
        BY <1>2, <1>4
      <3> QED
        BY <1>2, <1>5, <2>3, <3>1 DEF KernelInv
    <2> QED
      BY <2>1, <2>2, <2>3
  <1>7. HooksInv'
    <2>1. \A h \in hooks : h.by.born <= spawned'
      BY <1>2, <1>4 DEF HooksInv, HookRec, RefRec
    <2> QED
      BY <1>1, <1>2, <2>1 DEF HooksInv
  <1>8. \A u \in users : processes!Running(u)' => processes!Running(u)
    <2> SUFFICES ASSUME NEW u \in users, kernel'[u.pid].born = u.born PROVE kernel[u.pid].born = u.born
      BY DEF processes!Running
    <2>1. u.pid \in Pid /\ u.born \in Nat \ {0} /\ u.born <= spawned
      BY <1>2 DEF UsersInv, RefRec
    <2>2. u.pid # p
      BY <1>2, <1>5, <2>1
    <2> QED
      BY <1>5, <2>1, <2>2
  <1>9. UsersInv'
    <2>1. \A u \in users : u.born <= spawned'
      BY <1>2, <1>4 DEF UsersInv, RefRec
    <2> QED
      BY <1>1, <1>2, <1>8, <2>1 DEF UsersInv
  <1> QED
    BY <1>6, <1>7, <1>9 DEF ProcsInv

(* A hook starts, finds its process, or is killed. *)
LEMMA ProcsHooks ==
  ASSUME ProcsInv,
         \/ \E p \in Pid : \E verb \in {"hello", "beat", "bye"} : processes!Launch(p, verb)
         \/ \E h \in hooks : processes!Anchor(h) \/ processes!Killed(h)
  PROVE  ProcsInv'
  <1>1. UNCHANGED <<kernel, spawned, live, procs, users, overrun>>
    BY DEF processes!Launch, processes!Anchor, processes!Killed
  <1>2. KernelInv /\ HooksInv /\ UsersInv /\ spawned \in Nat
    BY DEF ProcsInv, KernelInv
  <1>3. KernelInv' /\ UsersInv'
    BY <1>1, <1>2 DEF KernelInv, UsersInv, processes!Running
  <1>4. HooksInv'
    <2>1. ASSUME NEW k, k \in HookRec, k.by.born <= spawned, k.ref = processes!NoRef \/ k.ref = k.by,
                 hooks' \subseteq hooks \cup {k}
          PROVE  HooksInv'
      BY <1>1, <1>2, <2>1 DEF HooksInv
    <2>2. ASSUME NEW p \in Pid, NEW verb \in {"hello", "beat", "bye"}, processes!Launch(p, verb) PROVE HooksInv'
      <3>1. kernel[p].born \in 1..spawned
        <4>1. kernel[p] # processes!Free
          BY <2>2 DEF processes!Launch
        <4> QED
          BY <1>2, <4>1, KernelRows
      <3>2. PICK wraps \in 0..1 :
              hooks' = hooks \cup {[verb |-> verb, by |-> [pid |-> p, born |-> kernel[p].born],
                                    wraps |-> wraps, found |-> FALSE, ref |-> processes!NoRef]}
        BY <2>2 DEF processes!Launch, processes!Ref
      <3> DEFINE by == [pid |-> p, born |-> kernel[p].born]
                 k == [verb |-> verb, by |-> by, wraps |-> wraps, found |-> FALSE, ref |-> processes!NoRef]
      <3>3. by \in RefRec /\ by.born <= spawned
        BY <1>2, <3>1 DEF RefRec
      <3>4. k \in HookRec /\ k.by = by /\ k.ref = processes!NoRef
        <4> HIDE DEF by
        <4> QED
          BY <3>3 DEF HookRec
      <3>5. hooks' \subseteq hooks \cup {k}
        BY <3>2
      <3> HIDE DEF k, by
      <3> QED
        BY <2>1, <3>3, <3>4, <3>5
    <2>3. ASSUME NEW h \in hooks, processes!Anchor(h) PROVE HooksInv'
      <3> DEFINE r == processes!AnchorProc(h)
                 k == [h EXCEPT !.found = TRUE, !.ref = r]
      <3>1. h \in HookRec /\ h.by.born <= spawned
        BY <1>2 DEF HooksInv
      <3>2. r \in {processes!NoRef, h.by}
        BY <1>2, <3>1, AnchorsOwn
      <3>3. hooks' \subseteq hooks \cup {k}
        BY <2>3 DEF processes!Anchor
      <3> HIDE DEF r
      <3>4. k \in HookRec /\ k.by = h.by /\ k.ref = r
        BY <3>1, <3>2 DEF HookRec
      <3> HIDE DEF k
      <3> QED
        BY <2>1, <3>1, <3>2, <3>3, <3>4
    <2>4. ASSUME NEW h \in hooks, processes!Killed(h) PROVE HooksInv'
      BY <1>1, <1>2, <2>4 DEF processes!Killed, HooksInv
    <2> QED
      BY <2>2, <2>3, <2>4
  <1> QED
    BY <1>3, <1>4 DEF ProcsInv

(* What is left when a hook has landed. *)
LEMMA Landed ==
  ASSUME ProcsInv, NEW h \in hooks, NEW verb, processes!Landing(h, verb)
  PROVE  /\ KernelInv' /\ HooksInv' /\ UNCHANGED <<kernel, spawned>>
         /\ h.by \in RefRec /\ h.by.born <= spawned
         /\ h.ref = processes!NoRef \/ h.ref = h.by
         /\ hooks' = hooks \ {h}
  <1>1. UNCHANGED <<kernel, spawned>> /\ hooks' = hooks \ {h}
    BY DEF processes!Landing
  <1> QED
    BY <1>1 DEF ProcsInv, KernelInv, HooksInv, HookRec

(* A hello or a beat replaces the row of its own pid. Whoever else runs    *)
(* under that pid is overrun.                                              *)
LEMMA Registers ==
  ASSUME ProcsInv, NEW h \in hooks, NEW verb \in {"hello", "beat"}, processes!Landing(h, verb),
         NEW rows0, NEW users0 \in SUBSET users, NEW beaten,
         \A u \in users0 : processes!Running(u) => u \in rows0 \cup beaten,
         live' \in BOOLEAN, procs' = processes!RegisterProc(rows0, h.ref),
         processes!Speaks(h, users0, beaten)
  PROVE  ProcsInv'
  <1>1. /\ KernelInv' /\ HooksInv' /\ UNCHANGED <<kernel, spawned>>
        /\ h.by \in RefRec /\ h.by.born <= spawned
        /\ h.ref = processes!NoRef \/ h.ref = h.by
    BY Landed
  <1>2. users \subseteq RefRec /\ \A u \in users : u.born <= spawned
    BY DEF ProcsInv, UsersInv
  <1> DEFINE speaker == IF h.ref = processes!NoRef THEN {} ELSE {h.by}
  <1>3. /\ users' = users0 \cup speaker
        /\ overrun' = (beaten \ speaker) \cup {u \in users0 \ speaker : processes!Running(u) /\ u.pid = h.ref.pid}
    BY DEF processes!Speaks
  <1>4. \A u \in users' : processes!Running(u) => u \in procs' \cup overrun'
    <2> SUFFICES ASSUME NEW u \in users', processes!Running(u) PROVE u \in procs' \cup overrun'
      OBVIOUS
    <2>1. CASE h.ref = processes!NoRef
      BY <1>3, <2>1 DEF processes!RegisterProc
    <2>2. CASE h.ref # processes!NoRef
      <3>1. h.ref = h.by /\ procs' = {q \in rows0 : q.pid # h.by.pid} \cup {h.by} /\ speaker = {h.by}
        BY <1>1, <2>2 DEF processes!RegisterProc
      <3>2. CASE u = h.by
        BY <3>1, <3>2
      <3>3. CASE u \in users0 /\ u # h.by /\ u.pid # h.by.pid
        BY <1>3, <3>1, <3>3
      <3>4. CASE u \in users0 /\ u # h.by /\ u.pid = h.by.pid
        BY <1>3, <3>1, <3>4
      <3> QED
        BY <1>3, <3>1, <3>2, <3>3, <3>4
    <2> QED
      BY <2>1, <2>2
  <1>5. UsersInv'
    BY <1>1, <1>2, <1>3, <1>4 DEF UsersInv, processes!Running
  <1> QED
    BY <1>1, <1>5 DEF ProcsInv

LEMMA ProcsRegister ==
  ASSUME ProcsInv, NEW h \in hooks, processes!HelloFrom(h) \/ processes!BeatFrom(h)
  PROVE  ProcsInv'
  <1>1. live => \A u \in users : processes!Running(u) => u \in procs \cup overrun
    BY DEF ProcsInv, UsersInv
  <1>2. CASE processes!HelloFrom(h) /\ live
    <2>1. processes!Landing(h, "hello") /\ live' = TRUE /\ procs' = processes!RegisterProc(procs, h.ref)
          /\ processes!Speaks(h, users, overrun)
      BY <1>2 DEF processes!HelloFrom
    <2> QED
      BY <1>1, <1>2, <2>1, Registers
  <1>3. CASE processes!HelloFrom(h) /\ ~live
    <2>1. processes!Landing(h, "hello") /\ live' = TRUE /\ procs' = processes!RegisterProc({}, h.ref)
          /\ processes!Speaks(h, {}, {})
      BY <1>3 DEF processes!HelloFrom
    <2>2. {} \in SUBSET users /\ \A u \in {} : processes!Running(u) => u \in {} \cup {}
      OBVIOUS
    <2> QED
      BY <2>1, <2>2, Registers
  <1>4. CASE processes!BeatFrom(h) /\ live
    <2>1. processes!Landing(h, "beat") /\ live' = live /\ procs' = processes!RegisterProc(procs, h.ref)
          /\ processes!Speaks(h, users, overrun)
      BY <1>4 DEF processes!BeatFrom
    <2> QED
      BY <1>1, <1>4, <2>1, Registers
  <1>5. CASE processes!BeatFrom(h) /\ ~live
    <2>1. processes!Landing(h, "beat") /\ UNCHANGED <<live, procs, users, overrun>>
      BY <1>5 DEF processes!BeatFrom
    <2>2. KernelInv' /\ HooksInv' /\ UNCHANGED <<kernel, spawned>>
      BY <2>1, Landed
    <2> QED
      BY <2>1, <2>2 DEF ProcsInv, UsersInv, processes!Running
  <1> QED
    BY <1>2, <1>3, <1>4, <1>5

(* A bye that leaves the session live takes only rows of its own process   *)
(* and of processes that are gone.                                         *)
LEMMA ByeLeaves ==
  ASSUME ProcsInv, NEW from, from = processes!NoRef \/ from \in RefRec,
         NEW force \in BOOLEAN, NEW unsaid, processes!ByeOf(from, force, unsaid)
  PROVE  /\ live' \in BOOLEAN
         /\ live' => live /\ \A u \in users : processes!Running(u) /\ u # from => u \in procs' \cup overrun
         /\ live /\ ~live' /\ ~force =>
              \A u \in users : processes!Running(u) => u \in overrun \/ (u = from /\ from # processes!NoRef)
  <1>1. /\ live \in BOOLEAN /\ users \subseteq RefRec
        /\ live => \A u \in users : processes!Running(u) => u \in procs \cup overrun
    BY DEF ProcsInv, UsersInv
  <1> DEFINE blocking == {r \in procs : ~processes!Mine(r, from) /\ processes!ProcAlive(r, unsaid)}
  <1>2. \A u \in users : u \in procs /\ processes!Running(u) => u \in blocking \/ (u = from /\ from # processes!NoRef)
    <2> SUFFICES ASSUME NEW u \in users, u \in procs, processes!Running(u), processes!Mine(u, from)
                 PROVE  u = from /\ from # processes!NoRef
      BY DEF processes!ProcAlive
    <2>1. from.pid # 0 /\ u.pid = from.pid /\ (from.born = 0 \/ u.born = 0 \/ u.born = from.born)
      BY DEF processes!Mine
    <2>2. from \in RefRec /\ from # processes!NoRef
      BY <2>1 DEF processes!NoRef
    <2>3. u \in RefRec /\ u.pid = from.pid /\ u.born = from.born
      BY <1>1, <2>1, <2>2 DEF RefRec
    <2> QED
      BY <2>2, <2>3 DEF RefRec
  <1>3. CASE ~live
    BY <1>1, <1>3 DEF processes!ByeOf
  <1>4. CASE live /\ blocking # {} /\ ~force
    <2>1. procs' = blocking /\ live' = live
      BY <1>4 DEF processes!ByeOf
    <2> QED
      BY <1>1, <1>2, <1>4, <2>1
  <1>5. CASE live /\ ~(blocking # {} /\ ~force)
    <2>1. live' = FALSE
      BY <1>5 DEF processes!ByeOf
    <2> QED
      BY <1>1, <1>2, <1>5, <2>1
  <1> QED
    BY <1>3, <1>4, <1>5

LEMMA ProcsBye ==
  ASSUME ProcsInv, NEW h \in hooks, processes!ByeFrom(h) PROVE ProcsInv'
  <1>1. /\ KernelInv' /\ HooksInv' /\ UNCHANGED <<kernel, spawned>>
        /\ h.by \in RefRec /\ (h.ref = processes!NoRef \/ h.ref = h.by)
    BY Landed DEF processes!ByeFrom
  <1>2. PICK unsaid : processes!ByeOf(h.ref, FALSE, unsaid)
    BY DEF processes!ByeFrom
  <1>3. users' = (IF live' THEN users \ {h.by} ELSE {}) /\ overrun' = overrun \cap users'
    BY DEF processes!ByeFrom, processes!Left
  <1>4. live' \in BOOLEAN /\ (live' => \A u \in users : processes!Running(u) /\ u # h.ref => u \in procs' \cup overrun)
    BY <1>1, <1>2, ByeLeaves
  <1>5. \A u \in users : u \in RefRec /\ u # processes!NoRef
    BY DEF ProcsInv, UsersInv, RefRec, processes!NoRef
  <1>6. live' => \A u \in users' : processes!Running(u) => u \in procs' \cup overrun'
    BY <1>1, <1>3, <1>4, <1>5
  <1>7. UsersInv'
    BY <1>1, <1>3, <1>4, <1>6 DEF ProcsInv, UsersInv, processes!Running
  <1> QED
    BY <1>1, <1>7 DEF ProcsInv

LEMMA ProcsByHand ==
  ASSUME ProcsInv, processes!HelloByHand \/ \E force \in BOOLEAN : processes!ByeByHand(force) PROVE ProcsInv'
  <1>1. kernel' = kernel /\ spawned' = spawned /\ hooks' = hooks
    BY DEF processes!HelloByHand, processes!ByeByHand
  <1>2. KernelInv' /\ HooksInv'
    <2>1. KernelInv'
      BY <1>1 DEF ProcsInv, KernelInv
    <2>2. HooksInv'
      BY <1>1 DEF ProcsInv, HooksInv
    <2> QED
      BY <2>1, <2>2
  <1>3. ASSUME processes!HelloByHand PROVE UsersInv'
    <2>1. live' = TRUE /\ users' = {}
      BY <1>3 DEF processes!HelloByHand
    <2> QED
      BY <2>1 DEF UsersInv
  <1>4. ASSUME NEW force \in BOOLEAN, processes!ByeByHand(force) PROVE UsersInv'
    <2>1. PICK unsaid : processes!ByeOf(processes!NoRef, force, unsaid)
      BY <1>4 DEF processes!ByeByHand
    <2>2. users' = (IF live' THEN users ELSE {}) /\ overrun' = overrun \cap users'
      BY <1>4 DEF processes!ByeByHand, processes!Left
    <2>3. /\ live' \in BOOLEAN
          /\ live' => \A u \in users : processes!Running(u) /\ u # processes!NoRef => u \in procs' \cup overrun
      BY <2>1, ByeLeaves
    <2>4. \A u \in users : u # processes!NoRef
      BY DEF ProcsInv, UsersInv, RefRec, processes!NoRef
    <2> QED
      BY <1>1, <2>2, <2>3, <2>4 DEF ProcsInv, UsersInv, processes!Running
  <1> QED
    BY <1>2, <1>3, <1>4 DEF ProcsInv

LEMMA ProcsStep == ASSUME ProcsInv, processes!Next PROVE ProcsInv'
  <1>1. ASSUME NEW p \in Pid, processes!Spawn(p) \/ processes!Exit(p) PROVE ProcsInv'
    BY <1>1, ProcsMachine
  <1>2. ASSUME \/ \E p \in Pid : \E verb \in {"hello", "beat", "bye"} : processes!Launch(p, verb)
               \/ \E h \in hooks : processes!Anchor(h) \/ processes!Killed(h)
        PROVE  ProcsInv'
    BY <1>2, ProcsHooks
  <1>3. ASSUME NEW h \in hooks, processes!HelloFrom(h) \/ processes!BeatFrom(h) PROVE ProcsInv'
    BY <1>3, ProcsRegister
  <1>4. ASSUME NEW h \in hooks, processes!ByeFrom(h) PROVE ProcsInv'
    BY <1>4, ProcsBye
  <1>5. ASSUME processes!HelloByHand \/ \E force \in BOOLEAN : processes!ByeByHand(force) PROVE ProcsInv'
    BY <1>5, ProcsByHand
  <1> QED
    BY <1>1, <1>2, <1>3, <1>4, <1>5 DEF processes!Next

(* Only two verbs end a session, and a bye by hand speaks for no process. *)
LEMMA ProcsSpare == ASSUME ProcsInv, processes!Next PROVE processes!SparesTheLiving
  <1> SUFFICES ASSUME live, ~live', ~processes!ByeByHand(TRUE), NEW u \in users, processes!Running(u)
               PROVE  u \in overrun \cup {h.by : h \in hooks \ hooks'}
    BY DEF processes!SparesTheLiving
  <1>1. (\E h \in hooks : processes!ByeFrom(h)) \/ \E force \in BOOLEAN : processes!ByeByHand(force)
    BY DEF processes!Next, processes!Spawn, processes!Exit, processes!Launch, processes!Anchor, processes!Killed,
           processes!HelloFrom, processes!BeatFrom, processes!HelloByHand
  <1>2. ASSUME NEW h \in hooks, processes!ByeFrom(h) PROVE u \in overrun \cup {k.by : k \in hooks \ hooks'}
    <2>1. PICK unsaid : processes!ByeOf(h.ref, FALSE, unsaid)
      BY <1>2 DEF processes!ByeFrom
    <2>2. hooks' = hooks \ {h} /\ h.by \in RefRec /\ (h.ref = processes!NoRef \/ h.ref = h.by)
      BY <1>2, Landed DEF processes!ByeFrom
    <2>3. u \in overrun \/ (u = h.ref /\ h.ref # processes!NoRef)
      BY <2>1, <2>2, ByeLeaves
    <2> QED
      BY <2>2, <2>3
  <1>3. ASSUME NEW force \in BOOLEAN, processes!ByeByHand(force) PROVE u \in overrun
    <2>1. force = FALSE
      BY <1>3
    <2>2. PICK unsaid : processes!ByeOf(processes!NoRef, FALSE, unsaid)
      BY <1>3, <2>1 DEF processes!ByeByHand
    <2> QED
      BY <2>2, ByeLeaves
  <1> QED
    BY <1>1, <1>2, <1>3

-----------------------------------------------------------------------------
PartProcsInv == part = "procs" => ProcsInv

procsVars == <<hooks, procs, onlyProcs>>

LEMMA ProcsSteps ==
  ASSUME [Next]_vars PROVE part' = part /\ (part = "procs" => processes!Next \/ UNCHANGED procsVars)
  <1>1. CASE ProcsNext
    BY <1>1 DEF ProcsNext
  <1>2. CASE TurnsNext
    BY <1>2 DEF TurnsNext
  <1>3. CASE AdapterNext \/ CorrectionsNext
    BY <1>3 DEF AdapterNext, CorrectionsNext
  <1>4. CASE DirtyNext \/ DirtyLongNext
    BY <1>4 DEF DirtyNext, DirtyLongNext, NotDirty
  <1>5. CASE UNCHANGED vars
    BY <1>5 DEF vars, procsVars
  <1> QED
    BY <1>1, <1>2, <1>3, <1>4, <1>5 DEF Next

(* Every process that spoke for the live session and still runs is         *)
(* registered, but for one whose row a hook of an earlier process of its   *)
(* pid took since it last spoke.                                           *)
THEOREM ProcsInvariant == Spec => []PartProcsInv
  <1>1. Init => PartProcsInv
    BY ProcsInit DEF Init, PartProcsInv
  <1>2. PartProcsInv /\ [Next]_vars => PartProcsInv'
    <2> SUFFICES ASSUME PartProcsInv, [Next]_vars, part = "procs" PROVE ProcsInv'
      BY ProcsSteps DEF PartProcsInv
    <2>1. CASE processes!Next
      BY <2>1, ProcsStep DEF PartProcsInv
    <2>2. CASE UNCHANGED procsVars
      BY <2>2 DEF PartProcsInv, procsVars, onlyProcs, ProcsInv, KernelInv, HooksInv, UsersInv, processes!Running
    <2> QED
      BY <2>1, <2>2, ProcsSteps
  <1> QED
    BY <1>1, <1>2, PTL DEF Spec

(* ByeFrom: a bye that is not forced ends the session only when no other   *)
(* process that spoke for it still runs, but for one that was overrun.     *)
THEOREM ByesSpareTheLiving == Spec => EndSparesTheLiving
  <1>1. PartProcsInv /\ [Next]_vars => [part = "procs" => processes!SparesTheLiving]_vars
    <2> SUFFICES ASSUME PartProcsInv, [Next]_vars, part = "procs" PROVE processes!SparesTheLiving
      OBVIOUS
    <2>1. CASE processes!Next
      BY <2>1, ProcsSpare DEF PartProcsInv
    <2>2. CASE UNCHANGED procsVars
      BY <2>2 DEF procsVars, onlyProcs, processes!SparesTheLiving
    <2> QED
      BY <2>1, <2>2, ProcsSteps
  <1> QED
    BY <1>1, ProcsInvariant, PTL DEF Spec, EndSparesTheLiving


(***************************************************************************)
(* Turns.  A hook that records what it read either recorded it for the     *)
(* incarnation it was made in, or found it no older than the registration  *)
(* of a later one: then both are of one second, for whatever was made      *)
(* before a registration is no later than its second.                      *)
(***************************************************************************)
Recorded == [kind : {"user", "usage"}, prompt : Nat, at : Nat, size : Nat, inc : Nat]
NoHook == [at |-> "none"]
TurnPlace ==
  {"stop", "stop identity", "stop context", "stop base", "stop mark",
   "busy", "busy identity", "busy read", "busy context", "busy observe", "busy tell",
   "beat", "beat identity", "beat read", "beat context"}
TurnHook ==
  [at : TurnPlace, prompt : Nat, inc : Nat, usage : {turns!None} \cup Recorded, fence : {turns!None} \cup Recorded,
   landed : BOOLEAN, started : Nat]

(* Made by now, in this incarnation or in an earlier one, and then no      *)
(* later than the second this one registered in.                           *)
MadeBy(r) ==
  /\ r.at <= clock /\ r.inc <= session.inc
  /\ r.inc < session.inc => turns!Second(r.at) <= session.started

RegisterInv ==
  /\ clock \in Nat
  /\ session \in [live : BOOLEAN, inc : Nat, started : Nat]
  /\ session.started % 2 = 0 /\ session.started <= clock

OnDisk == {transcript[i] : i \in DOMAIN transcript}

DiskInv ==
  /\ turn \in [prompt : Nat, at : {"rest", "working"}, reply : {turns!None} \cup Recorded]
  /\ turn.reply # turns!None => MadeBy(turn.reply)
  /\ transcript \in Seq(Recorded)
  /\ \A r \in OnDisk : MadeBy(r)

(* What a hook has read, and when its incarnation registered.              *)
ReadBy(k) ==
  /\ k \in TurnHook /\ k.inc <= session.inc
  /\ k.usage # turns!None => MadeBy(k.usage)
  /\ k.fence # turns!None => MadeBy(k.fence)
  /\ k.at \in {"stop context", "stop base"} =>
       /\ k.fence # turns!None
       /\ k.inc = session.inc => k.fence.at >= session.started
  /\ k.at \in {"stop identity", "stop context", "stop base"} => (k.landed => k.usage = k.fence)
  /\ k.at = "stop context" => k.landed
  /\ k.at \in {"busy read", "busy context"} => (k.inc = session.inc => k.started = session.started)
  /\ k.at = "busy context" => k.usage # turns!None /\ k.usage.at >= k.started
  /\ k.at = "beat context" => k.usage # turns!None

TurnHooksInv == DOMAIN hooks = Hook /\ \A h \in Hook : hooks[h] = NoHook \/ ReadBy(hooks[h])

(* Of a row's own incarnation, or made in the second that one registered.  *)
Owned(row) == row.inc <= session.inc /\ (turns!IsOf(row, row.inc) \/ turns!InItsSecond(row))

Mark == [kind : {"idle"}, inc : Nat, of : {turns!None} \cup Recorded]
Commit == [kind : {"base"}, inc : Nat, at : Nat, of : Recorded]
Footprint == [kind : {"context"}, inc : Nat, of : Recorded, by : {"stop", "busy", "beat"}, step : Int]

IdleInv == idle # turns!None => idle \in Mark /\ Owned(idle)
BaseInv == base # turns!None => base \in Commit /\ Owned(base)
ContextInv ==
  context # turns!None =>
    /\ context \in Footprint /\ context.inc <= session.inc /\ MadeBy(context.of)
    /\ context.by # "beat" => Owned(context)
    /\ context.of.size < HandoffAt => context.step = -1

TurnsInv == RegisterInv /\ DiskInv /\ TurnHooksInv /\ IdleInv /\ BaseInv /\ ContextInv

-----------------------------------------------------------------------------

LEMMA NotOver == \A n \in Nat : n <= n
  OBVIOUS

LEMMA SizesAreNat == Size \subseteq Nat /\ HandoffAt \in Nat
  BY TurnBounds DEF turns!SizeAssumption, turns!HandoffAssumption

LEMMA Seconds ==
  ASSUME NEW s \in Nat, NEW t \in Nat, s <= t
  PROVE  /\ turns!Second(s) \in Nat /\ turns!Second(s) <= s /\ turns!Second(s) % 2 = 0
         /\ turns!Second(s) <= turns!Second(t)
         /\ s % 2 = 0 => turns!Second(s) = s
  BY DEF turns!Second

(* A set of naturals has a least element.  A set of times that have passed *)
(* has a greatest.                                                         *)
LEMMA LeastOf == ASSUME NEW T \in SUBSET Nat, T # {} PROVE \E x \in T : \A y \in T : x <= y
  <1> DEFINE R == {p \in Nat \X Nat : p[1] < p[2]}
  <1>1. IsWellFoundedOn(R, Nat)
    BY NatLessThanWellFounded DEF OpToRel
  <1>2. \E x \in T : \A y \in T : ~(<<y, x>> \in R)
    <2> HIDE DEF R
    <2> QED
      BY <1>1, WFMin
  <1>3. PICK x \in T : \A y \in T : ~(<<y, x>> \in R)
    BY <1>2
  <1>4. \A y \in T : <<y, x>> \in Nat \X Nat /\ <<y, x>>[1] = y /\ <<y, x>>[2] = x
    OBVIOUS
  <1>5. \A y \in T : ~(y < x)
    BY <1>3, <1>4
  <1>6. \A y \in T : x <= y
    BY <1>5
  <1> QED
    BY <1>6

LEMMA GreatestOf ==
  ASSUME NEW n \in Nat, NEW T \in SUBSET (0..n), T # {} PROVE \E x \in T : \A y \in T : y <= x
  <1> DEFINE U == {n - x : x \in T}
  <1>1. \A x \in T : n - x \in Nat /\ n - x \in U
    OBVIOUS
  <1>2. U \in SUBSET Nat /\ U # {}
    <2>1. \A u \in U : u \in Nat
      BY <1>1
    <2> QED
      BY <1>1, <2>1
  <1>3. PICK u \in U : \A y \in U : u <= y
    BY <1>2, LeastOf
  <1>4. PICK x \in T : u = n - x
    OBVIOUS
  <1>5. \A y \in T : n - x <= n - y
    BY <1>1, <1>3, <1>4
  <1> QED
    BY <1>5

LEMMA NewestIsOne ==
  ASSUME NEW S, NEW n \in Nat, S # {}, \A r \in S : r.at \in Nat /\ r.at <= n PROVE turns!Newest(S) \in S
  <1> DEFINE T == {r.at : r \in S}
  <1>1. T \in SUBSET (0..n) /\ T # {}
    OBVIOUS
  <1>2. PICK x \in T : \A y \in T : y <= x
    BY <1>1, GreatestOf
  <1>3. \E r \in S : \A q \in S : q.at <= r.at
    BY <1>2
  <1> QED
    BY <1>3 DEF turns!Newest

LEMMA WhatIsRead ==
  ASSUME RegisterInv, DiskInv
  PROVE  /\ turns!LastUsage # turns!None => turns!LastUsage \in Recorded /\ MadeBy(turns!LastUsage)
         /\ turns!Pending # turns!None => turns!Pending \in Recorded /\ MadeBy(turns!Pending)
         /\ turns!Requests = {} => turns!LastUsage = turns!None
  <1>1. turns!Requests \subseteq OnDisk /\ turns!Prompts \subseteq OnDisk
    BY DEF turns!Requests, turns!Prompts, turns!ToSet, OnDisk
  <1>2. \A r \in OnDisk : r \in Recorded /\ MadeBy(r)
    BY DEF DiskInv, OnDisk
  <1>3. \A r \in OnDisk : r.at \in Nat /\ r.at <= clock
    BY <1>2 DEF Recorded, MadeBy
  <1>4. clock \in Nat
    BY DEF RegisterInv
  <1>5. turns!Requests # {} => turns!Newest(turns!Requests) \in OnDisk
    BY <1>1, <1>3, <1>4, NewestIsOne
  <1>6. turns!Prompts # {} => turns!Newest(turns!Prompts) \in OnDisk
    BY <1>1, <1>3, <1>4, NewestIsOne
  <1>7. turns!LastUsage # turns!None => turns!LastUsage \in OnDisk
    BY <1>5 DEF turns!LastUsage
  <1>8. turns!Pending # turns!None => turns!Pending \in OnDisk
    BY <1>6 DEF turns!Pending
  <1>9. turns!Requests = {} => turns!LastUsage = turns!None
    BY DEF turns!LastUsage
  <1> QED
    BY <1>2, <1>7, <1>8, <1>9

-----------------------------------------------------------------------------
(* What a step does to the clock and the row: a later event, an end, or a  *)
(* registration in the second it is.                                       *)
Passes ==
  /\ clock' \in Nat /\ clock <= clock'
  /\ \/ session'.inc = session.inc /\ session'.started = session.started
     \/ session'.inc = session.inc + 1 /\ session'.started = turns!Second(clock')

LEMMA MadeStays ==
  ASSUME RegisterInv, Passes, NEW r \in Recorded, MadeBy(r) PROVE MadeBy(r)'
  <1>1. r.at \in Nat /\ r.inc \in Nat /\ clock \in Nat /\ clock' \in Nat /\ session.inc \in Nat
    BY DEF Recorded, RegisterInv, Passes
  <1>2. r.at <= clock' /\ turns!Second(r.at) <= turns!Second(clock')
    BY <1>1, Seconds DEF MadeBy, Passes
  <1> QED
    BY <1>1, <1>2 DEF MadeBy, Passes

LEMMA ReadStays ==
  ASSUME RegisterInv, Passes, NEW k, ReadBy(k) PROVE ReadBy(k)'
  <1>1. k.usage # turns!None => MadeBy(k.usage)'
    BY MadeStays DEF ReadBy, TurnHook
  <1>2. k.fence # turns!None => MadeBy(k.fence)'
    BY MadeStays DEF ReadBy, TurnHook
  <1>3. k.inc \in Nat /\ session.inc \in Nat /\ k.inc <= session.inc
    BY DEF ReadBy, TurnHook, RegisterInv
  <1>4. k.inc <= session'.inc /\ (k.inc = session'.inc => k.inc = session.inc /\ session'.started = session.started)
    BY <1>3 DEF Passes
  <1> QED
    BY <1>1, <1>2, <1>4 DEF ReadBy

LEMMA OwnedStays ==
  ASSUME RegisterInv, Passes, NEW row, row.inc \in Nat, Owned(row) PROVE Owned(row)'
  <1>1. session.inc \in Nat
    BY DEF RegisterInv
  <1>2. row.inc <= session'.inc /\ (row.inc = session'.inc => row.inc = session.inc /\ session'.started = session.started)
    BY <1>1 DEF Passes, Owned
  <1> QED
    BY <1>2 DEF Owned, turns!IsOf, turns!InItsSecond

(* No reading of a hook, no row and no record on disk is lost on the way.  *)
LEMMA TurnHooksStay == ASSUME RegisterInv, Passes, TurnHooksInv, hooks' = hooks PROVE TurnHooksInv'
  <1>1. \A h \in Hook : hooks[h] = NoHook \/ ReadBy(hooks[h])'
    BY ReadStays DEF TurnHooksInv
  <1> QED
    BY <1>1 DEF TurnHooksInv

LEMMA RowsStay ==
  ASSUME RegisterInv, Passes, IdleInv, BaseInv, ContextInv
  PROVE  /\ idle' = idle => IdleInv'
         /\ base' = base => BaseInv'
         /\ context' = context => ContextInv'
  <1>1. ASSUME idle' = idle PROVE IdleInv'
    BY <1>1, OwnedStays DEF IdleInv, Mark
  <1>2. ASSUME base' = base PROVE BaseInv'
    BY <1>2, OwnedStays DEF BaseInv, Commit
  <1>3. ASSUME context' = context PROVE ContextInv'
    <2>1. ASSUME context # turns!None PROVE context.inc \in Nat /\ context.inc <= session'.inc
      BY <2>1 DEF ContextInv, Footprint, Passes, RegisterInv
    <2>2. ASSUME context # turns!None, context.by # "beat" PROVE Owned(context)'
      BY <1>3, <2>1, <2>2, OwnedStays DEF ContextInv
    <2>3. ASSUME context # turns!None PROVE MadeBy(context.of)'
      <3>1. context.of \in Recorded /\ MadeBy(context.of)
        BY <2>3 DEF ContextInv, Footprint
      <3> QED
        BY <1>3, <3>1, MadeStays DEF MadeBy
    <2> QED
      BY <1>3, <2>1, <2>2, <2>3 DEF ContextInv
  <1> QED
    BY <1>1, <1>2, <1>3

LEMMA DiskStays ==
  ASSUME RegisterInv, Passes, DiskInv
  PROVE  /\ transcript' = transcript /\ turn' = turn => DiskInv'
         /\ \A r \in OnDisk : r \in Recorded /\ MadeBy(r)'
  <1>1. \A r \in OnDisk : r \in Recorded /\ MadeBy(r)'
    BY MadeStays DEF DiskInv, OnDisk
  <1>2. ASSUME transcript' = transcript, turn' = turn PROVE DiskInv'
    <2>1. turn.reply # turns!None => turn.reply \in Recorded /\ MadeBy(turn.reply)
      BY DEF DiskInv
    <2>2. turn'.reply # turns!None => MadeBy(turn.reply)'
      BY <1>2, <2>1, MadeStays
    <2> QED
      BY <1>1, <1>2, <2>2 DEF DiskInv, OnDisk
  <1> QED
    BY <1>1, <1>2


LEMMA Written ==
  ASSUME RegisterInv, Passes, DiskInv, NEW added \in Seq(Recorded), \A i \in DOMAIN added : MadeBy(added[i])',
         transcript' = transcript \o added,
         turn' \in [prompt : Nat, at : {"rest", "working"}, reply : {turns!None} \cup Recorded],
         turn'.reply # turns!None => MadeBy(turn.reply)'
  PROVE  DiskInv'
  <1>1. transcript \in Seq(Recorded)
    BY DEF DiskInv
  <1>2. transcript' \in Seq(Recorded)
    BY <1>1
  <1>3. \A i \in DOMAIN transcript' : transcript'[i] \in {transcript[j] : j \in DOMAIN transcript} \cup {added[j] : j \in DOMAIN added}
    <2>1. Len(transcript') = Len(transcript) + Len(added)
      BY <1>1
    <2> SUFFICES ASSUME NEW i \in 1..Len(transcript) + Len(added)
                 PROVE  transcript'[i] \in {transcript[j] : j \in DOMAIN transcript} \cup {added[j] : j \in DOMAIN added}
      BY <1>2, <2>1
    <2>2. CASE i <= Len(transcript)
      BY <1>1, <2>2
    <2>3. CASE i > Len(transcript)
      <3>1. transcript'[i] = added[i - Len(transcript)] /\ i - Len(transcript) \in DOMAIN added
        BY <1>1, <2>3
      <3> QED
        BY <3>1
    <2> QED
      BY <1>1, <2>2, <2>3
  <1>4. OnDisk' \subseteq OnDisk \cup {added[j] : j \in DOMAIN added}
    BY <1>3 DEF OnDisk
  <1>5. \A r \in OnDisk' : MadeBy(r)'
    BY <1>4, DiskStays
  <1> QED
    BY <1>2, <1>5 DEF DiskInv

LEMMA Launched ==
  ASSUME RegisterInv, Passes, TurnHooksInv, NEW h \in Hook, NEW k, turns!Launch(h, k), ReadBy(k)'
  PROVE  TurnHooksInv'
  <1>1. \A j : ReadBy(j) => ReadBy(j)'
    BY ReadStays
  <1>2. ASSUME NEW g \in Hook PROVE hooks'[g] = NoHook \/ ReadBy(hooks[g])'
    <2>1. PICK j : j = hooks'[g]
      OBVIOUS
    <2>2. j = NoHook \/ ReadBy(j) \/ j = k
      BY <2>1 DEF TurnHooksInv, turns!Launch
    <2>3. j = NoHook \/ ReadBy(j)'
      BY <1>1, <2>2
    <2> QED
      BY <2>1, <2>3
  <1> QED
    BY <1>2 DEF TurnHooksInv, turns!Launch

(* A hook starts with nothing read. *)
LEMMA StartsClean ==
  ASSUME NEW at \in {"busy", "beat", "stop"}, NEW p \in Nat, session' \in [live : BOOLEAN, inc : Nat, started : Nat],
         NEW k, k = turns!Start(at, p)
  PROVE  ReadBy(k)'
  <1>1. k \in TurnHook
    BY DEF turns!Start, TurnHook, TurnPlace
  <1>2. k.at = at /\ k.inc = 0 /\ k.usage = turns!None /\ k.fence = turns!None
    BY DEF turns!Start
  <1>3. k.inc <= session'.inc
    BY <1>2
  <1>4. k.at \notin {"stop context", "stop base", "busy read", "busy context", "beat context"}
    BY <1>2
  <1> QED
    BY <1>1, <1>2, <1>3, <1>4, Zenon DEF ReadBy

(* An event of the harness in the registration that is. *)
LEMMA EventPasses ==
  ASSUME RegisterInv, turns!Tick, session' = session
  PROVE  /\ Passes /\ RegisterInv'
         /\ \A r : r.at \in {clock, clock'} /\ r.inc = session.inc => MadeBy(r)'
  <1>1. clock \in Nat /\ clock' = clock + 1 /\ session.inc \in Nat /\ session.started \in Nat
    BY DEF RegisterInv, turns!Tick
  <1>2. Passes /\ RegisterInv'
    BY <1>1 DEF Passes, RegisterInv
  <1>3. \A r : r.at \in {clock, clock'} /\ r.inc = session.inc => MadeBy(r)'
    BY <1>1 DEF MadeBy
  <1> QED
    BY <1>2, <1>3

LEMMA TurnsOpen == ASSUME TurnsInv, NEW h \in Hook, turns!OpenTurn(h) PROVE TurnsInv'
  <1>1. turns!Tick /\ UNCHANGED <<session, idle, context, base>> /\ turn.reply = turns!None
    BY DEF turns!OpenTurn, turns!ledger
  <1>2. Passes /\ RegisterInv' /\ \A r : r.at \in {clock, clock'} /\ r.inc = session.inc => MadeBy(r)'
    BY <1>1, EventPasses DEF TurnsInv
  <1>3. /\ turn.prompt + 1 \in Nat /\ clock' \in Nat /\ session.inc \in Nat
        /\ turn' = [prompt |-> turn.prompt + 1, at |-> "working", reply |-> turns!None]
    BY <1>2 DEF turns!OpenTurn, TurnsInv, DiskInv, RegisterInv, Passes
  <1>4. DiskInv'
    <2>1. PICK r : r = turns!UserRecord(turn.prompt + 1, clock')
      OBVIOUS
    <2>2. r \in Recorded /\ r.at = clock' /\ r.inc = session.inc
      BY <1>3, <2>1 DEF turns!UserRecord, Recorded
    <2>3. MadeBy(r)'
      BY <1>2, <2>2
    <2>4. transcript' = transcript \o <<r>>
      BY <2>1, <2>2 DEF turns!OpenTurn, TurnsInv, DiskInv
    <2>5. PICK added : added = <<r>>
      OBVIOUS
    <2>6. added \in Seq(Recorded) /\ \A i \in DOMAIN added : added[i] = r
      BY <2>2, <2>5
    <2>7. \A i \in DOMAIN added : MadeBy(added[i])'
      BY <2>3, <2>6 DEF MadeBy
    <2>8. turn' \in [prompt : Nat, at : {"rest", "working"}, reply : {turns!None} \cup Recorded]
      BY <1>3
    <2>9. turn'.reply = turns!None
      BY <1>3
    <2> QED
      BY <1>2, <2>4, <2>5, <2>6, <2>7, <2>8, <2>9, Written DEF TurnsInv
  <1>5. TurnHooksInv'
    <2>1. PICK k : k = turns!Start("busy", turn.prompt + 1)
      OBVIOUS
    <2>2. turns!Launch(h, k)
      BY <2>1 DEF turns!OpenTurn
    <2>3. ReadBy(k)'
      BY <1>1, <1>3, <2>1, StartsClean DEF TurnsInv, RegisterInv
    <2> QED
      BY <1>2, <2>2, <2>3, Launched DEF TurnsInv
  <1> QED
    BY <1>1, <1>2, <1>4, <1>5, RowsStay DEF TurnsInv


LEMMA TurnsCall == ASSUME TurnsInv, NEW h \in Hook, turns!CallTool(h) PROVE TurnsInv'
  <1>1. turns!Tick /\ UNCHANGED <<turn, session, idle, context, base>>
    BY DEF turns!CallTool
  <1>2. Passes /\ RegisterInv' /\ \A r : r.at \in {clock, clock'} /\ r.inc = session.inc => MadeBy(r)'
    BY <1>1, EventPasses DEF TurnsInv
  <1>3. turn.prompt \in Nat /\ clock \in Nat /\ clock' \in Nat /\ session.inc \in Nat
    BY <1>2 DEF TurnsInv, DiskInv, RegisterInv, Passes
  <1>4. DiskInv'
    <2>1. PICK n \in Size :
            transcript' = transcript \o <<turns!UsageRecord(turn.prompt, clock, n), turns!UserRecord(turn.prompt, clock')>>
      BY DEF turns!CallTool
    <2>2. PICK q, r : q = turns!UsageRecord(turn.prompt, clock, n) /\ r = turns!UserRecord(turn.prompt, clock')
      OBVIOUS
    <2>3. q \in Recorded /\ q.at = clock /\ q.inc = session.inc
      BY <1>3, <2>2, SizesAreNat DEF turns!UsageRecord, Recorded
    <2>4. r \in Recorded /\ r.at = clock' /\ r.inc = session.inc
      BY <1>3, <2>2 DEF turns!UserRecord, Recorded
    <2>5. MadeBy(q)' /\ MadeBy(r)'
      BY <1>2, <2>3, <2>4
    <2>6. PICK added : added = <<q, r>>
      OBVIOUS
    <2>7. added \in Seq(Recorded) /\ \A i \in DOMAIN added : added[i] \in {q, r}
      BY <2>3, <2>4, <2>6
    <2>8. \A i \in DOMAIN added : MadeBy(added[i])'
      BY <2>5, <2>7 DEF MadeBy
    <2>9. turn' \in [prompt : Nat, at : {"rest", "working"}, reply : {turns!None} \cup Recorded]
      BY <1>1 DEF TurnsInv, DiskInv
    <2>10. turn'.reply # turns!None => MadeBy(turn.reply)'
      <3>1. turn.reply # turns!None => turn.reply \in Recorded /\ MadeBy(turn.reply)
        BY DEF TurnsInv, DiskInv
      <3> QED
        BY <1>1, <1>2, <3>1, MadeStays DEF TurnsInv
    <2> QED
      BY <1>2, <2>1, <2>2, <2>6, <2>7, <2>8, <2>9, <2>10, Written DEF TurnsInv
  <1>5. TurnHooksInv'
    <2>1. PICK k : k = turns!Start("beat", turn.prompt)
      OBVIOUS
    <2>2. turns!Launch(h, k)
      BY <2>1 DEF turns!CallTool
    <2>3. ReadBy(k)'
      BY <1>1, <1>3, <2>1, StartsClean DEF TurnsInv, RegisterInv
    <2> QED
      BY <1>2, <2>2, <2>3, Launched DEF TurnsInv
  <1> QED
    BY <1>1, <1>2, <1>4, <1>5, RowsStay DEF TurnsInv

LEMMA TurnsEnd == ASSUME TurnsInv, NEW h \in Hook, turns!EndTurn(h) PROVE TurnsInv'
  <1>1. turns!Tick /\ UNCHANGED <<transcript, session, idle, context, base>>
    BY DEF turns!EndTurn, turns!ledger
  <1>2. Passes /\ RegisterInv' /\ \A r : r.at \in {clock, clock'} /\ r.inc = session.inc => MadeBy(r)'
    BY <1>1, EventPasses DEF TurnsInv
  <1>3. turn.prompt \in Nat /\ clock' \in Nat /\ session.inc \in Nat
    BY <1>2 DEF TurnsInv, DiskInv, RegisterInv, Passes
  <1>4. DiskInv'
    <2>1. PICK n \in Size : turn' = [turn EXCEPT !.at = "rest", !.reply = turns!UsageRecord(turn.prompt, clock', n)]
      BY DEF turns!EndTurn
    <2>2. PICK r : r = turns!UsageRecord(turn.prompt, clock', n)
      OBVIOUS
    <2>3. r \in Recorded /\ r.at = clock' /\ r.inc = session.inc
      BY <1>3, <2>2, SizesAreNat DEF turns!UsageRecord, Recorded
    <2>4. MadeBy(r)'
      BY <1>2, <2>3
    <2>5. /\ turn' \in [prompt : Nat, at : {"rest", "working"}, reply : {turns!None} \cup Recorded]
          /\ turn'.reply = r
      BY <2>1, <2>2, <2>3 DEF TurnsInv, DiskInv
    <2>6. MadeBy(turn.reply)'
      BY <2>4, <2>5 DEF MadeBy
    <2>7. transcript' = transcript \o << >> /\ << >> \in Seq(Recorded) /\ DOMAIN << >> = {}
      BY <1>1 DEF TurnsInv, DiskInv
    <2>8. \A i \in DOMAIN << >> : MadeBy(<< >>[i])'
      BY <2>7
    <2> QED
      BY <1>2, <2>5, <2>6, <2>7, <2>8, Written DEF TurnsInv
  <1>5. TurnHooksInv'
    <2>1. PICK k : k = turns!Start("stop", turn.prompt)
      OBVIOUS
    <2>2. turns!Launch(h, k)
      BY <2>1 DEF turns!EndTurn
    <2>3. ReadBy(k)'
      BY <1>1, <1>3, <2>1, StartsClean DEF TurnsInv, RegisterInv
    <2> QED
      BY <1>2, <2>2, <2>3, Launched DEF TurnsInv
  <1> QED
    BY <1>1, <1>2, <1>4, <1>5, RowsStay DEF TurnsInv

(* Nothing but the register moves, or not even that. *)
LEMMA TurnsWrite == ASSUME TurnsInv, turns!WriteReply PROVE TurnsInv'
  <1>1. UNCHANGED <<clock, session, hooks, idle, context, base>>
    BY DEF turns!WriteReply, turns!ledger
  <1>2. Passes /\ RegisterInv'
    BY <1>1 DEF TurnsInv, RegisterInv, Passes
  <1>3. DiskInv'
    <2>1. PICK r : r = turn.reply
      OBVIOUS
    <2>2. r \in Recorded /\ MadeBy(r)
      BY <2>1 DEF turns!WriteReply, TurnsInv, DiskInv
    <2>3. MadeBy(r)'
      BY <1>2, <2>2, MadeStays DEF TurnsInv
    <2>4. PICK added : added = <<r>>
      OBVIOUS
    <2>5. added \in Seq(Recorded) /\ \A i \in DOMAIN added : added[i] = r
      BY <2>2, <2>4
    <2>6. \A i \in DOMAIN added : MadeBy(added[i])'
      BY <2>3, <2>5 DEF MadeBy
    <2>7. transcript' = transcript \o added
      BY <2>1, <2>2, <2>4 DEF turns!WriteReply, turns!Flushed, TurnsInv, DiskInv
    <2>8. turn' \in [prompt : Nat, at : {"rest", "working"}, reply : {turns!None} \cup Recorded] /\ turn'.reply = turns!None
      BY DEF turns!WriteReply, TurnsInv, DiskInv
    <2> QED
      BY <1>2, <2>5, <2>6, <2>7, <2>8, Written DEF TurnsInv
  <1> QED
    BY <1>1, <1>2, <1>3, RowsStay, TurnHooksStay DEF TurnsInv

LEMMA TurnsLife == ASSUME TurnsInv, turns!Bye \/ turns!Hello PROVE TurnsInv'
  <1>1. UNCHANGED <<turn, transcript, hooks, idle, context, base>>
    BY DEF turns!Bye, turns!Hello, turns!disk
  <1>2. Passes /\ RegisterInv'
    <2>1. CASE turns!Bye
      <3>1. clock' = clock /\ session' = [session EXCEPT !.live = FALSE]
        BY <2>1 DEF turns!Bye
      <3>2. /\ session' \in [live : BOOLEAN, inc : Nat, started : Nat]
            /\ session'.inc = session.inc /\ session'.started = session.started
        BY <3>1 DEF TurnsInv, RegisterInv
      <3> QED
        BY <3>1, <3>2 DEF TurnsInv, RegisterInv, Passes
    <2>2. CASE turns!Hello
      <3>1. clock \in Nat /\ clock' = clock + 1 /\ session.inc \in Nat
        BY <2>2 DEF turns!Hello, turns!Tick, TurnsInv, RegisterInv
      <3>2. session' = [live |-> TRUE, inc |-> session.inc + 1, started |-> turns!Second(clock')]
        BY <2>2 DEF turns!Hello
      <3>3. clock' \in Nat /\ turns!Second(clock') \in Nat /\ turns!Second(clock') <= clock' /\ turns!Second(clock') % 2 = 0
        BY <3>1, Seconds
      <3> QED
        BY <3>1, <3>2, <3>3 DEF RegisterInv, Passes
    <2> QED
      BY <2>1, <2>2
  <1> QED
    BY <1>1, <1>2, RowsStay, TurnHooksStay, DiskStays DEF TurnsInv


-----------------------------------------------------------------------------
(* A step of a hook: the register and the disk stay, and the hook goes on  *)
(* to a place that asks nothing new of what it has read.                   *)
Standing == UNCHANGED <<clock, session, turn, transcript>>

LEMMA Stands == ASSUME TurnsInv, Standing PROVE Passes /\ RegisterInv' /\ DiskInv'
  <1>1. Passes /\ RegisterInv'
    BY DEF Standing, TurnsInv, RegisterInv, Passes
  <1> QED
    BY <1>1, DiskStays DEF Standing, TurnsInv

LEMMA Reads ==
  ASSUME TurnsInv, Standing, NEW h \in Hook, NEW k, k = NoHook \/ ReadBy(k), hooks' = [hooks EXCEPT ![h] = k]
  PROVE  TurnHooksInv'
  <1>1. \A j : ReadBy(j) => ReadBy(j)'
    BY Stands, ReadStays DEF TurnsInv
  <1>2. ASSUME NEW g \in Hook PROVE hooks'[g] = NoHook \/ ReadBy(hooks[g])'
    <2>1. PICK j : j = hooks'[g]
      OBVIOUS
    <2>2. j = NoHook \/ ReadBy(j)
      BY <2>1 DEF TurnsInv, TurnHooksInv
    <2>3. j = NoHook \/ ReadBy(j)'
      BY <1>1, <2>2
    <2> QED
      BY <2>1, <2>3
  <1> QED
    BY <1>2 DEF TurnsInv, TurnHooksInv

LEMMA Leaves ==
  ASSUME TurnsInv, Standing, NEW h \in Hook, turns!Done(h) PROVE TurnHooksInv'
  BY Reads DEF turns!Done, NoHook

LEMMA Goes ==
  ASSUME TurnsInv, Standing, NEW h \in Hook, hooks[h] # NoHook, NEW to \in TurnPlace, turns!Goto(h, to),
         to \notin {"stop identity", "stop context", "busy read", "busy context", "beat context"},
         to = "stop base" => hooks[h].at = "stop context"
  PROVE  TurnHooksInv'
  <1>1. PICK j : j = hooks[h]
    OBVIOUS
  <1>2. ReadBy(j)
    BY <1>1 DEF TurnsInv, TurnHooksInv
  <1>3. PICK k : k = [j EXCEPT !.at = to]
    OBVIOUS
  <1>4. /\ k \in TurnHook /\ k.at = to /\ k.inc = j.inc /\ k.usage = j.usage /\ k.fence = j.fence
        /\ k.landed = j.landed /\ k.started = j.started
    BY <1>2, <1>3 DEF ReadBy, TurnHook
  <1>5. ReadBy(k)
    BY <1>1, <1>2, <1>4 DEF ReadBy
  <1>6. hooks' = [hooks EXCEPT ![h] = k]
    BY <1>1, <1>3 DEF turns!Goto
  <1> QED
    BY <1>5, <1>6, Reads

(* A row of what is no older than the registration. *)
LEMMA OwnsSecond ==
  ASSUME RegisterInv, NEW r \in Recorded, MadeBy(r), NEW row, row.of = r, row.inc = session.inc, r.at >= session.started
  PROVE  Owned(row)
  <1>1. r.inc \in Nat /\ r.at \in Nat /\ session.inc \in Nat /\ session.started \in Nat
    BY DEF Recorded, RegisterInv
  <1>2. turns!Second(session.started) = session.started /\ turns!Second(session.started) <= turns!Second(r.at)
    BY <1>1, Seconds DEF RegisterInv
  <1>3. turns!Second(r.at) \in Nat
    BY <1>1, Seconds
  <1>4. r.inc = session.inc \/ turns!Second(r.at) = session.started
    BY <1>1, <1>2, <1>3 DEF MadeBy
  <1> QED
    BY <1>1, <1>4 DEF Owned, turns!IsOf, turns!InItsSecond

LEMMA ContextRecorded ==
  ASSUME TurnsInv, Standing, NEW r \in Recorded, MadeBy(r), NEW inc \in Nat, NEW by \in {"stop", "busy", "beat"},
         by # "beat" => (inc = session.inc => r.at >= session.started), turns!RecordContext(inc, r, by)
  PROVE  ContextInv'
  <1>1. CASE context' = context
    BY <1>1, Stands, RowsStay DEF TurnsInv
  <1>2. ASSUME session.inc = inc, context' = turns!ContextSample(inc, r, by) PROVE ContextInv'
    <2>1. turns!ToldAfter(inc, r) \in Int /\ (r.size < HandoffAt => turns!ToldAfter(inc, r) = -1)
      BY DEF turns!ToldAfter, TurnsInv, ContextInv, Footprint
    <2>2. PICK row : row = turns!ContextSample(inc, r, by)
      OBVIOUS
    <2>3. row \in Footprint /\ row.inc = inc /\ row.of = r /\ row.by = by /\ row.step = turns!ToldAfter(inc, r)
      BY <2>1, <2>2 DEF turns!ContextSample, Footprint
    <2>4. by # "beat" => Owned(row)
      BY <1>2, <2>3, OwnsSecond DEF TurnsInv
    <2>5. row.inc \in Nat /\ (Owned(row) => Owned(row)')
      BY <2>3, Stands, OwnedStays DEF TurnsInv
    <2>6. row.inc <= session'.inc
      BY <1>2, <2>3 DEF Standing, TurnsInv, RegisterInv
    <2>7. MadeBy(r)'
      BY Stands, MadeStays DEF TurnsInv
    <2>8. MadeBy(context.of)'
      BY <1>2, <2>2, <2>3, <2>7 DEF MadeBy
    <2> QED
      BY <1>2, <2>1, <2>2, <2>3, <2>4, <2>5, <2>6, <2>8 DEF ContextInv
  <1> QED
    BY <1>1, <1>2 DEF turns!RecordContext


(* What a hook at work has read. *)
LEMMA AtWork ==
  ASSUME TurnsInv, NEW h \in Hook, hooks[h].at # "none"
  PROVE  hooks[h] # NoHook /\ ReadBy(hooks[h]) /\ hooks[h] \in TurnHook
  <1>1. hooks[h] # NoHook
    BY DEF NoHook
  <1>2. ReadBy(hooks[h])
    BY <1>1 DEF TurnsInv, TurnHooksInv
  <1> QED
    BY <1>1, <1>2 DEF ReadBy

LEMMA TurnsStopRead == ASSUME TurnsInv, NEW h \in Hook, turns!StopRead(h) PROVE TurnsInv'
  <1>1. Standing /\ UNCHANGED <<idle, context, base>> /\ hooks[h].at = "stop"
    BY DEF turns!StopRead, turns!disk, turns!ledger, Standing
  <1>2. PICK j : j = hooks[h]
    OBVIOUS
  <1>3. hooks[h] # NoHook /\ ReadBy(j) /\ j \in TurnHook
    BY <1>1, <1>2, AtWork
  <1>4. ASSUME turns!Done(h) PROVE TurnHooksInv'
    BY <1>1, <1>4, Leaves
  <1>5. ASSUME turns!Goto(h, "stop mark") PROVE TurnHooksInv'
    BY <1>1, <1>3, <1>5, Goes DEF TurnPlace
  <1>6. ASSUME hooks' = [hooks EXCEPT ![h] = [turns!TurnRead(@) EXCEPT !.at = "stop identity"]] PROVE TurnHooksInv'
    <2>1. PICK k : k = [turns!TurnRead(j) EXCEPT !.at = "stop identity"]
      OBVIOUS
    <2>2. PICK u, f : u = turns!LastUsage /\ f = IF turns!Pending # turns!None THEN turns!Pending ELSE turns!LastUsage
      OBVIOUS
    <2>3. /\ u \in {turns!None} \cup Recorded /\ (u # turns!None => MadeBy(u))
          /\ f \in {turns!None} \cup Recorded /\ (f # turns!None => MadeBy(f))
      BY <2>2, WhatIsRead DEF TurnsInv
    <2>4. /\ k \in TurnHook /\ k.at = "stop identity" /\ k.inc = j.inc
          /\ k.usage = u /\ k.fence = f /\ (k.landed => u = f)
      BY <1>3, <2>1, <2>2, <2>3 DEF turns!TurnRead, TurnHook, TurnPlace
    <2>5. ReadBy(k)
      BY <1>3, <2>3, <2>4 DEF ReadBy
    <2>6. hooks' = [hooks EXCEPT ![h] = k]
      BY <1>2, <1>6, <2>1
    <2> QED
      BY <1>1, <2>5, <2>6, Reads
  <1>7. TurnHooksInv'
    BY <1>4, <1>5, <1>6 DEF turns!StopRead
  <1> QED
    BY <1>1, <1>7, Stands, RowsStay DEF TurnsInv


LEMMA TurnsStopIdentity == ASSUME TurnsInv, NEW h \in Hook, turns!StopIdentity(h) PROVE TurnsInv'
  <1>1. Standing /\ UNCHANGED <<idle, context, base>> /\ hooks[h].at = "stop identity"
    BY DEF turns!StopIdentity, turns!disk, turns!ledger, Standing
  <1>2. PICK j : j = hooks[h]
    OBVIOUS
  <1>3. hooks[h] # NoHook /\ ReadBy(j) /\ j \in TurnHook
    BY <1>1, <1>2, AtWork
  <1>4. ASSUME turns!Goto(h, "stop mark") PROVE TurnHooksInv'
    BY <1>1, <1>3, <1>4, Goes DEF TurnPlace
  <1>5. ASSUME j.fence # turns!None, j.fence.at >= session.started, NEW at \in {"stop context", "stop base"},
               at = "stop context" => j.landed,
               hooks' = [hooks EXCEPT ![h].inc = session.inc, ![h].at = at]
        PROVE  TurnHooksInv'
    <2>1. PICK k : k = [j EXCEPT !.inc = session.inc, !.at = at]
      OBVIOUS
    <2>2. session.inc \in Nat
      BY DEF TurnsInv, RegisterInv
    <2>3. /\ k \in TurnHook /\ k.at = at /\ k.inc = session.inc
          /\ k.usage = j.usage /\ k.fence = j.fence /\ k.landed = j.landed
      BY <1>3, <2>1, <2>2 DEF TurnHook, TurnPlace
    <2>4. j.landed => j.usage = j.fence
      BY <1>1, <1>2, <1>3 DEF ReadBy
    <2>5. ReadBy(k)
      <3>1. (k.usage # turns!None => MadeBy(k.usage)) /\ (k.fence # turns!None => MadeBy(k.fence))
        BY <1>3, <2>3 DEF ReadBy
      <3>2. k.inc <= session.inc
        BY <2>2, <2>3, NotOver, Zenon
      <3>5. k.fence # turns!None /\ k.fence.at >= session.started
        BY <1>5, <2>3
      <3>3. (k.landed => k.usage = k.fence) /\ (k.at = "stop context" => k.landed)
        BY <1>5, <2>3, <2>4
      <3>4. k.at \notin {"busy read", "busy context", "beat context"}
        BY <2>3
      <3> QED
        BY <2>3, <3>1, <3>2, <3>3, <3>4, <3>5, Zenon DEF ReadBy
    <2>6. hooks' = [hooks EXCEPT ![h] = k]
      BY <1>2, <1>5, <2>1 DEF TurnsInv, TurnHooksInv
    <2> QED
      BY <1>1, <2>5, <2>6, Reads
  <1>6. TurnHooksInv'
    BY <1>1, <1>2, <1>4, <1>5 DEF turns!StopIdentity
  <1> QED
    BY <1>1, <1>6, Stands, RowsStay DEF TurnsInv

LEMMA TurnsStopContext == ASSUME TurnsInv, NEW h \in Hook, turns!StopContext(h) PROVE TurnsInv'
  <1>1. /\ Standing /\ UNCHANGED <<idle, base>> /\ hooks[h].at = "stop context" /\ turns!Goto(h, "stop base")
        /\ turns!RecordContext(hooks[h].inc, hooks[h].usage, "stop")
    BY DEF turns!StopContext, turns!disk, Standing
  <1>2. hooks[h] # NoHook /\ ReadBy(hooks[h]) /\ hooks[h] \in TurnHook
    BY <1>1, AtWork
  <1>3. TurnHooksInv'
    BY <1>1, <1>2, Goes DEF TurnPlace
  <1>4. PICK r : r = hooks[h].usage
    OBVIOUS
  <1>5. r = hooks[h].fence /\ r # turns!None /\ (hooks[h].inc = session.inc => r.at >= session.started)
    BY <1>1, <1>2, <1>4 DEF ReadBy
  <1>6. r \in Recorded /\ MadeBy(r) /\ hooks[h].inc \in Nat
    BY <1>2, <1>4, <1>5 DEF ReadBy, TurnHook
  <1>7. ContextInv'
    BY <1>1, <1>4, <1>5, <1>6, ContextRecorded
  <1> QED
    BY <1>1, <1>3, <1>7, Stands, RowsStay DEF TurnsInv

LEMMA TurnsStopBase == ASSUME TurnsInv, NEW h \in Hook, turns!StopBase(h) PROVE TurnsInv'
  <1>1. /\ Standing /\ UNCHANGED <<idle, context>> /\ hooks[h].at = "stop base" /\ turns!Goto(h, "stop mark")
        /\ turns!RecordBase(hooks[h].inc, IF hooks[h].landed THEN hooks[h].usage.at ELSE clock, hooks[h].fence)
    BY DEF turns!StopBase, turns!disk, Standing
  <1>2. hooks[h] # NoHook /\ ReadBy(hooks[h]) /\ hooks[h] \in TurnHook
    BY <1>1, AtWork
  <1>3. TurnHooksInv'
    BY <1>1, <1>2, Goes DEF TurnPlace
  <1>4. PICK r : r = hooks[h].fence
    OBVIOUS
  <1>5. /\ r # turns!None /\ (hooks[h].inc = session.inc => r.at >= session.started)
        /\ hooks[h].landed => hooks[h].usage = r
    BY <1>1, <1>2, <1>4 DEF ReadBy
  <1>6. r \in Recorded /\ MadeBy(r) /\ hooks[h].inc \in Nat
    BY <1>2, <1>4, <1>5 DEF ReadBy, TurnHook
  <1>7. PICK at : at = IF hooks[h].landed THEN hooks[h].usage.at ELSE clock
    OBVIOUS
  <1>8. at \in Nat
    BY <1>5, <1>6, <1>7 DEF Recorded, TurnsInv, RegisterInv
  <1>9. ASSUME session.inc = hooks[h].inc, base' = [kind |-> "base", inc |-> hooks[h].inc, at |-> at, of |-> r]
        PROVE  BaseInv'
    <2>1. PICK row : row = [kind |-> "base", inc |-> hooks[h].inc, at |-> at, of |-> r]
      OBVIOUS
    <2>2. row \in Commit /\ row.inc = session.inc /\ row.of = r /\ row.inc \in Nat
      BY <1>6, <1>8, <1>9, <2>1 DEF Commit
    <2>3. Owned(row)
      BY <1>5, <1>6, <1>9, <2>2, OwnsSecond DEF TurnsInv
    <2>4. Owned(row)'
      BY <1>1, <2>2, <2>3, Stands, OwnedStays DEF TurnsInv
    <2> QED
      BY <1>9, <2>1, <2>2, <2>4 DEF BaseInv
  <1>10. BaseInv'
    BY <1>1, <1>4, <1>7, <1>9, Stands, RowsStay DEF turns!RecordBase, TurnsInv
  <1> QED
    BY <1>1, <1>3, <1>10, Stands, RowsStay DEF TurnsInv

LEMMA TurnsStopMark == ASSUME TurnsInv, NEW h \in Hook, turns!StopMark(h) PROVE TurnsInv'
  <1>1. Standing /\ UNCHANGED <<context, base>> /\ hooks[h].at = "stop mark" /\ turns!Done(h)
    BY DEF turns!StopMark, turns!disk, Standing
  <1>2. ReadBy(hooks[h]) /\ hooks[h] \in TurnHook
    BY <1>1, AtWork
  <1>3. TurnHooksInv'
    BY <1>1, Leaves
  <1>4. ASSUME turns!IdleFence(hooks[h].fence), idle' = [kind |-> "idle", inc |-> session.inc, of |-> hooks[h].fence]
        PROVE  IdleInv'
    <2>1. PICK r, row : r = hooks[h].fence /\ row = [kind |-> "idle", inc |-> session.inc, of |-> r]
      OBVIOUS
    <2>2. /\ r # turns!None => r \in Recorded /\ MadeBy(r) /\ r.at >= session.started
          /\ r \in {turns!None} \cup Recorded /\ session.inc \in Nat
      BY <1>2, <1>4, <2>1 DEF ReadBy, TurnHook, turns!IdleFence, TurnsInv, RegisterInv
    <2>3. row \in Mark /\ row.inc = session.inc /\ row.of = r /\ row.inc \in Nat
      BY <2>1, <2>2 DEF Mark
    <2>4. ASSUME r = turns!None PROVE Owned(row)'
      <3>1. Owned(row)
        BY <2>2, <2>3, <2>4 DEF Owned, turns!IsOf
      <3> QED
        BY <1>1, <2>3, <3>1, Stands, OwnedStays DEF TurnsInv
    <2>5. ASSUME r # turns!None PROVE Owned(row)'
      <3>1. Owned(row)
        BY <2>2, <2>3, <2>5, OwnsSecond DEF TurnsInv
      <3> QED
        BY <1>1, <2>3, <3>1, Stands, OwnedStays DEF TurnsInv
    <2> QED
      BY <1>4, <2>1, <2>3, <2>4, <2>5 DEF IdleInv
  <1>5. ASSUME idle' = turns!None PROVE IdleInv'
    BY <1>5 DEF IdleInv
  <1>6. IdleInv'
    BY <1>1, <1>4, <1>5, Stands, RowsStay DEF turns!StopMark, TurnsInv
  <1> QED
    BY <1>1, <1>3, <1>6, Stands, RowsStay DEF TurnsInv


LEMMA TurnsBusy == ASSUME TurnsInv, NEW h \in Hook, turns!BusyClear(h) \/ turns!BusyIdentity(h) \/ turns!BusyRead(h) PROVE TurnsInv'
  <1>1. Standing /\ UNCHANGED <<context, base>> /\ hooks[h].at \in {"busy", "busy identity", "busy read"}
    BY DEF turns!BusyClear, turns!BusyIdentity, turns!BusyRead, turns!disk, turns!ledger, Standing
  <1>2. PICK j : j = hooks[h]
    OBVIOUS
  <1>3. hooks[h] # NoHook /\ ReadBy(j) /\ j \in TurnHook
    BY <1>1, <1>2, AtWork
  <1>4. session.inc \in Nat /\ session.started \in Nat
    BY DEF TurnsInv, RegisterInv
  <1>5. ASSUME turns!Goto(h, "busy identity") \/ turns!Goto(h, "busy observe") PROVE TurnHooksInv'
    BY <1>1, <1>3, <1>5, Goes DEF TurnPlace
  <1>6. ASSUME NEW at \in {"busy read", "busy observe"},
               hooks' = [hooks EXCEPT ![h].at = at, ![h].inc = session.inc, ![h].started = session.started]
        PROVE  TurnHooksInv'
    <2>1. PICK k : k = [j EXCEPT !.at = at, !.inc = session.inc, !.started = session.started]
      OBVIOUS
    <2>2. /\ k \in TurnHook /\ k.at = at /\ k.inc = session.inc /\ k.started = session.started
          /\ k.usage = j.usage /\ k.fence = j.fence
      BY <1>3, <1>4, <2>1 DEF TurnHook, TurnPlace
    <2>3. ReadBy(k)
      <3>1. (k.usage # turns!None => MadeBy(k.usage)) /\ (k.fence # turns!None => MadeBy(k.fence))
        BY <1>3, <2>2 DEF ReadBy
      <3>2. k.inc <= session.inc /\ k.started = session.started
        BY <1>4, <2>2, NotOver, Zenon
      <3>3. k.at \notin {"stop identity", "stop context", "stop base", "busy context", "beat context"}
        BY <2>2
      <3> QED
        BY <2>2, <3>1, <3>2, <3>3, Zenon DEF ReadBy
    <2>4. hooks' = [hooks EXCEPT ![h] = k]
      BY <1>2, <1>6, <2>1 DEF TurnsInv, TurnHooksInv
    <2> QED
      BY <1>1, <2>3, <2>4, Reads
  <1>7. ASSUME hooks[h].at = "busy read", turns!LastUsage # turns!None, turns!LastUsage.at >= hooks[h].started,
               hooks' = [hooks EXCEPT ![h].at = "busy context", ![h].usage = turns!LastUsage]
        PROVE  TurnHooksInv'
    <2>1. PICK u, k : u = turns!LastUsage /\ k = [j EXCEPT !.at = "busy context", !.usage = u]
      OBVIOUS
    <2>2. u \in Recorded /\ MadeBy(u) /\ u # turns!None /\ u.at >= j.started
      BY <1>2, <1>7, <2>1, WhatIsRead DEF TurnsInv
    <2>3. /\ k \in TurnHook /\ k.at = "busy context" /\ k.inc = j.inc /\ k.started = j.started
          /\ k.usage = u /\ k.fence = j.fence
      BY <1>3, <2>1, <2>2 DEF TurnHook, TurnPlace
    <2>4. j.inc = session.inc => j.started = session.started
      BY <1>2, <1>3, <1>7 DEF ReadBy
    <2>5. ReadBy(k)
      BY <1>3, <2>2, <2>3, <2>4 DEF ReadBy
    <2>6. hooks' = [hooks EXCEPT ![h] = k]
      BY <1>2, <1>7, <2>1 DEF TurnsInv, TurnHooksInv
    <2> QED
      BY <1>1, <2>5, <2>6, Reads
  <1>8. TurnHooksInv'
    <2>1. CASE turns!BusyClear(h)
      BY <1>5, <2>1 DEF turns!BusyClear
    <2>2. CASE turns!BusyIdentity(h)
      BY <1>6, <2>2 DEF turns!BusyIdentity
    <2>3. CASE turns!BusyRead(h)
      BY <1>5, <1>7, <2>3 DEF turns!BusyRead
    <2> QED
      BY <2>1, <2>2, <2>3
  <1>9. idle' = idle \/ idle' = turns!None
    BY DEF turns!BusyClear, turns!BusyIdentity, turns!BusyRead, turns!ledger
  <1>10. IdleInv'
    BY <1>1, <1>9, Stands, RowsStay DEF TurnsInv, IdleInv
  <1> QED
    BY <1>1, <1>8, <1>10, Stands, RowsStay DEF TurnsInv

LEMMA TurnsBusyContext == ASSUME TurnsInv, NEW h \in Hook, turns!BusyContext(h) PROVE TurnsInv'
  <1>1. /\ Standing /\ UNCHANGED <<idle, base>> /\ hooks[h].at = "busy context" /\ turns!Goto(h, "busy observe")
        /\ turns!RecordContext(hooks[h].inc, hooks[h].usage, "busy")
    BY DEF turns!BusyContext, turns!disk, Standing
  <1>2. hooks[h] # NoHook /\ ReadBy(hooks[h]) /\ hooks[h] \in TurnHook
    BY <1>1, AtWork
  <1>3. TurnHooksInv'
    BY <1>1, <1>2, Goes DEF TurnPlace
  <1>4. PICK r : r = hooks[h].usage
    OBVIOUS
  <1>5. r # turns!None /\ (hooks[h].inc = session.inc => r.at >= session.started)
    BY <1>1, <1>2, <1>4 DEF ReadBy
  <1>6. r \in Recorded /\ MadeBy(r) /\ hooks[h].inc \in Nat
    BY <1>2, <1>4, <1>5 DEF ReadBy, TurnHook
  <1>7. ContextInv'
    BY <1>1, <1>4, <1>5, <1>6, ContextRecorded
  <1> QED
    BY <1>1, <1>3, <1>7, Stands, RowsStay DEF TurnsInv

(* The step told is of the very size the row holds, and that one is at the *)
(* declared size or over it.                                               *)
LEMMA TurnsTell == ASSUME TurnsInv, NEW h \in Hook, turns!BusyObserve(h) \/ turns!BusyTell(h) PROVE TurnsInv'
  <1>1. Standing /\ UNCHANGED <<idle, base>> /\ hooks[h].at \in {"busy observe", "busy tell"}
    BY DEF turns!BusyObserve, turns!BusyTell, turns!disk, turns!ledger, Standing
  <1>2. PICK j : j = hooks[h]
    OBVIOUS
  <1>3. ReadBy(j) /\ j \in TurnHook
    BY <1>1, <1>2, AtWork
  <1>4. ASSUME turns!BusyObserve(h) PROVE TurnHooksInv' /\ ContextInv'
    <2>1. ContextInv'
      BY <1>1, <1>4, Stands, RowsStay DEF turns!BusyObserve, turns!ledger, TurnsInv
    <2>2. ASSUME context # turns!None, hooks' = [hooks EXCEPT ![h].at = "busy tell", ![h].usage = context.of]
          PROVE  TurnHooksInv'
      <3>1. PICK u, k : u = context.of /\ k = [j EXCEPT !.at = "busy tell", !.usage = u]
        OBVIOUS
      <3>2. u \in Recorded /\ MadeBy(u)
        BY <2>2, <3>1 DEF TurnsInv, ContextInv, Footprint
      <3>3. /\ k \in TurnHook /\ k.at = "busy tell" /\ k.inc = j.inc
            /\ k.usage = u /\ k.fence = j.fence
        BY <1>3, <3>1, <3>2 DEF TurnHook, TurnPlace
      <3>4. ReadBy(k)
        BY <1>3, <3>2, <3>3 DEF ReadBy
      <3>5. hooks' = [hooks EXCEPT ![h] = k]
        BY <1>2, <2>2, <3>1 DEF TurnsInv, TurnHooksInv
      <3> QED
        BY <1>1, <3>4, <3>5, Reads
    <2> QED
      BY <1>1, <1>4, <2>1, <2>2, Leaves DEF turns!BusyObserve
  <1>5. ASSUME turns!BusyTell(h) PROVE TurnHooksInv' /\ ContextInv'
    <2>1. TurnHooksInv'
      BY <1>1, <1>5, Leaves DEF turns!BusyTell
    <2>2. CASE context' = context
      BY <1>1, <2>1, <2>2, Stands, RowsStay DEF TurnsInv
    <2>3. ASSUME turns!ClaimsStep(j.inc, j.usage.size), context' = [context EXCEPT !.step = turns!StepOf(j.usage.size)]
          PROVE  ContextInv'
      <3>1. /\ context # turns!None /\ context \in Footprint /\ context.inc <= session.inc /\ MadeBy(context.of)
            /\ context.by # "beat" => Owned(context)
        BY <2>3 DEF turns!ClaimsStep, TurnsInv, ContextInv
      <3>2. context.of.size = j.usage.size /\ turns!StepOf(j.usage.size) >= 0
        BY <2>3 DEF turns!ClaimsStep
      <3>3. context.of.size \in Nat
        BY <3>1 DEF Footprint, Recorded
      <3>4. turns!StepOf(context.of.size) \in Int /\ (context.of.size < HandoffAt => turns!StepOf(context.of.size) = -1)
        BY <3>3, SizesAreNat, TurnBounds DEF turns!StepOf, turns!HandoffAssumption
      <3>5. PICK row : row = context'
        OBVIOUS
      <3>6. /\ row \in Footprint /\ row.inc = context.inc /\ row.of = context.of /\ row.by = context.by
            /\ ~(row.of.size < HandoffAt)
        BY <2>3, <3>1, <3>2, <3>4, <3>5 DEF Footprint
      <3>7. row.by # "beat" => Owned(row)
        BY <3>1, <3>6 DEF Owned, turns!IsOf, turns!InItsSecond
      <3>8. row.inc \in Nat /\ (Owned(row) => Owned(row)')
        BY <1>1, <3>6, Stands, OwnedStays DEF TurnsInv, Footprint
      <3>9. row.inc <= session'.inc /\ MadeBy(row.of)'
        BY <1>1, <3>1, <3>6 DEF Standing, MadeBy
      <3> QED
        BY <3>5, <3>6, <3>7, <3>8, <3>9 DEF ContextInv
    <2> QED
      BY <1>2, <1>5, <2>1, <2>2, <2>3 DEF turns!BusyTell
  <1> QED
    BY <1>1, <1>4, <1>5, Stands, RowsStay DEF TurnsInv


LEMMA TurnsBeat ==
  ASSUME TurnsInv, NEW h \in Hook, turns!BeatFrom(h) \/ turns!BeatIdentity(h) \/ turns!BeatRead(h) PROVE TurnsInv'
  <1>1. Standing /\ UNCHANGED <<context, base>> /\ hooks[h].at # "none"
    BY DEF turns!BeatFrom, turns!BeatIdentity, turns!BeatRead, turns!disk, turns!ledger, Standing
  <1>2. PICK j : j = hooks[h]
    OBVIOUS
  <1>3. hooks[h] # NoHook /\ ReadBy(j) /\ j \in TurnHook
    BY <1>1, <1>2, AtWork
  <1>4. session.inc \in Nat
    BY DEF TurnsInv, RegisterInv
  <1>5. ASSUME turns!Done(h) PROVE TurnHooksInv'
    BY <1>1, <1>5, Leaves
  <1>6. ASSUME turns!Goto(h, "beat identity") PROVE TurnHooksInv'
    BY <1>1, <1>3, <1>6, Goes DEF TurnPlace
  <1>7. ASSUME hooks' = [hooks EXCEPT ![h].at = "beat read", ![h].inc = session.inc] PROVE TurnHooksInv'
    <2>1. PICK k : k = [j EXCEPT !.at = "beat read", !.inc = session.inc]
      OBVIOUS
    <2>2. /\ k \in TurnHook /\ k.at = "beat read" /\ k.inc = session.inc
          /\ k.usage = j.usage /\ k.fence = j.fence
      BY <1>3, <1>4, <2>1 DEF TurnHook, TurnPlace
    <2>3. ReadBy(k)
      <3>1. (k.usage # turns!None => MadeBy(k.usage)) /\ (k.fence # turns!None => MadeBy(k.fence))
        BY <1>3, <2>2 DEF ReadBy
      <3>2. k.inc <= session.inc
        BY <1>4, <2>2, NotOver, Zenon
      <3>3. k.at \notin {"stop identity", "stop context", "stop base", "busy read", "busy context", "beat context"}
        BY <2>2
      <3> QED
        BY <2>2, <3>1, <3>2, <3>3, Zenon DEF ReadBy
    <2>4. hooks' = [hooks EXCEPT ![h] = k]
      BY <1>2, <1>7, <2>1 DEF TurnsInv, TurnHooksInv
    <2> QED
      BY <1>1, <2>3, <2>4, Reads
  <1>8. ASSUME turns!LastUsage # turns!None, hooks' = [hooks EXCEPT ![h].at = "beat context", ![h].usage = turns!LastUsage]
        PROVE  TurnHooksInv'
    <2>1. PICK u, k : u = turns!LastUsage /\ k = [j EXCEPT !.at = "beat context", !.usage = u]
      OBVIOUS
    <2>2. u \in Recorded /\ MadeBy(u) /\ u # turns!None
      BY <1>8, <2>1, WhatIsRead DEF TurnsInv
    <2>3. /\ k \in TurnHook /\ k.at = "beat context" /\ k.inc = j.inc
          /\ k.usage = u /\ k.fence = j.fence
      BY <1>3, <2>1, <2>2 DEF TurnHook, TurnPlace
    <2>4. ReadBy(k)
      BY <1>3, <2>2, <2>3 DEF ReadBy
    <2>5. hooks' = [hooks EXCEPT ![h] = k]
      BY <1>2, <1>8, <2>1 DEF TurnsInv, TurnHooksInv
    <2> QED
      BY <1>1, <2>4, <2>5, Reads
  <1>9. TurnHooksInv'
    <2>1. CASE turns!BeatFrom(h)
      BY <1>6, <2>1 DEF turns!BeatFrom
    <2>2. CASE turns!BeatIdentity(h)
      BY <1>5, <1>7, <2>2 DEF turns!BeatIdentity
    <2>3. CASE turns!BeatRead(h)
      BY <1>5, <1>8, <2>3 DEF turns!BeatRead
    <2> QED
      BY <2>1, <2>2, <2>3
  <1>10. idle' = idle \/ idle' = turns!None
    BY DEF turns!BeatFrom, turns!BeatIdentity, turns!BeatRead, turns!ledger
  <1>11. IdleInv'
    BY <1>1, <1>10, Stands, RowsStay DEF TurnsInv, IdleInv
  <1> QED
    BY <1>1, <1>9, <1>11, Stands, RowsStay DEF TurnsInv

LEMMA TurnsBeatContext == ASSUME TurnsInv, NEW h \in Hook, turns!BeatContext(h) \/ turns!Killed(h) PROVE TurnsInv'
  <1>1. Standing /\ UNCHANGED <<idle, base>> /\ hooks[h].at # "none" /\ turns!Done(h)
    BY DEF turns!BeatContext, turns!Killed, turns!disk, turns!ledger, Standing
  <1>2. hooks[h] # NoHook /\ ReadBy(hooks[h]) /\ hooks[h] \in TurnHook
    BY <1>1, AtWork
  <1>3. TurnHooksInv'
    BY <1>1, Leaves
  <1>4. ASSUME turns!BeatContext(h) PROVE ContextInv'
    <2>1. hooks[h].at = "beat context" /\ turns!RecordContext(hooks[h].inc, hooks[h].usage, "beat")
      BY <1>4 DEF turns!BeatContext
    <2>2. PICK r : r = hooks[h].usage
      OBVIOUS
    <2>3. r \in Recorded /\ MadeBy(r) /\ hooks[h].inc \in Nat
      BY <1>2, <2>1, <2>2 DEF ReadBy, TurnHook
    <2> QED
      BY <1>1, <2>1, <2>2, <2>3, ContextRecorded
  <1>5. ASSUME turns!Killed(h) PROVE ContextInv'
    BY <1>1, <1>5, Stands, RowsStay DEF turns!Killed, turns!ledger, TurnsInv
  <1> QED
    BY <1>1, <1>3, <1>4, <1>5, Stands, RowsStay DEF TurnsInv

LEMMA TurnsStep == ASSUME TurnsInv, turns!Next PROVE TurnsInv'
  <1>1. CASE turns!WriteReply \/ turns!Bye \/ turns!Hello
    BY <1>1, TurnsWrite, TurnsLife
  <1>2. ASSUME NEW h \in Hook, turns!Harness(h) PROVE TurnsInv'
    BY <1>2, TurnsOpen, TurnsCall, TurnsEnd DEF turns!Harness
  <1>3. ASSUME NEW h \in Hook, turns!Stop(h) PROVE TurnsInv'
    BY <1>3, TurnsStopRead, TurnsStopIdentity, TurnsStopContext, TurnsStopBase, TurnsStopMark DEF turns!Stop
  <1>4. ASSUME NEW h \in Hook, turns!Busy(h) PROVE TurnsInv'
    BY <1>4, TurnsBusy, TurnsBusyContext, TurnsTell DEF turns!Busy
  <1>5. ASSUME NEW h \in Hook, turns!Beat(h) \/ turns!Killed(h) PROVE TurnsInv'
    BY <1>5, TurnsBeat, TurnsBeatContext DEF turns!Beat
  <1> QED
    BY <1>1, <1>2, <1>3, <1>4, <1>5 DEF turns!Next

LEMMA TurnsInit == ASSUME turns!Init PROVE TurnsInv
  <1> USE DEF turns!Init
  <1>1. RegisterInv
    BY DEF RegisterInv
  <1>2. DiskInv
    <2>1. turn \in [prompt : Nat, at : {"rest", "working"}, reply : {turns!None} \cup Recorded] /\ turn.reply = turns!None
      OBVIOUS
    <2>2. transcript \in Seq(Recorded) /\ OnDisk = {}
      BY DEF OnDisk
    <2> QED
      BY <2>1, <2>2 DEF DiskInv
  <1>3. TurnHooksInv
    BY DEF TurnHooksInv, NoHook
  <1>4. IdleInv /\ BaseInv /\ ContextInv
    BY DEF IdleInv, BaseInv, ContextInv
  <1> QED
    BY <1>1, <1>2, <1>3, <1>4 DEF TurnsInv

-----------------------------------------------------------------------------
PartTurnsInv == part = "turns" => TurnsInv

turnsVars == <<onlyTurns, hooks, idle>>

LEMMA TurnsSteps ==
  ASSUME [Next]_vars PROVE part' = part /\ (part = "turns" => turns!Next \/ UNCHANGED turnsVars)
  <1>1. CASE TurnsNext
    BY <1>1 DEF TurnsNext
  <1>2. CASE ProcsNext
    BY <1>2 DEF ProcsNext
  <1>3. CASE AdapterNext \/ CorrectionsNext
    BY <1>3 DEF AdapterNext, CorrectionsNext
  <1>4. CASE DirtyNext \/ DirtyLongNext
    BY <1>4 DEF DirtyNext, DirtyLongNext, NotDirty
  <1>5. CASE UNCHANGED vars
    BY <1>5 DEF vars, turnsVars
  <1> QED
    BY <1>1, <1>2, <1>3, <1>4, <1>5 DEF Next

(* Whatever a hook has read was made in an incarnation no later than the   *)
(* row's, and what an earlier one made is no later than the row's second.  *)
THEOREM TurnsInvariant == Spec => []PartTurnsInv
  <1>1. Init => PartTurnsInv
    BY TurnsInit DEF Init, PartTurnsInv
  <1>2. PartTurnsInv /\ [Next]_vars => PartTurnsInv'
    <2> SUFFICES ASSUME PartTurnsInv, [Next]_vars, part = "turns" PROVE TurnsInv'
      BY TurnsSteps DEF PartTurnsInv
    <2>1. CASE turns!Next
      BY <2>1, TurnsStep DEF PartTurnsInv
    <2>2. CASE UNCHANGED turnsVars
      <3>1. TurnsInv /\ Standing /\ UNCHANGED <<hooks, idle, context, base>>
        BY <2>2 DEF PartTurnsInv, turnsVars, onlyTurns, Standing
      <3> QED
        BY <3>1, Stands, RowsStay, TurnHooksStay DEF TurnsInv
    <2> QED
      BY <2>1, <2>2, TurnsSteps
  <1> QED
    BY <1>1, <1>2, PTL DEF Spec

(* recordTurnEnd, resampleFootprint, idleFence: the mark, the base and the *)
(* footprint of Stop and busy are about a turn of the incarnation they     *)
(* name, or of the very second it registered in, however late the hook.    *)
THEOREM ObservationsStayOwn == Spec => []ObservationsAreOwn
  <1>1. PartTurnsInv => ObservationsAreOwn
    <2> SUFFICES ASSUME TurnsInv, NEW row \in {idle, base, context} \ {turns!None},
                        "by" \in DOMAIN row => row.by # "beat"
                 PROVE  turns!IsOf(row, row.inc) \/ turns!InItsSecond(row)
      BY DEF PartTurnsInv, ObservationsAreOwn, turns!ObservationsAreOwn
    <2>1. ASSUME row = context PROVE Owned(row)
      BY <2>1 DEF TurnsInv, ContextInv, Footprint
    <2>2. Owned(row)
      BY <2>1 DEF TurnsInv, IdleInv, BaseInv
    <2> QED
      BY <2>2 DEF Owned
  <1> QED
    BY <1>1, TurnsInvariant, PTL

(* HandoffTell and the reset in RecordContext: no step stands as told      *)
(* beside a request under the declared size.                               *)
THEOREM StepsStayEarned == Spec => []StepIsEarned
  <1>1. PartTurnsInv => StepIsEarned
    BY DEF PartTurnsInv, TurnsInv, ContextInv, StepIsEarned, turns!StepIsEarned
  <1> QED
    BY <1>1, TurnsInvariant, PTL
=============================================================================
