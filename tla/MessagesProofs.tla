--------------------------- MODULE MessagesProofs ---------------------------
(***************************************************************************)
(* Theorems about messages from where they are kept to those they are for: *)
(* the journal of the chat with the cursors of a session over it, the      *)
(* inbox with the hooks that drain it, and the connection the chat arrives *)
(* on, for any rooms, hooks, reads, people and bounds.  Each part has its  *)
(* own inductive invariant; a step of another part leaves it alone, for a  *)
(* behaviour is of one part.                                               *)
(***************************************************************************)
EXTENDS MCMessages, Integers, Sequences, FiniteSets, FiniteSetTheorems, WellFoundedInduction, TLAPS

(***************************************************************************)
(* The journal.  A cursor stands where everything before it was told: a    *)
(* scan looks from where the cursor was, or behind where it is by now, and *)
(* what its cap leaves out lies beyond where it advances to.               *)
(***************************************************************************)
Last == Cardinality(DOMAIN rows)
InRoom(r, n) == {q \in DOMAIN rows : rows[q].room = r /\ q <= n}
Heard(r, n) == {q \in InRoom(r, n) : rows[q].kind # "presence" /\ rows[q].kind # "own"}
Told == emitted \cup 1..cut
Acked == {q \in DOMAIN rows : q <= passed[rows[q].room]}
Seen == rendered \cup Acked \cup 1..cut

NoCall == [at |-> "none"]
CursorAlert(R) == [at : {"cursors"}, tops : [R -> 0..Last]]
ScanAlert(R) ==
  [at : {"scan"}, tops : [R -> 0..Last], from : [R -> Nat], found : [R -> SUBSET Nat],
   advance : [R -> 0..Last], rooms : SUBSET R]
AckAlert(R) == [at : {"ack"}, advance : [R -> 0..Last]]

(* A scan starts no later than the cursor, and what it has looked at is    *)
(* told or found.                                                          *)
AlertOf(R, a) ==
  \/ a = NoCall
  \/ a \in CursorAlert(R)
  \/ /\ a \in ScanAlert(R)
     /\ \A r \in R : a.from[r] <= alertCursor[r]
     /\ \A r \in R : a.advance[r] # 0 => Heard(r, a.advance[r]) \subseteq Told \cup a.found[r]
  \/ /\ a \in AckAlert(R)
     /\ \A r \in R : a.advance[r] # 0 => Heard(r, a.advance[r]) \subseteq Told

HorizonRead(R) == [at : {"horizon"}, room : R, base : Nat]
RowsRead(R) == [at : {"rows"}, room : R, base : Nat, gap : BOOLEAN]
AckRead(R) == [at : {"ack"}, room : R, base : Nat, gap : BOOLEAN, kept : SUBSET Nat, upTo : 0..Last]
AnswerRead == [at : {"answer"}, kept : SUBSET Nat]

ReadOf(R, g) ==
  \/ g = NoCall
  \/ g \in HorizonRead(R) \cup RowsRead(R) /\ g.base <= readCursor[g.room]
  \/ g \in AckRead(R) /\ InRoom(g.room, g.upTo) \subseteq Seen
  \/ g \in AnswerRead

RowsInv(R) ==
  /\ Last \in Nat /\ DOMAIN rows = 1..Last /\ cut \in 0..Last
  /\ \A q \in DOMAIN rows : rows[q].room \in R

(* Only an ack by hand puts a read cursor past the end of the journal.     *)
CursorsInv(R) ==
  /\ alertCursor \in [R -> 0..Last] /\ readCursor \in [R -> Nat] /\ passed \in [R -> Nat]
  /\ \A r \in R : Heard(r, alertCursor[r]) \subseteq Told
  /\ \A r \in R : InRoom(r, readCursor[r]) \subseteq Seen
  /\ \A r \in R : readCursor[r] <= Last \/ readCursor[r] <= passed[r]

AlertsInv(R, A) == DOMAIN alerts = A /\ \A h \in A : AlertOf(R, alerts[h])
ReadsInv(R, G) == DOMAIN reads = G /\ \A g \in G : ReadOf(R, reads[g])

ChatInv(R, A, G) == RowsInv(R) /\ CursorsInv(R) /\ AlertsInv(R, A) /\ ReadsInv(R, G)

-----------------------------------------------------------------------------

LEMMA Limits == RowCap \in Nat /\ PageSize \in Nat
  BY JournalLimits DEF chat!LimitAssumption

(* A set of naturals has a least element.  A bounded set of them has a  *)
(* greatest.                                                               *)
LEMMA LeastOf == ASSUME NEW T \in SUBSET Nat, T # {} PROVE \E x \in T : \A y \in T : x <= y
  <1> DEFINE R == {p \in Nat \X Nat : p[1] < p[2]}
  <1>1. IsWellFoundedOn(R, Nat)
    BY NatLessThanWellFounded DEF OpToRel
  <1>2. \E x \in T : \A y \in T : ~(<<y, x>> \in R)
    <2> HIDE DEF R
    <2> QED
      BY <1>1, WFMin
  <1>3. PICK x \in T : \A y \in T : ~(<<y, x>> \in R)
    BY <1>2
  <1>4. \A y \in T : <<y, x>> \in Nat \X Nat /\ <<y, x>>[1] = y /\ <<y, x>>[2] = x
    OBVIOUS
  <1>5. \A y \in T : ~(y < x)
    BY <1>3, <1>4
  <1>6. \A y \in T : x <= y
    BY <1>5
  <1> QED
    BY <1>6

LEMMA GreatestOf ==
  ASSUME NEW n \in Nat, NEW T \in SUBSET (0..n), T # {} PROVE \E x \in T : \A y \in T : y <= x
  <1> DEFINE U == {n - x : x \in T}
  <1>1. \A x \in T : n - x \in Nat /\ n - x \in U
    OBVIOUS
  <1>2. U \in SUBSET Nat /\ U # {}
    <2>1. \A u \in U : u \in Nat
      BY <1>1
    <2> QED
      BY <1>1, <2>1
  <1>3. PICK u \in U : \A y \in U : u <= y
    BY <1>2, LeastOf
  <1>4. PICK x \in T : u = n - x
    OBVIOUS
  <1>5. \A y \in T : n - x <= n - y
    BY <1>1, <1>3, <1>4
  <1> QED
    BY <1>5

LEMMA Cardinal ==
  ASSUME NEW R, NEW K, NEW A, NEW G, NEW S PROVE chat(R, K, A, G)!Cardinality(S) = Cardinality(S)
  BY DEF chat!Cardinality, Cardinality

LEMMA NewestOf ==
  ASSUME NEW R, NEW K, NEW A, NEW G, NEW n \in Nat, NEW S \in SUBSET (1..n)
  PROVE  /\ chat(R, K, A, G)!Newest(S) \in 0..n
         /\ S = {} => chat(R, K, A, G)!Newest(S) = 0
         /\ S # {} => chat(R, K, A, G)!Newest(S) \in S
         /\ \A q \in S : q <= chat(R, K, A, G)!Newest(S)
  <1>1. \A q \in S : q \in Nat /\ q \in 0..n
    OBVIOUS
  <1>2. ASSUME S # {} PROVE chat(R, K, A, G)!Max(S) \in S /\ \A q \in S : q <= chat(R, K, A, G)!Max(S)
    <2>1. S \in SUBSET (0..n)
      BY <1>1
    <2>2. \E x \in S : \A y \in S : y <= x
      BY <1>2, <2>1, GreatestOf
    <2>3. \E x \in S : \A y \in S : x >= y
      BY <1>1, <2>2
    <2>4. chat(R, K, A, G)!Max(S) \in S /\ \A q \in S : chat(R, K, A, G)!Max(S) >= q
      BY <2>3 DEF chat!Max
    <2> QED
      BY <1>1, <2>4
  <1>3. CASE S = {}
    BY <1>3 DEF chat!Newest
  <1>4. CASE S # {}
    <2>1. chat(R, K, A, G)!Newest(S) = chat(R, K, A, G)!Max(S)
      BY <1>4 DEF chat!Newest
    <2> QED
      BY <1>1, <1>2, <1>4, <2>1
  <1> QED
    BY <1>3, <1>4


(* The oldest of some rows: with a row, all of them that are no newer; and *)
(* all of them, when there are no more than that.                          *)
OldestIn(old, S, c) ==
  /\ old \subseteq S
  /\ \A m \in old : \A q \in S : q <= m => q \in old
  /\ Cardinality(S) <= c => old = S

LEMMA OldestOf ==
  ASSUME NEW R, NEW K, NEW A, NEW G, NEW n \in Nat, NEW S \in SUBSET (1..n), NEW c \in Nat
  PROVE  OldestIn(chat(R, K, A, G)!Oldest(S, c), S, c)
  <1> DEFINE below(q) == {p \in S : p < q}
  <1>0. PICK old : old = chat(R, K, A, G)!Oldest(S, c)
    OBVIOUS
  <1>1. IsFiniteSet(S) /\ Cardinality(S) \in Nat
    <2>1. IsFiniteSet(1..n)
      BY FS_Interval
    <2>2. IsFiniteSet(S)
      BY <2>1, FS_Subset
    <2> QED
      BY <2>2, FS_CardinalityType
  <1>2. \A q \in S : q \in Nat
    OBVIOUS
  <1>3. ASSUME NEW q \in S PROVE IsFiniteSet(below(q)) /\ Cardinality(below(q)) \in Nat
    <2>1. below(q) \in SUBSET S
      OBVIOUS
    <2>2. IsFiniteSet(below(q))
      BY <1>1, <2>1, FS_Subset
    <2> QED
      BY <2>2, FS_CardinalityType
  <1>4. ASSUME NEW m \in S, NEW q \in S, q <= m PROVE Cardinality(below(q)) <= Cardinality(below(m))
    <2>1. ASSUME NEW p \in S, p < q PROVE p < m
      BY <1>2, <1>4, <2>1
    <2>2. below(q) \in SUBSET below(m)
      BY <2>1
    <2> QED
      BY <1>3, <2>2, FS_Subset
  <1>5. ASSUME NEW q \in S PROVE Cardinality(below(q)) < Cardinality(S)
    <2>1. below(q) \in SUBSET S
      OBVIOUS
    <2>2. below(q) # S
      BY <1>2
    <2>3. Cardinality(below(q)) <= Cardinality(S) /\ Cardinality(below(q)) # Cardinality(S)
      BY <1>1, <2>1, <2>2, FS_Subset
    <2> QED
      BY <1>1, <1>3, <2>3
  <1>6. \A q : q \in old <=> q \in S /\ Cardinality(below(q)) < c
    BY <1>0, Cardinal DEF chat!Oldest
  <1> HIDE DEF below
  <1>7. \A m \in old : \A q \in S : q <= m => q \in old
    <2> SUFFICES ASSUME NEW m \in old, NEW q \in S, q <= m PROVE q \in old
      OBVIOUS
    <2>1. m \in S /\ Cardinality(below(m)) < c
      BY <1>6
    <2>2. Cardinality(below(q)) <= Cardinality(below(m))
      BY <1>4, <2>1
    <2>3. Cardinality(below(q)) < c
      BY <1>3, <2>1, <2>2
    <2> QED
      BY <1>6, <2>3
  <1>8. Cardinality(S) <= c => \A q \in S : q \in old
    BY <1>1, <1>3, <1>5, <1>6
  <1> QED
    BY <1>0, <1>6, <1>7, <1>8, Cardinal DEF OldestIn

LEMMA LastOf ==
  ASSUME NEW n \in Nat PROVE Cardinality(1..n) = n /\ IsFiniteSet(1..n)
  <1>1. IsFiniteSet(1..n) /\ Cardinality(1..n) = IF 1 > n THEN 0 ELSE n - 1 + 1
    BY FS_Interval
  <1>2. CASE n = 0
    BY <1>1, <1>2
  <1>3. CASE n # 0
    <2>1. ~(1 > n) /\ n - 1 + 1 = n
      BY <1>3
    <2> QED
      BY <1>1, <2>1
  <1> QED
    BY <1>2, <1>3


-----------------------------------------------------------------------------
(* No step takes back what was told, or moves a cursor back. *)
Grows(R) ==
  /\ Last <= Last' /\ \A q \in DOMAIN rows : rows'[q] = rows[q]
  /\ cut <= cut' /\ emitted \subseteq emitted' /\ rendered \subseteq rendered'
  /\ passed \in [R -> Nat] /\ passed' \in [R -> Nat] /\ \A r \in R : passed[r] <= passed'[r]
  /\ \A r \in R : alertCursor[r] <= alertCursor'[r] /\ readCursor[r] <= readCursor'[r]

LEMMA HeardStays ==
  ASSUME NEW R, RowsInv(R), RowsInv(R)', Grows(R), NEW r, NEW n \in 0..Last
  PROVE  /\ Heard(r, n)' = Heard(r, n) /\ InRoom(r, n)' = InRoom(r, n)
         /\ Told \subseteq Told' /\ Seen \subseteq Seen'
         /\ n \in 0..Last'
  <1>1. /\ Last \in Nat /\ Last' \in Nat /\ Last <= Last' /\ cut \in Nat /\ cut' \in Nat /\ cut <= cut'
        /\ DOMAIN rows = 1..Last /\ DOMAIN rows' = 1..Last'
    BY DEF RowsInv, Grows
  <1>2. InRoom(r, n)' = InRoom(r, n)
    BY <1>1 DEF InRoom, Grows
  <1>3. Heard(r, n)' = Heard(r, n)
    BY <1>1, <1>2 DEF Heard, InRoom, Grows
  <1>4. 1..cut \subseteq 1..cut'
    BY <1>1
  <1>5. Acked \subseteq Acked'
    <2> SUFFICES ASSUME NEW q \in Acked PROVE q \in Acked'
      OBVIOUS
    <2>1. q \in 1..Last /\ q \in 1..Last' /\ rows'[q] = rows[q] /\ rows[q].room \in R /\ q <= passed[rows[q].room]
      BY <1>1 DEF Acked, RowsInv, Grows
    <2>2. PICK room \in R : room = rows[q].room
      BY <2>1
    <2>3. passed[room] \in Nat /\ passed'[room] \in Nat /\ passed[room] <= passed'[room]
      BY DEF Grows
    <2> QED
      BY <1>1, <2>1, <2>2, <2>3 DEF Acked
  <1>6. Told \subseteq Told' /\ Seen \subseteq Seen'
    BY <1>4, <1>5 DEF Told, Seen, Grows
  <1> QED
    BY <1>1, <1>2, <1>3, <1>6

LEMMA WordsStay ==
  ASSUME NEW R, RowsInv(R), RowsInv(R)', Grows(R)
  PROVE  /\ CursorAlert(R) \subseteq CursorAlert(R)' /\ ScanAlert(R) \subseteq ScanAlert(R)'
         /\ AckAlert(R) \subseteq AckAlert(R)' /\ AckRead(R) \subseteq AckRead(R)'
  <1>1. 0..Last \subseteq 0..Last'
    BY DEF RowsInv, Grows
  <1>2. [R -> 0..Last] \subseteq [R -> 0..Last']
    BY <1>1
  <1>3. CursorAlert(R) \subseteq CursorAlert(R)'
    BY <1>2 DEF CursorAlert
  <1>4. ScanAlert(R) \subseteq ScanAlert(R)'
    BY <1>2 DEF ScanAlert
  <1>5. AckAlert(R) \subseteq AckAlert(R)'
    BY <1>2 DEF AckAlert
  <1>6. AckRead(R) \subseteq AckRead(R)'
    BY <1>1 DEF AckRead
  <1> QED
    BY <1>3, <1>4, <1>5, <1>6

LEMMA AlertStays ==
  ASSUME NEW R, RowsInv(R), RowsInv(R)', CursorsInv(R), CursorsInv(R)', Grows(R), NEW a, AlertOf(R, a)
  PROVE  AlertOf(R, a)'
  <1>1. CASE a = NoCall
    BY <1>1 DEF AlertOf
  <1>2. CASE a \in CursorAlert(R)
    BY <1>2, WordsStay DEF AlertOf
  <1>3. CASE /\ a \in ScanAlert(R)
             /\ \A r \in R : a.from[r] <= alertCursor[r]
             /\ \A r \in R : a.advance[r] # 0 => Heard(r, a.advance[r]) \subseteq Told \cup a.found[r]
    <2>1. a \in ScanAlert(R)'
      BY <1>3, WordsStay
    <2>2. \A r \in R : a.from[r] \in Nat /\ a.advance[r] \in 0..Last
      BY <1>3 DEF ScanAlert
    <2>3. \A r \in R : a.from[r] <= alertCursor'[r]
      <3>1. \A r \in R : alertCursor[r] \in Nat /\ alertCursor'[r] \in Nat
        BY DEF CursorsInv, RowsInv
      <3> QED
        BY <1>3, <2>2, <3>1 DEF Grows
    <2>4. \A r \in R : a.advance[r] # 0 => Heard(r, a.advance[r])' \subseteq Told' \cup a.found[r]
      BY <1>3, <2>2, HeardStays
    <2> QED
      BY <2>1, <2>3, <2>4 DEF AlertOf
  <1>4. CASE /\ a \in AckAlert(R)
             /\ \A r \in R : a.advance[r] # 0 => Heard(r, a.advance[r]) \subseteq Told
    <2>1. a \in AckAlert(R)'
      BY <1>4, WordsStay
    <2>2. \A r \in R : a.advance[r] \in 0..Last
      BY <1>4 DEF AckAlert
    <2>3. \A r \in R : a.advance[r] # 0 => Heard(r, a.advance[r])' \subseteq Told'
      BY <1>4, <2>2, HeardStays
    <2> QED
      BY <2>1, <2>3 DEF AlertOf
  <1> QED
    BY <1>1, <1>2, <1>3, <1>4 DEF AlertOf

LEMMA ReadStays ==
  ASSUME NEW R, RowsInv(R), RowsInv(R)', CursorsInv(R), CursorsInv(R)', Grows(R), NEW g, ReadOf(R, g)
  PROVE  ReadOf(R, g)'
  <1>1. CASE g = NoCall \/ g \in AnswerRead
    BY <1>1 DEF ReadOf
  <1>2. CASE g \in HorizonRead(R) \cup RowsRead(R) /\ g.base <= readCursor[g.room]
    <2>1. g.base \in Nat /\ g.room \in R
      BY <1>2 DEF HorizonRead, RowsRead
    <2>2. readCursor[g.room] \in Nat /\ readCursor'[g.room] \in Nat /\ readCursor[g.room] <= readCursor'[g.room]
      BY <2>1 DEF CursorsInv, RowsInv, Grows
    <2> QED
      BY <1>2, <2>1, <2>2 DEF ReadOf, HorizonRead, RowsRead
  <1>3. CASE g \in AckRead(R) /\ InRoom(g.room, g.upTo) \subseteq Seen
    <2>1. g \in AckRead(R)'
      BY <1>3, WordsStay
    <2>2. g.upTo \in 0..Last
      BY <1>3 DEF AckRead
    <2>3. InRoom(g.room, g.upTo)' \subseteq Seen'
      BY <1>3, <2>2, HeardStays
    <2> QED
      BY <2>1, <2>3 DEF ReadOf
  <1> QED
    BY <1>1, <1>2, <1>3 DEF ReadOf

(* The calls of a step that moves none of them, or one. *)
LEMMA AlertsStay ==
  ASSUME NEW R, NEW A, RowsInv(R), RowsInv(R)', CursorsInv(R), CursorsInv(R)', Grows(R), AlertsInv(R, A),
         \/ alerts' = alerts
         \/ \E h \in A : \E a : alerts' = [alerts EXCEPT ![h] = a] /\ AlertOf(R, a)'
  PROVE  AlertsInv(R, A)'
  <1>1. \A b : AlertOf(R, b) => AlertOf(R, b)'
    BY AlertStays
  <1>2. ASSUME NEW h \in A PROVE AlertOf(R, alerts[h])'
    <2>1. PICK b : b = alerts'[h]
      OBVIOUS
    <2>2. AlertOf(R, b) \/ AlertOf(R, b)'
      BY <2>1 DEF AlertsInv
    <2> QED
      BY <1>1, <2>1, <2>2
  <1> QED
    BY <1>2 DEF AlertsInv

LEMMA ReadsStay ==
  ASSUME NEW R, NEW G, RowsInv(R), RowsInv(R)', CursorsInv(R), CursorsInv(R)', Grows(R), ReadsInv(R, G),
         \/ reads' = reads
         \/ \E g \in G : \E c : reads' = [reads EXCEPT ![g] = c] /\ ReadOf(R, c)'
  PROVE  ReadsInv(R, G)'
  <1>1. \A b : ReadOf(R, b) => ReadOf(R, b)'
    BY ReadStays
  <1>2. ASSUME NEW g \in G PROVE ReadOf(R, reads[g])'
    <2>1. PICK b : b = reads'[g]
      OBVIOUS
    <2>2. ReadOf(R, b) \/ ReadOf(R, b)'
      BY <2>1 DEF ReadsInv
    <2> QED
      BY <1>1, <2>1, <2>2
  <1> QED
    BY <1>2 DEF ReadsInv


(* A cursor that stays put passes the rows appended behind it only where   *)
(* the session acked as far by hand.                                       *)
LEMMA CursorsStay ==
  ASSUME NEW R, RowsInv(R), RowsInv(R)', Grows(R), CursorsInv(R),
         \/ alertCursor' = alertCursor
         \/ \E r \in R : \E n \in 0..Last : alertCursor' = [alertCursor EXCEPT ![r] = n] /\ Heard(r, n)' \subseteq Told',
         \/ readCursor' = readCursor
         \/ \E r \in R : \E n \in Nat :
              /\ readCursor' = [readCursor EXCEPT ![r] = n]
              /\ InRoom(r, n)' \subseteq Seen' /\ (n <= Last \/ n <= passed'[r])
  PROVE  CursorsInv(R)'
  <1>1. Last \in Nat /\ Last' \in Nat /\ Last <= Last' /\ 0..Last \subseteq 0..Last'
    BY DEF RowsInv, Grows
  <1>2. alertCursor' \in [R -> 0..Last] /\ readCursor' \in [R -> Nat] /\ passed' \in [R -> Nat]
    BY DEF CursorsInv, Grows
  <1>3. ASSUME NEW r \in R PROVE Heard(r, alertCursor[r])' \subseteq Told'
    <2>1. PICK n : n = alertCursor'[r]
      OBVIOUS
    <2>2. n \in 0..Last
      BY <1>2, <2>1
    <2>3. n = alertCursor[r] \/ Heard(r, n)' \subseteq Told'
      BY <2>1 DEF CursorsInv
    <2>4. Heard(r, n)' \subseteq Told'
      BY <2>2, <2>3, HeardStays DEF CursorsInv
    <2> QED
      BY <2>1, <2>4 DEF Heard, InRoom
  <1>4. ASSUME NEW r \in R
        PROVE  /\ InRoom(r, readCursor[r])' \subseteq Seen'
               /\ readCursor'[r] <= Last' \/ readCursor'[r] <= passed'[r]
    <2>1. PICK n : n = readCursor'[r]
      OBVIOUS
    <2>2. n \in Nat /\ passed[r] \in Nat /\ passed'[r] \in Nat /\ passed[r] <= passed'[r]
      BY <1>2, <2>1 DEF Grows
    <2>3. \/ n = readCursor[r]
          \/ InRoom(r, n)' \subseteq Seen' /\ (n <= Last \/ n <= passed'[r])
      BY <2>1 DEF CursorsInv
    <2>4. n = readCursor[r] => InRoom(r, n) \subseteq Seen /\ (n <= Last \/ n <= passed[r])
      BY DEF CursorsInv
    <2>5. n <= Last' \/ n <= passed'[r]
      BY <1>1, <2>2, <2>3, <2>4
    <2>6. ASSUME n = readCursor[r], NEW q \in InRoom(r, n)' PROVE q \in Seen'
      <3>1. q \in 1..Last' /\ rows'[q].room = r /\ q <= n
        BY DEF InRoom, RowsInv
      <3>2. CASE q \in 1..Last
        <4>1. rows'[q] = rows[q] /\ q \in DOMAIN rows
          BY <3>2 DEF Grows, RowsInv
        <4>2. q \in Seen
          BY <2>4, <2>6, <3>1, <4>1 DEF InRoom
        <4>3. 0 \in 0..Last
          BY <1>1
        <4> QED
          BY <4>2, <4>3, HeardStays
      <3>3. CASE q > Last
        <4>1. n <= passed[r]
          BY <1>1, <2>2, <2>4, <2>6, <3>1, <3>3
        <4>2. q <= passed'[r]
          BY <1>1, <2>2, <3>1, <4>1
        <4> QED
          BY <3>1, <4>2 DEF Seen, Acked, RowsInv
      <3> QED
        BY <1>1, <3>1, <3>2, <3>3
    <2> QED
      BY <2>1, <2>3, <2>5, <2>6 DEF InRoom
  <1>5. alertCursor' \in [R -> 0..Last']
    BY <1>1, <1>2
  <1> QED
    BY <1>2, <1>3, <1>4, <1>5 DEF CursorsInv

LEMMA ChatAppends ==
  ASSUME NEW R, NEW K, NEW A, NEW G, ChatInv(R, A, G), NEW r \in R, NEW kind, chat(R, K, A, G)!Append(r, kind)
  PROVE  ChatInv(R, A, G)'
  <1>1. /\ UNCHANGED <<cut, alertCursor, readCursor, alerts, reads, emitted, rendered, passed>>
        /\ rows' = [q \in (1..Last) \cup {Last + 1} |->
                      IF q \in 1..Last THEN rows[q] ELSE chat(R, K, A, G)!Msg(r, kind)]
    BY Cardinal DEF chat!Append, chat!told, chat!Seqs, ChatInv, RowsInv, Last
  <1>2. Last \in Nat /\ (1..Last) \cup {Last + 1} = 1..(Last + 1)
    BY DEF ChatInv, RowsInv
  <1>3. DOMAIN rows' = 1..(Last + 1)
    BY <1>1, <1>2
  <1>4. Last' = Last + 1
    <2>1. Last' = Cardinality(1..(Last + 1))
      BY <1>3 DEF Last
    <2> QED
      BY <1>2, <2>1, LastOf
  <1>5. \A q \in 1..Last : rows'[q] = rows[q]
    BY <1>1
  <1>6. \A q \in DOMAIN rows' : rows'[q].room \in R
    BY <1>1 DEF chat!Msg, ChatInv, RowsInv
  <1>7. RowsInv(R)'
    <2>1. cut \in 0..Last /\ cut' = cut
      BY <1>1 DEF ChatInv, RowsInv
    <2>2. Last' \in Nat /\ cut' \in 0..Last'
      BY <1>2, <1>4, <2>1
    <2>3. DOMAIN rows' = 1..Last'
      BY <1>3, <1>4
    <2> QED
      BY <1>6, <2>2, <2>3 DEF RowsInv
  <1>8. passed \in [R -> Nat] /\ \A r2 \in R : alertCursor[r2] \in Nat /\ readCursor[r2] \in Nat /\ passed[r2] \in Nat
    BY <1>2 DEF ChatInv, CursorsInv
  <1>9. Grows(R)
    BY <1>1, <1>2, <1>4, <1>5, <1>8 DEF ChatInv, RowsInv, Grows
  <1>10. CursorsInv(R)'
    BY <1>1, <1>7, <1>9, CursorsStay DEF ChatInv
  <1> QED
    BY <1>1, <1>7, <1>9, <1>10, AlertsStay, ReadsStay DEF ChatInv

LEMMA ChatTrims ==
  ASSUME NEW R, NEW K, NEW A, NEW G, ChatInv(R, A, G), NEW k, chat(R, K, A, G)!Trim(k)
  PROVE  ChatInv(R, A, G)'
  <1>1. /\ UNCHANGED <<rows, alertCursor, readCursor, alerts, reads, emitted, rendered, passed>>
        /\ k \in DOMAIN rows /\ k > cut /\ cut' = k
    BY DEF chat!Trim, chat!told, chat!Seqs
  <1>2. RowsInv(R)'
    BY <1>1 DEF ChatInv, RowsInv, Last
  <1>3. passed \in [R -> Nat] /\ \A r2 \in R : alertCursor[r2] \in Nat /\ readCursor[r2] \in Nat /\ passed[r2] \in Nat
    BY DEF ChatInv, CursorsInv, RowsInv
  <1>4. Last' = Last
    BY <1>1 DEF Last
  <1>5. Grows(R)
    BY <1>1, <1>3, <1>4 DEF ChatInv, RowsInv, Grows
  <1>6. CursorsInv(R)'
    BY <1>1, <1>2, <1>5, CursorsStay DEF ChatInv
  <1> QED
    BY <1>1, <1>2, <1>5, <1>6, AlertsStay, ReadsStay DEF ChatInv

(* Any other step leaves the journal, and only adds to what was told. *)
LEMMA JournalStands ==
  ASSUME NEW R, NEW A, NEW G, ChatInv(R, A, G), UNCHANGED <<rows, cut, passed>>,
         emitted \subseteq emitted', rendered \subseteq rendered',
         \A r \in R : alertCursor[r] <= alertCursor'[r] \/ alertCursor'[r] = alertCursor[r],
         \A r \in R : readCursor[r] <= readCursor'[r] \/ readCursor'[r] = readCursor[r]
  PROVE  RowsInv(R)' /\ Grows(R) /\ Last' = Last
  <1>1. passed \in [R -> Nat] /\ \A r \in R : alertCursor[r] \in Nat /\ readCursor[r] \in Nat /\ passed[r] \in Nat
    BY DEF ChatInv, CursorsInv, RowsInv
  <1>2. Last' = Last
    BY DEF Last
  <1>3. Grows(R)
    BY <1>1, <1>2 DEF ChatInv, RowsInv, Grows
  <1> QED
    BY <1>2, <1>3 DEF ChatInv, RowsInv


LEMMA ChatAlertBegins ==
  ASSUME NEW R, NEW K, NEW A, NEW G, ChatInv(R, A, G), NEW h \in A,
         chat(R, K, A, G)!AlertTops(h) \/ chat(R, K, A, G)!AlertCursors(h) \/ chat(R, K, A, G)!AlertEnds(h)
  PROVE  ChatInv(R, A, G)'
  <1>1. UNCHANGED <<rows, cut, alertCursor, readCursor, reads, emitted, rendered, passed>>
    BY DEF chat!AlertTops, chat!AlertCursors, chat!AlertEnds, chat!told, chat!journal
  <1>2. RowsInv(R)' /\ Grows(R) /\ Last' = Last
    BY <1>1, JournalStands
  <1>3. CursorsInv(R)'
    BY <1>1, <1>2, CursorsStay DEF ChatInv
  <1>4. ASSUME chat(R, K, A, G)!AlertTops(h)
        PROVE  \E a : alerts' = [alerts EXCEPT ![h] = a] /\ AlertOf(R, a)
    <2>1. PICK a : a = [at |-> "cursors", tops |-> [r \in R |-> chat(R, K, A, G)!Newest(chat(R, K, A, G)!Chat(r))]]
      OBVIOUS
    <2>2. alerts' = [alerts EXCEPT ![h] = a]
      BY <1>4, <2>1 DEF chat!AlertTops
    <2>3. \A r \in R : chat(R, K, A, G)!Newest(chat(R, K, A, G)!Chat(r)) \in 0..Last
      <3> SUFFICES ASSUME NEW r \in R PROVE chat(R, K, A, G)!Newest(chat(R, K, A, G)!Chat(r)) \in 0..Last
        OBVIOUS
      <3>1. chat(R, K, A, G)!Chat(r) \in SUBSET (1..Last) /\ Last \in Nat
        BY DEF chat!Chat, chat!Retained, chat!Seqs, ChatInv, RowsInv
      <3> QED
        BY <3>1, NewestOf
    <2>4. a \in CursorAlert(R)
      BY <2>1, <2>3 DEF CursorAlert
    <2> QED
      BY <2>2, <2>4 DEF AlertOf
  <1>5. ASSUME chat(R, K, A, G)!AlertCursors(h)
        PROVE  \E a : alerts' = [alerts EXCEPT ![h] = a] /\ AlertOf(R, a)
    <2>1. alerts[h].at = "cursors" /\ AlertOf(R, alerts[h])
      BY <1>5 DEF chat!AlertCursors, ChatInv, AlertsInv
    <2>2. alerts[h] \in CursorAlert(R)
      BY <2>1 DEF AlertOf, NoCall, ScanAlert, AckAlert
    <2>3. PICK a : a = [at |-> "scan", tops |-> alerts[h].tops, from |-> alertCursor, found |-> [r \in R |-> {}],
                        advance |-> [r \in R |-> 0], rooms |-> {r \in R : alertCursor[r] < alerts[h].tops[r]}]
      OBVIOUS
    <2>4. alerts' = [alerts EXCEPT ![h] = a]
      BY <1>5, <2>3 DEF chat!AlertCursors
    <2>5. Last \in Nat /\ alertCursor \in [R -> Nat] /\ alerts[h].tops \in [R -> 0..Last]
      BY <2>2 DEF CursorAlert, ChatInv, CursorsInv, RowsInv
    <2>6. a \in ScanAlert(R) /\ a.from = alertCursor /\ a.advance = [r \in R |-> 0]
      BY <2>3, <2>5 DEF ScanAlert
    <2>7. \A r \in R : a.from[r] <= alertCursor[r] /\ a.advance[r] = 0
      BY <2>5, <2>6
    <2> QED
      BY <2>4, <2>6, <2>7 DEF AlertOf
  <1>6. ASSUME chat(R, K, A, G)!AlertEnds(h)
        PROVE  \E a : alerts' = [alerts EXCEPT ![h] = a] /\ AlertOf(R, a)
    BY <1>6 DEF chat!AlertEnds, chat!Idle, AlertOf, NoCall
  <1>7. \E a : alerts' = [alerts EXCEPT ![h] = a] /\ AlertOf(R, a)
    BY <1>4, <1>5, <1>6
  <1>8. \E a : alerts' = [alerts EXCEPT ![h] = a] /\ AlertOf(R, a)'
    BY <1>2, <1>3, <1>7, AlertStays DEF ChatInv
  <1> QED
    BY <1>1, <1>2, <1>3, <1>8, AlertsStay, ReadsStay DEF ChatInv

(* A scan: what it leaves out is behind the cursor it began at, taken by   *)
(* retention, or beyond where it advances to.                              *)
LEMMA ScanCovers ==
  ASSUME NEW R, NEW K, NEW A, NEW G, ChatInv(R, A, G), NEW h \in A, NEW r \in R, alerts[h] \in ScanAlert(R),
         alerts[h].from[r] <= alertCursor[r],
         NEW window, window = chat(R, K, A, G)!AddressedRows(h, r),
         NEW n, n = chat(R, K, A, G)!Advance(window, alerts[h].tops[r]), n # 0
  PROVE  /\ n \in 0..Last
         /\ Heard(r, n) \subseteq Told \cup {q \in chat(R, K, A, G)!Oldest(window, RowCap) : ~chat(R, K, A, G)!Own(q)}
  <1>1. Last \in Nat /\ DOMAIN rows = 1..Last /\ cut \in Nat
    BY DEF ChatInv, RowsInv
  <1>2. alerts[h].tops[r] \in 0..Last /\ alerts[h].from[r] \in Nat /\ alertCursor[r] \in 0..Last
    BY DEF ScanAlert, ChatInv, CursorsInv
  <1>3. \A q : q \in window <=> /\ q \in 1..Last /\ q > cut /\ rows[q].room = r /\ rows[q].kind # "presence"
                                /\ q > alerts[h].from[r] /\ q <= alerts[h].tops[r]
    BY <1>1 DEF chat!AddressedRows, chat!Chat, chat!Retained, chat!Seqs, chat!Names
  <1>4. window \in SUBSET (1..Last)
    BY <1>3
  <1>5. PICK old :
          /\ old = chat(R, K, A, G)!Oldest(window, RowCap)
          /\ old \subseteq window
          /\ \A m \in old : \A q \in window : q <= m => q \in old
          /\ ~(chat(R, K, A, G)!Cardinality(window) > RowCap) => old = window
    <2>1. PICK top \in Nat : window \in SUBSET (1..top)
      BY <1>1, <1>4
    <2>2. RowCap \in Nat
      BY Limits
    <2>3. PICK c \in Nat : c = RowCap
      BY <2>2
    <2>4. PICK old : old = chat(R, K, A, G)!Oldest(window, c)
      OBVIOUS
    <2>5. OldestIn(old, window, c)
      BY <2>1, <2>4, OldestOf
    <2>6. Cardinality(window) \in Nat
      BY <2>1, LastOf, FS_Subset, FS_CardinalityType
    <2>7. ~(chat(R, K, A, G)!Cardinality(window) > c) => Cardinality(window) <= c
      BY <2>3, <2>6, Cardinal
    <2> QED
      BY <2>3, <2>4, <2>5, <2>7 DEF OldestIn
  <1>6. old \in SUBSET (1..Last)
    BY <1>4, <1>5
  <1>7. n \in 0..Last /\ n <= alerts[h].tops[r] /\ \A q \in window : q <= n => q \in old
    <2>1. CASE chat(R, K, A, G)!Cardinality(window) > RowCap
      <3>1. n = chat(R, K, A, G)!Newest(old)
        BY <1>5, <2>1 DEF chat!Advance
      <3>2. n \in old /\ n \in 0..Last
        BY <1>1, <1>6, <3>1, NewestOf
      <3>3. n \in window
        BY <1>5, <3>2
      <3>4. n <= alerts[h].tops[r]
        BY <1>3, <3>3
      <3> QED
        BY <1>5, <3>2, <3>4
    <2>2. CASE ~(chat(R, K, A, G)!Cardinality(window) > RowCap)
      <3>1. n = alerts[h].tops[r] /\ old = window
        BY <1>5, <2>2 DEF chat!Advance
      <3> QED
        BY <1>2, <3>1
    <2> QED
      BY <2>1, <2>2
  <1>8. ASSUME NEW q \in Heard(r, n) PROVE q \in Told \cup {p \in old : ~chat(R, K, A, G)!Own(p)}
    <2>1. q \in 1..Last /\ rows[q].room = r /\ q <= n /\ rows[q].kind # "presence" /\ rows[q].kind # "own"
      BY <1>1, <1>8 DEF Heard, InRoom
    <2>2. CASE q <= alerts[h].from[r]
      <3>1. q <= alertCursor[r]
        BY <1>2, <2>1, <2>2
      <3>2. q \in Heard(r, alertCursor[r])
        BY <1>1, <2>1, <3>1 DEF Heard, InRoom
      <3> QED
        BY <3>2 DEF ChatInv, CursorsInv
    <2>3. CASE q <= cut
      BY <1>1, <2>1, <2>3 DEF Told
    <2>4. CASE q > alerts[h].from[r] /\ q > cut
      <3>1. q <= alerts[h].tops[r]
        BY <1>1, <1>2, <1>7, <2>1
      <3>2. q \in window
        BY <1>3, <2>1, <2>4, <3>1
      <3>3. q \in old
        BY <1>7, <2>1, <3>2
      <3> QED
        BY <2>1, <3>3 DEF chat!Own
    <2> QED
      BY <1>1, <1>2, <2>1, <2>2, <2>3, <2>4
  <1> QED
    BY <1>5, <1>7, <1>8


LEMMA ChatScans ==
  ASSUME NEW R, NEW K, NEW A, NEW G, ChatInv(R, A, G), NEW h \in A, NEW r \in R, chat(R, K, A, G)!AlertScan(h, r)
  PROVE  ChatInv(R, A, G)'
  <1>1. UNCHANGED <<rows, cut, alertCursor, readCursor, reads, emitted, rendered, passed>>
    BY DEF chat!AlertScan, chat!told, chat!journal
  <1>2. RowsInv(R)' /\ Grows(R) /\ Last' = Last
    BY <1>1, JournalStands
  <1>3. CursorsInv(R)'
    BY <1>1, <1>2, CursorsStay DEF ChatInv
  <1>4. PICK window, n, b :
          /\ window = chat(R, K, A, G)!AddressedRows(h, r)
          /\ n = chat(R, K, A, G)!Advance(window, alerts[h].tops[r])
          /\ b = alerts[h]
    OBVIOUS
  <1>5. b.at = "scan" /\ AlertOf(R, b)
    BY <1>4 DEF chat!AlertScan, ChatInv, AlertsInv
  <1>6. /\ b \in ScanAlert(R)
        /\ \A r2 \in R : b.from[r2] <= alertCursor[r2]
        /\ \A r2 \in R : b.advance[r2] # 0 => Heard(r2, b.advance[r2]) \subseteq Told \cup b.found[r2]
    BY <1>5 DEF AlertOf, NoCall, CursorAlert, AckAlert
  <1>7. PICK old, found : old = chat(R, K, A, G)!Oldest(window, RowCap) /\ found = {q \in old : ~chat(R, K, A, G)!Own(q)}
    OBVIOUS
  <1>8. found \in SUBSET Nat /\ n \in 0..Last
    <2>1. Last \in Nat /\ window \in SUBSET (1..Last)
      BY <1>4 DEF chat!AddressedRows, chat!Chat, chat!Retained, chat!Seqs, ChatInv, RowsInv
    <2>2. PICK top \in Nat : top = Last /\ window \in SUBSET (1..top)
      BY <2>1
    <2>3. old \in SUBSET (1..top)
      <3>1. OldestIn(old, window, RowCap)
        BY <1>7, <2>2, Limits, OldestOf
      <3> QED
        BY <2>2, <3>1 DEF OldestIn
    <2>4. n \in 0..top
      <3>1. b.tops[r] \in 0..top
        BY <1>6, <2>2 DEF ScanAlert
      <3>2. chat(R, K, A, G)!Newest(old) \in 0..top
        BY <2>3, NewestOf
      <3> QED
        BY <1>4, <1>7, <3>1, <3>2 DEF chat!Advance
    <2> QED
      BY <1>7, <2>2, <2>3, <2>4
  <1>9. n # 0 => Heard(r, n) \subseteq Told \cup found
    BY <1>4, <1>6, <1>7, ScanCovers
  <1>10. PICK a : a = [b EXCEPT !.rooms = @ \ {r}, !.found = [b.found EXCEPT ![r] = found],
                                !.advance = [b.advance EXCEPT ![r] = n]]
    OBVIOUS
  <1>11. alerts' = [alerts EXCEPT ![h] = a]
    <2>1. alerts' = [alerts EXCEPT ![h].rooms = @ \ {r}, ![h].found[r] = found, ![h].advance[r] = n]
      BY <1>4, <1>7 DEF chat!AlertScan, chat!WindowEnd
    <2>2. DOMAIN alerts = A
      BY DEF ChatInv, AlertsInv
    <2> QED
      BY <1>4, <1>10, <2>1, <2>2
  <1>12. /\ a.from = b.from /\ a.tops = b.tops /\ a.at = b.at
         /\ a.found = [b.found EXCEPT ![r] = found]
         /\ a.advance = [b.advance EXCEPT ![r] = n]
         /\ a.rooms = b.rooms \ {r}
         /\ a \in ScanAlert(R)
    BY <1>6, <1>8, <1>10 DEF ScanAlert
  <1>13. ASSUME NEW r2 \in R, a.advance[r2] # 0 PROVE Heard(r2, a.advance[r2]) \subseteq Told \cup a.found[r2]
    <2>1. DOMAIN b.found = R /\ DOMAIN b.advance = R
      BY <1>6 DEF ScanAlert
    <2>2. CASE r2 = r
      BY <1>9, <1>12, <1>13, <2>1, <2>2
    <2>3. CASE r2 # r
      BY <1>6, <1>12, <1>13, <2>1, <2>3
    <2> QED
      BY <2>2, <2>3
  <1>14. AlertOf(R, a)
    BY <1>6, <1>12, <1>13 DEF AlertOf
  <1>15. \E c : alerts' = [alerts EXCEPT ![h] = c] /\ AlertOf(R, c)'
    BY <1>2, <1>3, <1>11, <1>14, AlertStays DEF ChatInv
  <1> QED
    BY <1>1, <1>2, <1>3, <1>15, AlertsStay, ReadsStay DEF ChatInv

(* A cursor never moves back, and an alert's advance is used once. *)
LEMMA ChatAdvances ==
  ASSUME NEW R, NEW K, NEW A, NEW G, ChatInv(R, A, G), NEW h \in A, NEW r \in R,
         chat(R, K, A, G)!Bank(h, r) \/ chat(R, K, A, G)!AlertAck(h, r)
  PROVE  ChatInv(R, A, G)'
  <1>1. PICK b : b = alerts[h]
    OBVIOUS
  <1>2. /\ UNCHANGED <<rows, cut, readCursor, reads, emitted, rendered, passed>>
        /\ b.at \in {"scan", "ack"} /\ b.advance[r] # 0 /\ (b.at = "scan" => b.found[r] = {})
        /\ alertCursor' = [alertCursor EXCEPT ![r] = chat(R, K, A, G)!Advanced(@, b.advance[r])]
        /\ alerts' = [alerts EXCEPT ![h].advance[r] = 0]
    BY <1>1 DEF chat!Bank, chat!AlertAck, chat!told, chat!journal
  <1>3. AlertOf(R, b) /\ DOMAIN alerts = A
    BY <1>1 DEF ChatInv, AlertsInv
  <1>4. b \in ScanAlert(R) \/ b \in AckAlert(R)
    BY <1>2, <1>3 DEF AlertOf, NoCall, CursorAlert
  <1>5. b.advance \in [R -> 0..Last] /\ Heard(r, b.advance[r]) \subseteq Told
    <2>1. ASSUME b \in ScanAlert(R) PROVE b.advance \in [R -> 0..Last] /\ b.at = "scan"
      BY <2>1 DEF ScanAlert
    <2>2. ASSUME b \in AckAlert(R) PROVE b.advance \in [R -> 0..Last] /\ b.at = "ack"
      BY <2>2 DEF AckAlert
    <2>3. ASSUME b \in ScanAlert(R) PROVE Heard(r, b.advance[r]) \subseteq Told
      <3>1. b # NoCall /\ b \notin CursorAlert(R) /\ b \notin AckAlert(R)
        BY <2>1, <2>3 DEF NoCall, CursorAlert, AckAlert
      <3> QED
        BY <1>2, <1>3, <2>1, <2>3, <3>1 DEF AlertOf
    <2>4. ASSUME b \in AckAlert(R) PROVE Heard(r, b.advance[r]) \subseteq Told
      <3>1. b # NoCall /\ b \notin CursorAlert(R) /\ b \notin ScanAlert(R)
        BY <2>2, <2>4 DEF NoCall, CursorAlert, ScanAlert
      <3> QED
        BY <1>2, <1>3, <2>2, <2>4, <3>1 DEF AlertOf
    <2> QED
      BY <1>4, <2>1, <2>2, <2>3, <2>4
  <1>6. Last \in Nat /\ alertCursor \in [R -> 0..Last]
    BY DEF ChatInv, CursorsInv, RowsInv
  <1>7. PICK n : n = chat(R, K, A, G)!Advanced(alertCursor[r], b.advance[r])
    OBVIOUS
  <1>8. n \in 0..Last /\ alertCursor[r] <= n /\ (n = alertCursor[r] \/ n = b.advance[r])
    BY <1>5, <1>6, <1>7 DEF chat!Advanced
  <1>9. alertCursor' = [alertCursor EXCEPT ![r] = n]
    BY <1>2, <1>7
  <1>10. RowsInv(R)' /\ Grows(R) /\ Last' = Last
    <2>1. \A r2 \in R : alertCursor[r2] <= alertCursor'[r2] \/ alertCursor'[r2] = alertCursor[r2]
      BY <1>6, <1>8, <1>9
    <2> QED
      BY <1>2, <2>1, JournalStands
  <1>11. Heard(r, n) \subseteq Told
    BY <1>5, <1>8 DEF ChatInv, CursorsInv
  <1>12. Heard(r, n)' \subseteq Told'
    BY <1>8, <1>10, <1>11, HeardStays DEF ChatInv
  <1>13. CursorsInv(R)'
    BY <1>2, <1>8, <1>9, <1>10, <1>12, CursorsStay DEF ChatInv
  <1>14. PICK a : a = [b EXCEPT !.advance = [b.advance EXCEPT ![r] = 0]]
    OBVIOUS
  <1>15. alerts' = [alerts EXCEPT ![h] = a]
    BY <1>1, <1>2, <1>3, <1>14
  <1>16. AlertOf(R, a)
    <2>1. a.advance \in [R -> 0..Last] /\ a.advance[r] = 0 /\ \A r2 \in R : r2 # r => a.advance[r2] = b.advance[r2]
      <3>1. a.advance = [b.advance EXCEPT ![r] = 0]
        <4>1. "advance" \in DOMAIN b
          BY <1>4 DEF ScanAlert, AckAlert
        <4> QED
          BY <1>14, <4>1
      <3>2. 0 \in 0..Last
        BY <1>6
      <3> QED
        BY <1>5, <3>1, <3>2
    <2>2. CASE b.at = "scan"
      <3>1. b \in ScanAlert(R) /\ b # NoCall /\ b \notin CursorAlert(R) /\ b \notin AckAlert(R)
        BY <1>4, <2>2 DEF NoCall, CursorAlert, ScanAlert, AckAlert
      <3>2. a \in ScanAlert(R) /\ a.from = b.from /\ a.found = b.found
        BY <1>14, <2>1, <3>1 DEF ScanAlert
      <3>3. /\ \A r2 \in R : b.from[r2] <= alertCursor[r2]
            /\ \A r2 \in R : b.advance[r2] # 0 => Heard(r2, b.advance[r2]) \subseteq Told \cup b.found[r2]
        BY <1>3, <3>1 DEF AlertOf
      <3>4. \A r2 \in R : a.advance[r2] # 0 => Heard(r2, a.advance[r2]) \subseteq Told \cup a.found[r2]
        BY <2>1, <3>2, <3>3
      <3> QED
        BY <3>2, <3>3, <3>4 DEF AlertOf
    <2>3. CASE b.at = "ack"
      <3>1. b \in AckAlert(R) /\ b # NoCall /\ b \notin CursorAlert(R) /\ b \notin ScanAlert(R)
        BY <1>4, <2>3 DEF NoCall, CursorAlert, ScanAlert, AckAlert
      <3>2. a \in AckAlert(R)
        BY <1>14, <2>1, <3>1 DEF AckAlert
      <3>3. \A r2 \in R : b.advance[r2] # 0 => Heard(r2, b.advance[r2]) \subseteq Told
        BY <1>3, <3>1 DEF AlertOf
      <3>4. \A r2 \in R : a.advance[r2] # 0 => Heard(r2, a.advance[r2]) \subseteq Told
        BY <2>1, <3>3
      <3> QED
        BY <3>2, <3>4 DEF AlertOf
    <2> QED
      BY <1>2, <2>2, <2>3
  <1>17. \E c : alerts' = [alerts EXCEPT ![h] = c] /\ AlertOf(R, c)'
    BY <1>10, <1>13, <1>15, <1>16, AlertStays DEF ChatInv
  <1> QED
    BY <1>2, <1>10, <1>13, <1>17, AlertsStay, ReadsStay DEF ChatInv


(* A notice is written before it is acked: what its scans found is told.   *)
LEMMA ChatEmits ==
  ASSUME NEW R, NEW K, NEW A, NEW G, ChatInv(R, A, G), NEW h \in A, chat(R, K, A, G)!Emit(h)
  PROVE  ChatInv(R, A, G)'
  <1>1. PICK b : b = alerts[h]
    OBVIOUS
  <1>2. PICK a : a = [at |-> "ack", advance |-> b.advance]
    OBVIOUS
  <1>3. /\ UNCHANGED <<rows, cut, alertCursor, readCursor, reads, rendered, passed>>
        /\ b.at = "scan" /\ alerts' = [alerts EXCEPT ![h] = a]
        /\ emitted' = emitted \cup UNION {b.found[r] : r \in R}
    BY <1>1, <1>2 DEF chat!Emit, chat!Scanned, chat!journal
  <1>4. RowsInv(R)' /\ Grows(R) /\ Last' = Last
    BY <1>3, JournalStands
  <1>5. CursorsInv(R)'
    BY <1>3, <1>4, CursorsStay DEF ChatInv
  <1>6. AlertOf(R, b)
    BY <1>1 DEF ChatInv, AlertsInv
  <1>7. b \in ScanAlert(R) /\ \A r \in R : b.advance[r] # 0 => Heard(r, b.advance[r]) \subseteq Told \cup b.found[r]
    BY <1>3, <1>6 DEF AlertOf, NoCall, CursorAlert, AckAlert
  <1>8. b.advance \in [R -> 0..Last]
    BY <1>7 DEF ScanAlert
  <1>9. a \in AckAlert(R)' /\ a.advance = b.advance
    BY <1>2, <1>4, <1>8 DEF AckAlert
  <1>10. ASSUME NEW r \in R, a.advance[r] # 0 PROVE Heard(r, a.advance[r])' \subseteq Told'
    <2>1. PICK n \in 0..Last : n = a.advance[r] /\ n = b.advance[r] /\ n # 0
      BY <1>8, <1>9, <1>10
    <2>2. Heard(r, n)' = Heard(r, n) /\ Told \subseteq Told'
      BY <1>4, HeardStays DEF ChatInv
    <2>3. Heard(r, n) \subseteq Told \cup b.found[r]
      BY <1>7, <2>1
    <2>4. b.found[r] \subseteq Told'
      BY <1>3 DEF Told
    <2>5. Heard(r, n)' \subseteq Told'
      BY <2>2, <2>3, <2>4
    <2> QED
      BY <2>1, <2>5
  <1>11. AlertOf(R, a)'
    BY <1>9, <1>10 DEF AlertOf
  <1> QED
    BY <1>3, <1>4, <1>5, <1>11, AlertsStay, ReadsStay DEF ChatInv

-----------------------------------------------------------------------------
LEMMA ChatReadBegins ==
  ASSUME NEW R, NEW K, NEW A, NEW G, ChatInv(R, A, G), NEW g \in G,
         \/ \E r \in R : chat(R, K, A, G)!ReadCursor(g, r)
         \/ chat(R, K, A, G)!ReadHorizon(g) \/ chat(R, K, A, G)!ReadFails(g) \/ chat(R, K, A, G)!Answer(g)
  PROVE  ChatInv(R, A, G)'
  <1>1. UNCHANGED <<rows, cut, alertCursor, readCursor, alerts, emitted, rendered, passed>>
    BY DEF chat!ReadCursor, chat!ReadHorizon, chat!ReadFails, chat!Answer, chat!told, chat!journal
  <1>2. RowsInv(R)' /\ Grows(R) /\ Last' = Last
    BY <1>1, JournalStands
  <1>3. CursorsInv(R)'
    BY <1>1, <1>2, CursorsStay DEF ChatInv
  <1>4. ASSUME NEW r \in R, chat(R, K, A, G)!ReadCursor(g, r)
        PROVE  \E c : reads' = [reads EXCEPT ![g] = c] /\ ReadOf(R, c)
    <2>1. PICK c : c = [at |-> "horizon", room |-> r, base |-> readCursor[r]]
      OBVIOUS
    <2>2. reads' = [reads EXCEPT ![g] = c]
      BY <1>4, <2>1 DEF chat!ReadCursor
    <2>3. readCursor[r] \in Nat
      BY DEF ChatInv, CursorsInv, RowsInv
    <2>4. c \in HorizonRead(R) /\ c.base = readCursor[r] /\ c.room = r
      BY <2>1, <2>3 DEF HorizonRead
    <2>5. c.base <= readCursor[c.room]
      BY <2>3, <2>4
    <2> QED
      BY <2>2, <2>4, <2>5 DEF ReadOf
  <1>5. ASSUME chat(R, K, A, G)!ReadHorizon(g)
        PROVE  \E c : reads' = [reads EXCEPT ![g] = c] /\ ReadOf(R, c)
    <2>1. PICK b : b = reads[g]
      OBVIOUS
    <2>2. b.at = "horizon" /\ ReadOf(R, b)
      BY <1>5, <2>1 DEF chat!ReadHorizon, ChatInv, ReadsInv
    <2>3. b \in HorizonRead(R) /\ b.base <= readCursor[b.room]
      BY <2>2 DEF ReadOf, NoCall, RowsRead, AckRead, AnswerRead, HorizonRead
    <2>4. PICK gap : gap = (b.base > 0 /\ b.base < horizon[b.room])
      OBVIOUS
    <2>5. PICK c : c = [at |-> "rows", room |-> b.room, base |-> b.base, gap |-> gap]
      OBVIOUS
    <2>6. reads' = [reads EXCEPT ![g] = c]
      BY <1>5, <2>1, <2>4, <2>5 DEF chat!ReadHorizon
    <2>7. gap \in BOOLEAN
      BY <2>4
    <2>8. c \in RowsRead(R) /\ c.base = b.base /\ c.room = b.room
      BY <2>3, <2>5, <2>7 DEF HorizonRead, RowsRead
    <2> QED
      BY <2>3, <2>6, <2>8 DEF ReadOf
  <1>6. ASSUME chat(R, K, A, G)!ReadFails(g) \/ chat(R, K, A, G)!Answer(g)
        PROVE  \E c : reads' = [reads EXCEPT ![g] = c] /\ ReadOf(R, c)
    BY <1>6 DEF chat!ReadFails, chat!Answer, chat!Idle, ReadOf, NoCall
  <1>7. \E c : reads' = [reads EXCEPT ![g] = c] /\ ReadOf(R, c)
    BY <1>4, <1>5, <1>6
  <1>8. \E c : reads' = [reads EXCEPT ![g] = c] /\ ReadOf(R, c)'
    BY <1>2, <1>3, <1>7, ReadStays DEF ChatInv
  <1> QED
    BY <1>1, <1>2, <1>3, <1>8, AlertsStay, ReadsStay DEF ChatInv

Unread(r, base) == {q \in {p \in DOMAIN rows : p > cut /\ rows[p].room = r} : q > base}

(* A read of m rows of a page of the room r, up to the row n. *)
Composes(R, K, A, G, r, base, m, page, kept, n) ==
  /\ r \in R /\ base \in Nat /\ base <= readCursor[r] /\ m \in Nat
  /\ page = chat(R, K, A, G)!Oldest(Unread(r, base), PageSize)
  /\ kept = chat(R, K, A, G)!Oldest(page, m) /\ n = chat(R, K, A, G)!Newest(kept)

(* The rows of an answer: those of the room up to where it will move the   *)
(* cursor are behind the cursor it began at, taken by retention, or in it. *)
LEMMA ReadCovers ==
  ASSUME NEW R, NEW K, NEW A, NEW G, ChatInv(R, A, G), NEW r, NEW base, NEW m, NEW page, NEW kept, NEW n,
         Composes(R, K, A, G, r, base, m, page, kept, n)
  PROVE  kept \in SUBSET Nat /\ n \in 0..Last /\ InRoom(r, n) \subseteq Seen \cup kept
  <1> /\ r \in R /\ base \in Nat /\ base <= readCursor[r] /\ m \in Nat
      /\ page = chat(R, K, A, G)!Oldest(Unread(r, base), PageSize)
      /\ kept = chat(R, K, A, G)!Oldest(page, m) /\ n = chat(R, K, A, G)!Newest(kept)
    BY DEF Composes
  <1>1. Last \in Nat /\ DOMAIN rows = 1..Last /\ cut \in Nat /\ readCursor[r] \in Nat
    BY DEF ChatInv, RowsInv, CursorsInv
  <1>2. PICK S : S = Unread(r, base) /\ \A q : q \in S <=> q \in 1..Last /\ q > cut /\ rows[q].room = r /\ q > base
    <2>1. \A q : q \in Unread(r, base) <=> q \in 1..Last /\ q > cut /\ rows[q].room = r /\ q > base
      BY <1>1 DEF Unread
    <2> QED
      BY <2>1
  <1>3. PICK top \in Nat : top = Last /\ S \in SUBSET (1..top)
    BY <1>1, <1>2
  <1>4. OldestIn(page, S, PageSize)
    BY <1>2, <1>3, Limits, OldestOf
  <1>5. page \in SUBSET (1..top)
    BY <1>3, <1>4 DEF OldestIn
  <1>6. OldestIn(kept, page, m)
    BY <1>5, OldestOf
  <1>7. kept \in SUBSET (1..top)
    BY <1>5, <1>6 DEF OldestIn
  <1>8. /\ n \in 0..top /\ (kept # {} => n \in kept) /\ (kept = {} => n = 0)
    BY <1>7, NewestOf
  <1>9. ASSUME NEW q \in InRoom(r, n) PROVE q \in Seen \cup kept
    <2>1. q \in 1..Last /\ rows[q].room = r /\ q <= n
      BY <1>1 DEF InRoom
    <2>2. n \in kept /\ n \in page /\ n \in S
      <3>1. n # 0
        BY <1>8, <2>1
      <3> QED
        BY <1>4, <1>6, <1>8, <3>1 DEF OldestIn
    <2>3. CASE q <= base
      <3>1. q \in InRoom(r, readCursor[r])
        BY <1>1, <2>1, <2>3 DEF InRoom
      <3> QED
        BY <3>1 DEF ChatInv, CursorsInv
    <2>4. CASE q <= cut
      BY <1>1, <2>1, <2>4 DEF Seen
    <2>5. CASE q > base /\ q > cut
      <3>1. q \in S
        BY <1>2, <2>1, <2>5
      <3>2. q \in page
        BY <1>4, <2>1, <2>2, <3>1 DEF OldestIn
      <3>3. q \in kept
        BY <1>6, <2>1, <2>2, <3>2 DEF OldestIn
      <3> QED
        BY <3>3
    <2> QED
      BY <1>1, <2>1, <2>3, <2>4, <2>5
  <1> QED
    BY <1>3, <1>7, <1>8, <1>9


LEMMA ChatReadsRows ==
  ASSUME NEW R, NEW K, NEW A, NEW G, ChatInv(R, A, G), NEW g \in G, chat(R, K, A, G)!ReadRows(g)
  PROVE  ChatInv(R, A, G)'
  <1>1. PICK b : b = reads[g]
    OBVIOUS
  <1>2. b.at = "rows" /\ ReadOf(R, b)
    BY <1>1 DEF chat!ReadRows, ChatInv, ReadsInv
  <1>3. b \in RowsRead(R) /\ b.base <= readCursor[b.room]
    BY <1>2 DEF ReadOf, NoCall, HorizonRead, RowsRead, AckRead, AnswerRead
  <1>4. b.base \in Nat /\ b.room \in R /\ b.gap \in BOOLEAN
    BY <1>3 DEF RowsRead
  <1>5. PICK page : page = chat(R, K, A, G)!Oldest({q \in chat(R, K, A, G)!Retained(b.room) : q > b.base}, PageSize)
    OBVIOUS
  <1>6. PICK m \in 0..chat(R, K, A, G)!Cardinality(page) :
          LET kept == chat(R, K, A, G)!Oldest(page, m)
          IN  /\ rendered' = rendered \cup kept
              /\ reads' = [reads EXCEPT ![g] =
                   [at |-> "ack", room |-> b.room, base |-> b.base, gap |-> b.gap,
                    kept |-> kept, upTo |-> chat(R, K, A, G)!Newest(kept)]]
    <2>1. \E m \in 0..chat(R, K, A, G)!Cardinality(page) :
            LET kept == chat(R, K, A, G)!Oldest(page, m)
            IN  /\ rendered' = rendered \cup kept
                /\ reads' = [reads EXCEPT ![g] =
                     [at |-> "ack", room |-> @.room, base |-> @.base, gap |-> @.gap,
                      kept |-> kept, upTo |-> chat(R, K, A, G)!Newest(chat(R, K, A, G)!Covered(page, kept))]]
      <3>1. page = chat(R, K, A, G)!Oldest({q \in chat(R, K, A, G)!Retained(reads[g].room) : q > reads[g].base}, PageSize)
        BY <1>1, <1>5
      <3> QED
        BY <3>1 DEF chat!ReadRows
    <2> QED
      BY <1>1, <2>1 DEF chat!Covered
  <1>7. PICK kept, n : kept = chat(R, K, A, G)!Oldest(page, m) /\ n = chat(R, K, A, G)!Newest(kept)
    OBVIOUS
  <1>8. PICK c : c = [at |-> "ack", room |-> b.room, base |-> b.base, gap |-> b.gap, kept |-> kept, upTo |-> n]
    OBVIOUS
  <1>9. /\ UNCHANGED <<rows, cut, alertCursor, readCursor, alerts, emitted, passed>>
        /\ rendered' = rendered \cup kept /\ reads' = [reads EXCEPT ![g] = c]
    BY <1>6, <1>7, <1>8 DEF chat!ReadRows, chat!journal
  <1>10. RowsInv(R)' /\ Grows(R) /\ Last' = Last
    BY <1>9, JournalStands
  <1>11. CursorsInv(R)'
    BY <1>9, <1>10, CursorsStay DEF ChatInv
  <1>12. PICK r, base : r = b.room /\ base = b.base /\ m \in Nat
    BY <1>6
  <1>13. kept \in SUBSET Nat /\ n \in 0..Last /\ InRoom(r, n) \subseteq Seen \cup kept
    <2>1. page = chat(R, K, A, G)!Oldest(Unread(r, base), PageSize)
      <3>1. {q \in chat(R, K, A, G)!Retained(r) : q > base} = Unread(r, base)
        BY DEF Unread, chat!Retained, chat!Seqs
      <3> QED
        BY <1>5, <1>12, <3>1
    <2>2. r \in R /\ base \in Nat /\ base <= readCursor[r] /\ m \in Nat
      BY <1>3, <1>4, <1>12
    <2>3. kept = chat(R, K, A, G)!Oldest(page, m) /\ n = chat(R, K, A, G)!Newest(kept)
      BY <1>7
    <2>4. Composes(R, K, A, G, r, base, m, page, kept, n)
      BY <2>1, <2>2, <2>3, Zenon DEF Composes
    <2>5. ChatInv(R, A, G)
      OBVIOUS
    <2> QED
      BY <2>4, <2>5, ReadCovers, Zenon
  <1>14. c \in AckRead(R)' /\ c.room = r /\ c.upTo = n
    BY <1>4, <1>8, <1>10, <1>12, <1>13 DEF AckRead
  <1>15. InRoom(r, n)' \subseteq Seen'
    <2>1. InRoom(r, n)' = InRoom(r, n) /\ Seen \subseteq Seen'
      BY <1>10, <1>13, HeardStays DEF ChatInv
    <2>2. kept \subseteq Seen'
      BY <1>9 DEF Seen
    <2> QED
      BY <1>13, <2>1, <2>2
  <1>16. ReadOf(R, c)'
    BY <1>14, <1>15 DEF ReadOf, InRoom
  <1> QED
    BY <1>9, <1>10, <1>11, <1>16, AlertsStay, ReadsStay DEF ChatInv

(* The cursor of a read moves to where its answer ends, or stays. *)
LEMMA ChatReadAcks ==
  ASSUME NEW R, NEW K, NEW A, NEW G, ChatInv(R, A, G), NEW g \in G, chat(R, K, A, G)!Ack(g)
  PROVE  ChatInv(R, A, G)'
  <1>1. PICK b : b = reads[g]
    OBVIOUS
  <1>2. b.at = "ack" /\ ReadOf(R, b)
    BY <1>1 DEF chat!Ack, ChatInv, ReadsInv
  <1>3. b \in AckRead(R) /\ InRoom(b.room, b.upTo) \subseteq Seen
    BY <1>2 DEF ReadOf, NoCall, HorizonRead, RowsRead, AckRead, AnswerRead
  <1>4. b.room \in R /\ b.upTo \in 0..Last /\ b.kept \in SUBSET Nat
    BY <1>3 DEF AckRead
  <1>5. PICK c : c = [at |-> "answer", kept |-> b.kept]
    OBVIOUS
  <1>6. PICK r \in R, u \in 0..Last : r = b.room /\ u = b.upTo
    BY <1>4
  <1>7. PICK n : n = chat(R, K, A, G)!Advanced(readCursor[r], u)
    OBVIOUS
  <1>8. /\ UNCHANGED <<rows, cut, alertCursor, alerts, emitted, rendered, passed>>
        /\ reads' = [reads EXCEPT ![g] = c]
        /\ readCursor' = readCursor \/ readCursor' = [readCursor EXCEPT ![r] = n]
    BY <1>1, <1>5, <1>6, <1>7 DEF chat!Ack, chat!journal, chat!told
  <1>9. Last \in Nat /\ readCursor \in [R -> Nat]
    BY DEF ChatInv, CursorsInv, RowsInv
  <1>10. n \in Nat /\ readCursor[r] <= n /\ (n = readCursor[r] \/ n = u)
    BY <1>6, <1>7, <1>9 DEF chat!Advanced
  <1>11. RowsInv(R)' /\ Grows(R) /\ Last' = Last
    <2>1. \A r2 \in R : readCursor[r2] <= readCursor'[r2] \/ readCursor'[r2] = readCursor[r2]
      BY <1>8, <1>9, <1>10
    <2> QED
      BY <1>8, <2>1, JournalStands
  <1>12. InRoom(r, u)' \subseteq Seen'
    BY <1>3, <1>6, <1>11, HeardStays DEF ChatInv
  <1>13. \/ readCursor' = readCursor
         \/ readCursor' = [readCursor EXCEPT ![r] = u] /\ u \in Nat /\ u <= Last
    BY <1>8, <1>9, <1>10
  <1>14. CursorsInv(R)'
    BY <1>8, <1>11, <1>12, <1>13, CursorsStay DEF ChatInv
  <1>15. ReadOf(R, c)'
    BY <1>4, <1>5 DEF ReadOf, AnswerRead
  <1> QED
    BY <1>8, <1>11, <1>14, <1>15, AlertsStay, ReadsStay DEF ChatInv

(* chat_ack: what a session says it has handled is its own doing, of rows  *)
(* that are and of rows to come.                                           *)
LEMMA ChatStepsOver ==
  ASSUME NEW R, NEW K, NEW A, NEW G, ChatInv(R, A, G), NEW r \in R, NEW k \in Nat,
         chat(R, K, A, G)!ChatAck(r, k)
  PROVE  ChatInv(R, A, G)'
  <1>1. Last \in Nat /\ readCursor \in [R -> Nat] /\ passed \in [R -> Nat] /\ DOMAIN rows = 1..Last
    BY DEF ChatInv, CursorsInv, RowsInv
  <1>2. PICK n : n = chat(R, K, A, G)!Advanced(passed[r], k)
    OBVIOUS
  <1>3. n \in Nat /\ k <= n /\ passed[r] <= n
    BY <1>1, <1>2 DEF chat!Advanced
  <1>4. /\ UNCHANGED <<rows, cut, alertCursor, alerts, reads, emitted, rendered>> /\ k > readCursor[r]
        /\ passed' = [passed EXCEPT ![r] = n] /\ readCursor' = [readCursor EXCEPT ![r] = k]
    BY <1>1, <1>2 DEF chat!ChatAck, chat!Advanced, chat!journal
  <1>5. passed' \in [R -> Nat] /\ passed'[r] = n /\ \A r2 \in R : passed[r2] <= passed'[r2]
    BY <1>1, <1>3, <1>4
  <1>6. RowsInv(R)' /\ Grows(R) /\ Last' = Last
    <2>1. Last' = Last
      BY <1>4 DEF Last
    <2>2. \A r2 \in R : /\ alertCursor[r2] \in Nat /\ alertCursor'[r2] = alertCursor[r2]
                        /\ readCursor[r2] <= readCursor'[r2]
      BY <1>1, <1>4 DEF ChatInv, CursorsInv
    <2> QED
      BY <1>1, <1>4, <1>5, <2>1, <2>2 DEF ChatInv, RowsInv, Grows
  <1>7. InRoom(r, k)' \subseteq Seen'
    <2> SUFFICES ASSUME NEW q \in InRoom(r, k)' PROVE q \in Seen'
      OBVIOUS
    <2>1. q \in 1..Last /\ q \in DOMAIN rows' /\ rows'[q].room = r /\ q <= k
      BY <1>1, <1>4 DEF InRoom
    <2>2. q <= passed'[r]
      BY <1>1, <1>3, <1>5, <2>1
    <2> QED
      BY <2>1, <2>2 DEF Seen, Acked
  <1>8. CursorsInv(R)'
    <2>1. k <= passed'[r]
      BY <1>3, <1>5
    <2> QED
      BY <1>4, <1>6, <1>7, <2>1, CursorsStay DEF ChatInv
  <1> QED
    BY <1>4, <1>6, <1>8, AlertsStay, ReadsStay DEF ChatInv

-----------------------------------------------------------------------------
LEMMA ChatInit == ASSUME NEW R, NEW K, NEW A, NEW G, chat(R, K, A, G)!Init PROVE ChatInv(R, A, G)
  <1>1. /\ rows = <<>> /\ cut = 0 /\ alertCursor = [r \in R |-> 0] /\ readCursor = [r \in R |-> 0]
        /\ alerts = [h \in A |-> NoCall] /\ reads = [g \in G |-> NoCall] /\ passed = [r \in R |-> 0]
    BY DEF chat!Init, chat!Idle, NoCall
  <1>2. DOMAIN rows = {} /\ Last = 0
    BY <1>1, FS_EmptySet DEF Last
  <1>3. RowsInv(R)
    BY <1>1, <1>2 DEF RowsInv
  <1>4. CursorsInv(R)
    BY <1>1, <1>2 DEF CursorsInv, Heard, InRoom
  <1>5. AlertsInv(R, A) /\ ReadsInv(R, G)
    BY <1>1 DEF AlertsInv, ReadsInv, AlertOf, ReadOf
  <1> QED
    BY <1>3, <1>4, <1>5 DEF ChatInv

LEMMA ChatStands == ASSUME NEW R, NEW A, NEW G, ChatInv(R, A, G), UNCHANGED onlyChat PROVE ChatInv(R, A, G)'
  <1>1. UNCHANGED <<rows, cut, alertCursor, readCursor, alerts, reads, emitted, rendered, passed>>
    BY DEF onlyChat
  <1>2. RowsInv(R)' /\ Grows(R) /\ Last' = Last
    BY <1>1, JournalStands
  <1>3. CursorsInv(R)'
    BY <1>1, <1>2, CursorsStay DEF ChatInv
  <1> QED
    BY <1>1, <1>2, <1>3, AlertsStay, ReadsStay DEF ChatInv

LEMMA ChatStep ==
  ASSUME NEW R, NEW K, NEW A, NEW G, ChatInv(R, A, G), chat(R, K, A, G)!Next
  PROVE  ChatInv(R, A, G)'
  <1>1. CASE \E r \in R, kind \in K : chat(R, K, A, G)!Append(r, kind)
    BY <1>1, ChatAppends
  <1>2. CASE \E k \in 1..MaxSeq : chat(R, K, A, G)!Trim(k)
    BY <1>2, ChatTrims
  <1>3. CASE \E h \in A : chat(R, K, A, G)!AlertStep(h)
    <2>1. PICK h \in A : chat(R, K, A, G)!AlertStep(h)
      BY <1>3
    <2> QED
      BY <2>1, ChatAlertBegins, ChatScans, ChatAdvances, ChatEmits DEF chat!AlertStep
  <1>4. CASE \E g \in G : chat(R, K, A, G)!ReadStep(g)
    <2>1. PICK g \in G : chat(R, K, A, G)!ReadStep(g)
      BY <1>4
    <2>2. CASE \E r \in R : \E k \in 1..MaxSeq : chat(R, K, A, G)!ChatAck(r, k)
      <3>1. PICK r \in R, k \in 1..MaxSeq : chat(R, K, A, G)!ChatAck(r, k)
        BY <2>2
      <3>2. k \in Nat
        BY <3>1
      <3> QED
        BY <3>1, <3>2, ChatStepsOver
    <2> QED
      BY <2>1, <2>2, ChatReadBegins, ChatReadsRows, ChatReadAcks DEF chat!ReadStep
  <1> QED
    BY <1>1, <1>2, <1>3, <1>4 DEF chat!Next


(* The parts of the journal. *)
ChatParts ==
  /\ part = "alert" => ChatInv({"r1"}, Two, {})
  /\ part = "alertRooms" => ChatInv(Room, Two, {})
  /\ part = "read" => ChatInv({"r1"}, {}, Two)

LEMMA ChatPartsStep == ASSUME ChatParts, [Next]_vars PROVE ChatParts'
  <1> USE DEF ChatParts
  <1>1. CASE AlertNext
    <2>1. part = "alert" /\ part' = part /\ chat({"r1"}, Kinds, Two, {})!Next
      BY <1>1 DEF AlertNext
    <2>2. ChatInv({"r1"}, Two, {})'
      BY <2>1, ChatStep
    <2> QED
      BY <2>1, <2>2
  <1>2. CASE AlertRoomsNext
    <2>1. part = "alertRooms" /\ part' = part /\ chat(Room, {"named"}, Two, {})!Next
      BY <1>2 DEF AlertRoomsNext
    <2>2. ChatInv(Room, Two, {})'
      BY <2>1, ChatStep
    <2> QED
      BY <2>1, <2>2
  <1>3. CASE ReadNext
    <2>1. part = "read" /\ part' = part /\ chat({"r1"}, {"presence"}, {}, Two)!Next
      BY <1>3 DEF ReadNext
    <2>2. ChatInv({"r1"}, {}, Two)'
      BY <2>1, ChatStep
    <2> QED
      BY <2>1, <2>2
  <1>4. CASE MailNext \/ MailAnewNext \/ ConciergeNext
    BY <1>4 DEF MailNext, MailAnewNext, ConciergeNext
  <1>5. CASE UNCHANGED vars
    <2>1. part' = part /\ UNCHANGED onlyChat
      BY <1>5 DEF vars
    <2>2. \A R, A, G : ChatInv(R, A, G) => ChatInv(R, A, G)'
      BY <2>1, ChatStands
    <2> QED
      BY <2>1, <2>2
  <1> QED
    BY <1>1, <1>2, <1>3, <1>4, <1>5 DEF Next

(* The journal of the chat: a cursor stands where everything before it was *)
(* told, and so do the calls that will move it (internal/buddylist).       *)
THEOREM ChatInvariant == Spec => []ChatParts
  <1>1. Init => ChatParts
    BY ChatInit DEF Init, ChatParts
  <1> QED
    BY <1>1, ChatPartsStep, PTL DEF Spec

(* Addressed and RunAlert: what names the session and is behind its alert  *)
(* cursor was in a notice that was written out, unless retention took it,  *)
(* with any rows, cap, alerts at once and appends between their queries.   *)
THEOREM NamedStayAlerted == Spec => []NamedWasAlerted
  <1>1. ASSUME NEW R, NEW K, NEW A, NEW G, ChatInv(R, A, G) PROVE chat(R, K, A, G)!NamedWasAlerted
    <2> SUFFICES ASSUME NEW q \in DOMAIN rows, q <= alertCursor[rows[q].room],
                        rows[q].kind # "presence", rows[q].kind # "own"
                 PROVE  q \in emitted \cup 1..cut
      BY DEF chat!NamedWasAlerted, chat!Behind, chat!Trimmed, chat!Seqs, chat!Names, chat!Own
    <2>1. PICK r \in R : r = rows[q].room
      BY <1>1 DEF ChatInv, RowsInv
    <2>2. q \in Heard(r, alertCursor[r])
      BY <2>1 DEF Heard, InRoom
    <2> QED
      BY <1>1, <2>2 DEF ChatInv, CursorsInv, Told
  <1>2. ChatParts => NamedWasAlerted
    BY <1>1 DEF ChatParts, NamedWasAlerted
  <1> QED
    BY <1>2, ChatInvariant, PTL

(* chat_read: a row behind the read cursor was composed into an answer,    *)
(* is at or before a seq the session acked by hand, or was taken by        *)
(* retention, with any page size and byte budget, reads at once, acks of   *)
(* any seq, and appends or trims between their queries.                    *)
THEOREM ReadsStayRendered == Spec => []ReadWasRendered
  <1>1. ASSUME NEW R, NEW K, NEW A, NEW G, ChatInv(R, A, G) PROVE chat(R, K, A, G)!ReadWasRendered
    <2> SUFFICES ASSUME NEW q \in DOMAIN rows, q <= readCursor[rows[q].room]
                 PROVE  q \in rendered \cup Acked \cup 1..cut
      BY DEF chat!ReadWasRendered, chat!Behind, chat!Trimmed, chat!Seqs, chat!ByHand, Acked
    <2>1. PICK r \in R : r = rows[q].room
      BY <1>1 DEF ChatInv, RowsInv
    <2>2. q \in InRoom(r, readCursor[r])
      BY <2>1 DEF InRoom
    <2> QED
      BY <1>1, <2>2 DEF ChatInv, CursorsInv, Seen
  <1>2. ChatParts => ReadWasRendered
    BY <1>1 DEF ChatParts, ReadWasRendered
  <1> QED
    BY <1>2, ChatInvariant, PTL


-----------------------------------------------------------------------------
(***************************************************************************)
(* The mail.  The hooks that drain hold the lock from what they read to    *)
(* what they mark; of those of a SessionStart, which take none, a session  *)
(* has one at a time.                                                      *)
(***************************************************************************)
Show(m, s, by) == [m |-> m, s |-> s, by |-> by]
Addressed(m, s) ==
  m \in DOMAIN inbox /\ (inbox[m].to = s \/ (inbox[m].to = "all" /\ s \in inbox[m].audience))

LetterOf(x) == x = [k \in {"to", "audience", "old", "swept", "excused"} |-> x[k]]

NoHook == [at |-> "none", s |-> "none"]
RunOf(a) == a = [k \in {"at", "verb", "s", "msgs"} |-> a[k]]
HelloSteps == {"hello", "helloLook", "helloWrite"}
HookOf(a) ==
  \/ a = NoHook
  \/ /\ RunOf(a) /\ a.at # "none"
     /\ a.at \in HelloSteps => a.verb = "hello"
     /\ \A m \in a.msgs : Addressed(m, a.s)

(* A hook has read what it will write, or has written it. *)
Holds(a) == a.at = "write" \/ a.at = "helloWrite" \/ a.at = "mark"
Greets(a) == a # NoHook /\ a.verb = "hello"
Drains(a) == Holds(a) /\ ~Greets(a)
WayOf(a) == IF a.verb = "hello" THEN "digest" ELSE "drain"
Holding(a, m, s, by) == Holds(a) /\ a.s = s /\ m \in a.msgs /\ WayOf(a) = by

InboxInv ==
  /\ Cardinality(DOMAIN inbox) \in Nat /\ DOMAIN inbox = 1..Cardinality(DOMAIN inbox)
  /\ \A m \in DOMAIN inbox : LetterOf(inbox[m])

HooksInv(H) == DOMAIN hooks = H /\ \A h \in H : HookOf(hooks[h])
LockInv(H) == \A h \in H : Drains(hooks[h]) => lock = h
HellosInv(H) == \A g \in H : \A h \in H : Greets(hooks[g]) /\ Greets(hooks[h]) /\ g # h => hooks[g].s # hooks[h].s
ShownInv ==
  \A x \in shown : x = Show(x.m, x.s, x.by) /\ x.by \in {"drain", "digest"} /\ Addressed(x.m, x.s)
MarksInv(H) ==
  \A h \in H : hooks[h].at = "mark" => \A m \in hooks[h].msgs : Show(m, hooks[h].s, WayOf(hooks[h])) \in shown

(* What is marked is shown, by one that will not take it back.  *)
Settled(H, m, s) ==
  \E by \in {"drain", "digest"} : Show(m, s, by) \in shown /\ \A h \in H : ~Holding(hooks[h], m, s, by)
SettledInv(H) == \A d \in delivered : d = <<d[1], d[2]>> /\ Settled(H, d[1], d[2])

(* What a drain has shown is marked, or was, or is about to be: the next   *)
(* drain does not read it.                                                 *)
Taken(H, m, s) ==
  \/ <<m, s>> \in delivered \/ inbox[m].swept
  \/ \E h \in H : hooks[h].at = "mark" /\ Holding(hooks[h], m, s, "drain")
TakenInv(H) == \A x \in shown : x.by = "drain" => Taken(H, x.m, x.s)
UnshownInv(H) ==
  \A h \in H : Drains(hooks[h]) /\ hooks[h].at # "mark" =>
    \A m \in hooks[h].msgs : Show(m, hooks[h].s, "drain") \notin shown

MailInv(H) ==
  /\ InboxInv /\ HooksInv(H) /\ LockInv(H) /\ HellosInv(H)
  /\ ShownInv /\ MarksInv(H) /\ SettledInv(H) /\ TakenInv(H) /\ UnshownInv(H)
  /\ "drain" \notin again


(* The inbox only gains mail, and a sweep is for good. *)
Posted ==
  \A m \in DOMAIN inbox :
    /\ m \in DOMAIN inbox' /\ inbox'[m].to = inbox[m].to /\ inbox'[m].audience = inbox[m].audience
    /\ inbox[m].swept => inbox'[m].swept

LEMMA AddressedStays == ASSUME Posted, NEW m, NEW s, Addressed(m, s) PROVE Addressed(m, s)'
  BY DEF Posted, Addressed

LEMMA HookStays == ASSUME Posted, NEW a, HookOf(a) PROVE HookOf(a)'
  BY AddressedStays DEF HookOf

LEMMA LettersStay ==
  ASSUME InboxInv, DOMAIN inbox' = DOMAIN inbox,
         \A m \in DOMAIN inbox :
           /\ LetterOf(inbox'[m]) /\ inbox'[m].to = inbox[m].to /\ inbox'[m].audience = inbox[m].audience
           /\ inbox[m].swept => inbox'[m].swept
  PROVE  InboxInv' /\ Posted
  BY DEF InboxInv, Posted

(* A letter with a field of another value. *)
LEMMA LetterIs ==
  ASSUME NEW x, LetterOf(x), NEW k, k \notin {"to", "audience"}, NEW v, NEW y, y = [x EXCEPT ![k] = v]
  PROVE  LetterOf(y) /\ y.to = x.to /\ y.audience = x.audience
  BY DEF LetterOf

LEMMA SweptStays ==
  ASSUME NEW x, LetterOf(x), NEW k, k # "swept", NEW v, NEW y, y = [x EXCEPT ![k] = v]
  PROVE  x.swept => y.swept
  BY DEF LetterOf

LEMMA InboxKept == ASSUME InboxInv, UNCHANGED inbox PROVE InboxInv' /\ Posted
  BY DEF InboxInv, Posted

LEMMA InboxAges ==
  ASSUME InboxInv, NEW m \in DOMAIN inbox, inbox' = [inbox EXCEPT ![m].old = TRUE]
  PROVE  InboxInv' /\ Posted
  <1>1. PICK x, y : x = inbox[m] /\ y = [x EXCEPT !["old"] = TRUE]
    OBVIOUS
  <1>2. LetterOf(x)
    BY <1>1 DEF InboxInv
  <1>3. LetterOf(y) /\ y.to = x.to /\ y.audience = x.audience /\ (x.swept => y.swept)
    <2>1. LetterOf(y) /\ y.to = x.to /\ y.audience = x.audience
      BY <1>1, <1>2 DEF LetterOf
    <2>2. x.swept => y.swept
      BY <1>1, <1>2, SweptStays
    <2> QED
      BY <2>1, <2>2
  <1>4. inbox' = [inbox EXCEPT ![m] = y]
    BY <1>1
  <1>5. \A o \in DOMAIN inbox : inbox'[o] = IF o = m THEN y ELSE inbox[o]
    BY <1>4
  <1>6. \A o \in DOMAIN inbox : LetterOf(inbox[o])
    BY DEF InboxInv
  <1> QED
    BY <1>1, <1>3, <1>4, <1>5, <1>6, LettersStay

LEMMA InboxSwept ==
  ASSUME InboxInv, NEW m \in DOMAIN inbox, inbox' = [inbox EXCEPT ![m].swept = TRUE, ![m].excused = "no"]
  PROVE  InboxInv' /\ Posted /\ inbox'[m].swept
  <1>1. PICK x, y, z : x = inbox[m] /\ y = [x EXCEPT !["swept"] = TRUE] /\ z = [y EXCEPT !["excused"] = "no"]
    OBVIOUS
  <1>2. LetterOf(x)
    BY <1>1 DEF InboxInv
  <1>3. LetterOf(y) /\ y.to = x.to /\ y.audience = x.audience /\ y.swept
    BY <1>1, <1>2, LetterIs DEF LetterOf
  <1>4. LetterOf(z) /\ z.to = x.to /\ z.audience = x.audience /\ z.swept
    BY <1>1, <1>3, LetterIs, SweptStays
  <1>5. inbox' = [inbox EXCEPT ![m] = z]
    BY <1>1
  <1>6. \A o \in DOMAIN inbox : inbox'[o] = IF o = m THEN z ELSE inbox[o]
    BY <1>5
  <1>7. \A o \in DOMAIN inbox : LetterOf(inbox[o])
    BY DEF InboxInv
  <1>8. inbox'[m].swept
    BY <1>4, <1>6
  <1>9. InboxInv' /\ Posted
    BY <1>1, <1>4, <1>5, <1>6, <1>7, LettersStay
  <1> QED
    BY <1>8, <1>9

LEMMA InboxExcused ==
  ASSUME InboxInv, DOMAIN inbox' = DOMAIN inbox,
         \A m \in DOMAIN inbox : \E e : inbox'[m] = [inbox[m] EXCEPT !.excused = e]
  PROVE  InboxInv' /\ Posted
  <1>1. ASSUME NEW m \in DOMAIN inbox
        PROVE  /\ LetterOf(inbox'[m]) /\ inbox'[m].to = inbox[m].to /\ inbox'[m].audience = inbox[m].audience
               /\ inbox[m].swept => inbox'[m].swept
    <2>1. PICK x, y, e : x = inbox[m] /\ y = inbox'[m] /\ y = [x EXCEPT !["excused"] = e]
      OBVIOUS
    <2>2. LetterOf(x)
      BY <2>1 DEF InboxInv
    <2>3. LetterOf(y) /\ y.to = x.to /\ y.audience = x.audience
      BY <2>1, <2>2 DEF LetterOf
    <2>4. x.swept => y.swept
      BY <2>1, <2>2, SweptStays
    <2> QED
      BY <2>1, <2>3, <2>4
  <1> QED
    BY <1>1, LettersStay

LEMMA InboxGains ==
  ASSUME InboxInv, NEW H, NEW N, NEW R, NEW m, NEW to, NEW audience,
         mail(H, N, R)!Insert(m, mail(H, N, R)!Row(to, audience))
  PROVE  InboxInv' /\ Posted
  <1>1. PICK n \in Nat : n = Cardinality(DOMAIN inbox) /\ DOMAIN inbox = 1..n
    BY DEF InboxInv
  <1>2. PICK x : x = [to |-> to, audience |-> audience, old |-> FALSE, swept |-> FALSE, excused |-> "no"]
    OBVIOUS
  <1>3. LetterOf(x)
    BY <1>2 DEF LetterOf
  <1>4. m = n + 1 /\ inbox' = [k \in 1..n \cup {n + 1} |-> IF k = n + 1 THEN x ELSE inbox[k]]
    BY <1>1, <1>2 DEF mail!Insert, mail!Row, mail!Sent, mail!Cardinality, Cardinality
  <1>5. DOMAIN inbox' = 1..(n + 1) /\ Cardinality(1..(n + 1)) = n + 1
    <2>1. DOMAIN inbox' = 1..n \cup {n + 1}
      BY <1>4
    <2> QED
      BY <2>1, LastOf
  <1>6. \A k \in 1..n : inbox'[k] = inbox[k]
    BY <1>4
  <1>7. inbox'[n + 1] = x
    BY <1>4
  <1>8. Posted
    <2>1. \A k \in DOMAIN inbox : k \in DOMAIN inbox' /\ inbox'[k] = inbox[k]
      <3>1. 1..n \subseteq 1..(n + 1)
        OBVIOUS
      <3> QED
        BY <1>1, <1>5, <1>6, <3>1
    <2> QED
      BY <2>1 DEF Posted
  <1>9. \A k \in DOMAIN inbox' : LetterOf(inbox'[k])
    <2> SUFFICES ASSUME NEW k \in DOMAIN inbox' PROVE LetterOf(inbox'[k])
      OBVIOUS
    <2>1. k \in 1..n \/ k = n + 1
      BY <1>5
    <2>2. CASE k \in 1..n
      BY <1>1, <1>6, <2>2 DEF InboxInv
    <2>3. CASE k = n + 1
      BY <1>3, <1>7, <2>3
    <2> QED
      BY <2>1, <2>2, <2>3
  <1>10. InboxInv'
    BY <1>5, <1>9 DEF InboxInv
  <1> QED
    BY <1>8, <1>10

-----------------------------------------------------------------------------
LEMMA HookGoes ==
  ASSUME NEW a, HookOf(a), a # NoHook, NEW b, b = [a EXCEPT !.at = b.at], b.at # "none",
         b.at \in HelloSteps => a.verb = "hello"
  PROVE  HookOf(b) /\ b.verb = a.verb /\ b.s = a.s /\ b.msgs = a.msgs /\ b # NoHook
  <1>1. RunOf(a) /\ \A m \in a.msgs : Addressed(m, a.s)
    BY DEF HookOf
  <1>2. RunOf(b) /\ b.verb = a.verb /\ b.s = a.s /\ b.msgs = a.msgs
    BY <1>1 DEF RunOf
  <1>3. HookOf(b)
    BY <1>1, <1>2 DEF HookOf
  <1>4. b # NoHook
    <2>1. b.at # "none" /\ NoHook.at = "none"
      BY <1>2 DEF NoHook
    <2> QED
      BY <2>1
  <1> QED
    BY <1>2, <1>3, <1>4

LEMMA OneHook ==
  ASSUME NEW H, HooksInv(H), HellosInv(H), Posted, NEW h \in H, NEW b, hooks' = [hooks EXCEPT ![h] = b], HookOf(b)',
         Greets(b) => Greets(hooks[h]) /\ b.s = hooks[h].s
  PROVE  HooksInv(H)' /\ HellosInv(H)'
  <1>1. DOMAIN hooks' = H /\ hooks'[h] = b /\ \A g \in H : g # h => hooks'[g] = hooks[g]
    BY DEF HooksInv
  <1>2. ASSUME NEW g \in H PROVE \E c : c = hooks'[g] /\ HookOf(c)'
    <2>1. CASE g = h
      BY <1>1, <2>1
    <2>2. CASE g # h
      BY <1>1, <2>2, HookStays DEF HooksInv
    <2> QED
      BY <2>1, <2>2
  <1>3. HooksInv(H)'
    BY <1>1, <1>2 DEF HooksInv
  <1>4. \A g \in H : Greets(hooks'[g]) => Greets(hooks[g]) /\ hooks'[g].s = hooks[g].s
    BY <1>1
  <1>5. HellosInv(H)'
    BY <1>4 DEF HellosInv, Greets
  <1> QED
    BY <1>3, <1>5

(* A step of hooks that write and mark nothing. *)
Rests(H) ==
  \A h \in H :
    /\ hooks'[h] = hooks[h] \/ (hooks[h].at # "mark" /\ ~Holds(hooks'[h]))
    /\ Holds(hooks'[h]) /\ lock = h => lock' = h

LEMMA MailQuiet ==
  ASSUME NEW H, MailInv(H), InboxInv', Posted, HooksInv(H)', HellosInv(H)', Rests(H), UNCHANGED <<shown, delivered, again>>
  PROVE  MailInv(H)'
  <1>1. \A h \in H : Holds(hooks'[h]) => hooks'[h] = hooks[h]
    BY DEF Rests
  <1>2. \A h \in H : hooks'[h].at = "mark" => hooks'[h] = hooks[h]
    BY <1>1 DEF Holds
  <1>3. \A h \in H : hooks[h].at = "mark" => hooks'[h] = hooks[h]
    BY DEF Rests
  <1>4. LockInv(H)'
    BY <1>1 DEF MailInv, LockInv, Drains, Rests, Holds, Greets
  <1>5. ShownInv'
    BY AddressedStays DEF MailInv, ShownInv
  <1>6. MarksInv(H)'
    BY <1>2 DEF MailInv, MarksInv, WayOf, Show
  <1>7. SettledInv(H)'
    <2> SUFFICES ASSUME NEW d \in delivered PROVE Settled(H, d[1], d[2])'
      BY DEF MailInv, SettledInv
    <2>1. PICK m, s : m = d[1] /\ s = d[2]
      OBVIOUS
    <2>2. Settled(H, m, s)
      BY <2>1 DEF MailInv, SettledInv
    <2>3. PICK by \in {"drain", "digest"} : Show(m, s, by) \in shown /\ \A h \in H : ~Holding(hooks[h], m, s, by)
      BY <2>2 DEF Settled
    <2>4. \A h \in H : ~Holding(hooks'[h], m, s, by)
      BY <1>1, <2>3 DEF Holding
    <2> QED
      BY <2>1, <2>3, <2>4 DEF Settled, Holding, Holds, WayOf, Show
  <1>8. TakenInv(H)'
    <2> SUFFICES ASSUME NEW x \in shown, x.by = "drain" PROVE Taken(H, x.m, x.s)'
      BY DEF TakenInv
    <2>1. Taken(H, x.m, x.s) /\ x.m \in DOMAIN inbox
      BY DEF MailInv, TakenInv, ShownInv, Addressed
    <2>2. inbox[x.m].swept => inbox'[x.m].swept
      BY <2>1 DEF Posted
    <2>3. ASSUME NEW h \in H, hooks[h].at = "mark" /\ Holding(hooks[h], x.m, x.s, "drain") PROVE Taken(H, x.m, x.s)'
      BY <1>3, <2>3 DEF Taken, Holding, Holds, WayOf
    <2> QED
      BY <2>1, <2>2, <2>3 DEF Taken
  <1>9. UnshownInv(H)'
    BY <1>1 DEF MailInv, UnshownInv, Drains, Holds, Greets, Show
  <1> QED
    BY <1>4, <1>5, <1>6, <1>7, <1>8, <1>9 DEF MailInv


(* What no hook does. *)
LEMMA MailApart ==
  ASSUME NEW H, MailInv(H), InboxInv', Posted, UNCHANGED <<shown, delivered, again, hooks, lock>>
  PROVE  MailInv(H)'
  <1>1. HooksInv(H)'
    <2>1. ASSUME NEW h \in H PROVE \E c : c = hooks'[h] /\ HookOf(c)'
      BY HookStays DEF MailInv, HooksInv
    <2> QED
      BY <2>1 DEF MailInv, HooksInv
  <1>2. HellosInv(H)'
    BY DEF MailInv, HellosInv, Greets
  <1>3. Rests(H)
    BY DEF Rests
  <1> QED
    BY <1>1, <1>2, <1>3, MailQuiet

LEMMA MailSent ==
  ASSUME NEW H, NEW N, NEW R, MailInv(H), NEW m,
         mail(H, N, R)!Sending(m) \/ (m \in DOMAIN inbox /\ mail(H, N, R)!Ages(m))
  PROVE  MailInv(H)'
  <1>1. UNCHANGED <<shown, delivered, again, hooks, lock>>
    BY DEF mail!Sending, mail!NameWake, mail!SendDirect, mail!SendBroadcast, mail!Observe, mail!Ages
  <1>2. InboxInv
    BY DEF MailInv
  <1>3. CASE \E s \in Session : mail(H, N, R)!Observe(m, s)
    BY <1>2, <1>3, InboxKept, <1>1, MailApart DEF mail!Observe
  <1>4. CASE mail(H, N, R)!SendDirect(m) \/ mail(H, N, R)!SendBroadcast(m)
    <2>1. \E to, audience : mail(H, N, R)!Insert(m, mail(H, N, R)!Row(to, audience))
      BY <1>4 DEF mail!SendDirect, mail!SendBroadcast
    <2>2. InboxInv' /\ Posted
      BY <1>2, <2>1, InboxGains
    <2> QED
      BY <1>1, <2>2, MailApart
  <1>5. CASE mail(H, N, R)!NameWake(m)
    <2>1. PICK e : inbox' = [inbox EXCEPT ![m].excused = e]
      BY <1>5 DEF mail!NameWake
    <2>2. \A o \in DOMAIN inbox : \E e2 : inbox'[o] = [inbox[o] EXCEPT !.excused = e2]
      <3> SUFFICES ASSUME NEW o \in DOMAIN inbox PROVE \E e2 : inbox'[o] = [inbox[o] EXCEPT !.excused = e2]
        OBVIOUS
      <3>1. CASE o = m
        BY <2>1, <3>1
      <3>2. CASE o # m
        <4>1. inbox'[o] = inbox[o] /\ LetterOf(inbox[o])
          BY <1>2, <2>1, <3>2 DEF InboxInv
        <4>2. inbox[o] = [inbox[o] EXCEPT !.excused = inbox[o].excused]
          BY <4>1 DEF LetterOf
        <4> QED
          BY <4>1, <4>2
      <3> QED
        BY <3>1, <3>2
    <2>3. DOMAIN inbox' = DOMAIN inbox
      BY <2>1
    <2>4. InboxInv' /\ Posted
      BY <1>2, <2>2, <2>3, InboxExcused
    <2> QED
      BY <1>1, <2>4, MailApart
  <1>6. CASE m \in DOMAIN inbox /\ mail(H, N, R)!Ages(m)
    <2>1. InboxInv' /\ Posted
      BY <1>2, <1>6, InboxAges DEF mail!Ages
    <2> QED
      BY <1>1, <2>1, MailApart
  <1> QED
    BY <1>3, <1>4, <1>5, <1>6 DEF mail!Sending

(* The harness starts hooks, one that greets only where none does. *)
LEMMA MailLaunches ==
  ASSUME NEW H, MailInv(H), NEW S \in SUBSET H, \A h \in S : hooks[h] = NoHook, NEW s, NEW verb,
         verb \in {"beat", "inbox", "busy", "subagent", "stop", "hello"},
         verb = "hello" => (\E h \in H : S = {h}) /\ \A g \in H : hooks[g].s = s => hooks[g].verb # "hello",
         hooks' = [h \in H |-> IF h \in S THEN [at |-> verb, verb |-> verb, s |-> s, msgs |-> {}] ELSE hooks[h]],
         UNCHANGED <<inbox, shown, delivered, again, lock>>
  PROVE  MailInv(H)'
  <1>1. PICK c : c = [at |-> verb, verb |-> verb, s |-> s, msgs |-> {}]
    OBVIOUS
  <1>2. /\ c.at = verb /\ c.verb = verb /\ c.s = s /\ c.msgs = {} /\ RunOf(c)
        /\ verb # "none" /\ verb # "write" /\ verb # "helloWrite" /\ verb # "mark" /\ verb # "helloLook"
    BY <1>1 DEF RunOf
  <1>3. HookOf(c)' /\ ~Holds(c)
    BY <1>2 DEF HookOf, Holds, HelloSteps
  <1>4. InboxInv' /\ Posted
    BY InboxKept DEF MailInv
  <1>5. ASSUME NEW h \in H PROVE hooks'[h] = IF h \in S THEN c ELSE hooks[h]
    BY <1>1
  <1>6. HooksInv(H)'
    <2>1. ASSUME NEW h \in H PROVE \E d : d = hooks'[h] /\ HookOf(d)'
      <3>1. CASE h \in S
        BY <1>3, <1>5, <3>1
      <3>2. CASE h \notin S
        <4>1. PICK d : d = hooks[h]
          OBVIOUS
        <4>2. HookOf(d)'
          BY <1>4, <4>1, HookStays DEF MailInv, HooksInv
        <4> QED
          BY <1>5, <3>2, <4>1, <4>2
      <3> QED
        BY <3>1, <3>2
    <2> QED
      BY <2>1 DEF HooksInv
  <1>7. HellosInv(H)'
    <2>1. ASSUME NEW g \in H, NEW h \in H, g # h, Greets(hooks'[g]), Greets(hooks'[h]) PROVE hooks'[g].s # hooks'[h].s
      <3>1. CASE g \notin S /\ h \notin S
        BY <1>5, <2>1, <3>1 DEF MailInv, HellosInv
      <3>2. CASE g \in S /\ h \notin S
        <4>1. verb = "hello"
          BY <1>2, <1>5, <2>1, <3>2 DEF Greets
        <4> QED
          BY <1>2, <1>5, <2>1, <3>2, <4>1 DEF Greets
      <3>3. CASE h \in S /\ g \notin S
        <4>1. verb = "hello"
          BY <1>2, <1>5, <2>1, <3>3 DEF Greets
        <4> QED
          BY <1>2, <1>5, <2>1, <3>3, <4>1 DEF Greets
      <3>4. CASE g \in S /\ h \in S
        <4>1. verb = "hello"
          BY <1>2, <1>5, <2>1, <3>4 DEF Greets
        <4> QED
          BY <2>1, <3>4, <4>1
      <3> QED
        BY <3>1, <3>2, <3>3, <3>4
    <2> QED
      BY <2>1 DEF HellosInv, Greets
  <1>8. Rests(H)
    <2>1. NoHook.at # "mark"
      BY DEF NoHook
    <2>2. ASSUME NEW h \in H PROVE hooks'[h] = hooks[h] \/ (hooks[h].at # "mark" /\ ~Holds(hooks'[h]))
      BY <1>3, <1>5, <2>1
    <2> QED
      BY <2>2 DEF Rests
  <1> QED
    BY <1>4, <1>6, <1>7, <1>8, MailQuiet

LEMMA MailHarness ==
  ASSUME NEW H, NEW N, NEW R, MailInv(H), NEW s, mail(H, N, R)!Harness(s)
  PROVE  MailInv(H)'
  <1>1. UNCHANGED <<inbox, shown, delivered, again, lock>>
    BY DEF mail!Harness, mail!Prompt, mail!Subagent, mail!EndTurn, mail!StartSession, mail!CallTools, mail!Bye,
           mail!Dies, mail!Stales, mail!mail
  <1>2. CASE mail(H, N, R)!Bye(s) \/ mail(H, N, R)!Dies(s) \/ mail(H, N, R)!Stales(s)
    <2>1. UNCHANGED hooks
      BY <1>2 DEF mail!Bye, mail!Dies, mail!Stales
    <2>2. InboxInv' /\ Posted
      BY <1>1, InboxKept DEF MailInv
    <2> QED
      BY <1>1, <2>1, <2>2, MailApart
  <1>3. CASE \E h \in H : mail(H, N, R)!Prompt(h, s) \/ mail(H, N, R)!Subagent(h, s) \/ mail(H, N, R)!EndTurn(h, s)
    <2>1. PICK h \in H : mail(H, N, R)!Prompt(h, s) \/ mail(H, N, R)!Subagent(h, s) \/ mail(H, N, R)!EndTurn(h, s)
      BY <1>3
    <2>2. PICK verb : verb \in {"busy", "subagent", "stop"} /\ mail(H, N, R)!Launch(s, {h}, verb)
      BY <2>1 DEF mail!Prompt, mail!Subagent, mail!EndTurn
    <2>3. \A g \in {h} : hooks[g] = NoHook
      BY <2>1 DEF mail!Prompt, mail!Subagent, mail!EndTurn, mail!Idling, mail!Free, NoHook
    <2>4. hooks' = [g \in H |-> IF g \in {h} THEN [at |-> verb, verb |-> verb, s |-> s, msgs |-> {}] ELSE hooks[g]]
      BY <2>2 DEF mail!Launch, mail!Starts
    <2>5. verb # "hello" /\ verb \in {"beat", "inbox", "busy", "subagent", "stop", "hello"} /\ {h} \in SUBSET H
      BY <2>2
    <2> QED
      BY <1>1, <2>3, <2>4, <2>5, MailLaunches
  <1>4. CASE \E S \in SUBSET H : mail(H, N, R)!CallTools(S, s)
    <2>1. PICK S \in SUBSET H : mail(H, N, R)!CallTools(S, s)
      BY <1>4
    <2>2. PICK verb : verb \in {"beat", "inbox"} /\ mail(H, N, R)!Launch(s, S, verb)
      BY <2>1 DEF mail!CallTools
    <2>3. \A g \in S : hooks[g] = NoHook
      BY <2>1 DEF mail!CallTools, mail!Idling, mail!Free, NoHook
    <2>4. hooks' = [g \in H |-> IF g \in S THEN [at |-> verb, verb |-> verb, s |-> s, msgs |-> {}] ELSE hooks[g]]
      BY <2>2 DEF mail!Launch, mail!Starts
    <2>5. verb # "hello" /\ verb \in {"beat", "inbox", "busy", "subagent", "stop", "hello"}
      BY <2>2
    <2> QED
      BY <1>1, <2>3, <2>4, <2>5, MailLaunches
  <1>5. CASE \E h \in H : mail(H, N, R)!StartSession(h, s)
    <2>1. PICK h \in H : mail(H, N, R)!StartSession(h, s)
      BY <1>5
    <2>2. PICK verb : verb = "hello"
      OBVIOUS
    <2>3. \A g \in {h} : hooks[g] = NoHook
      BY <2>1 DEF mail!StartSession, mail!Idling, mail!Free, NoHook
    <2>4. hooks' = [g \in H |-> IF g \in {h} THEN [at |-> verb, verb |-> verb, s |-> s, msgs |-> {}] ELSE hooks[g]]
      BY <2>1, <2>2 DEF mail!StartSession, mail!Launch, mail!Starts
    <2>5. \A g \in H : hooks[g].s = s => hooks[g].verb # "hello"
      BY <2>1 DEF mail!StartSession, mail!Of
    <2>6. {h} \in SUBSET H /\ (\E g \in H : {h} = {g}) /\ verb \in {"beat", "inbox", "busy", "subagent", "stop", "hello"}
      BY <2>2
    <2> QED
      BY <1>1, <2>3, <2>4, <2>5, <2>6, MailLaunches
  <1> QED
    BY <1>2, <1>3, <1>4, <1>5 DEF mail!Harness


-----------------------------------------------------------------------------
LEMMA InboxExcusing ==
  ASSUME InboxInv, NEW H, NEW N, NEW R, NEW S, inbox' = mail(H, N, R)!Excusing(S)
  PROVE  InboxInv' /\ Posted
  BY InboxExcused DEF mail!Excusing, mail!Sent

LEMMA NotFree == ASSUME NEW a, a.at # "none" PROVE a # NoHook
  BY DEF NoHook

(* A hook goes on, or ends, with nothing in its hands. *)
GoesTo(h, at) ==
  /\ at # "none" /\ at # "write" /\ at # "helloWrite" /\ at # "mark" /\ at # "hello"
  /\ at = "helloLook" => hooks[h].at = "hello"
  /\ hooks' = [hooks EXCEPT ![h].at = at]

LEMMA MailGoes ==
  ASSUME NEW H, MailInv(H), NEW h \in H, InboxInv', Posted, UNCHANGED <<shown, delivered, again>>,
         hooks[h].at # "none", hooks[h].at # "mark",
         hooks' = [hooks EXCEPT ![h] = NoHook] \/ \E at : GoesTo(h, at),
         lock' = lock \/ (lock = h /\ lock' = "noOne")
  PROVE  MailInv(H)'
  <1>1. PICK a : a = hooks[h] /\ a # NoHook /\ HookOf(a)
    BY NotFree DEF MailInv, HooksInv
  <1>2. \E b : hooks' = [hooks EXCEPT ![h] = b] /\ HookOf(b) /\ ~Holds(b) /\ (Greets(b) => Greets(a) /\ b.s = a.s)
    <2>1. CASE hooks' = [hooks EXCEPT ![h] = NoHook]
      BY <2>1 DEF HookOf, Holds, Greets, NoHook
    <2>2. CASE \E at : GoesTo(h, at)
      <3>1. PICK at : GoesTo(h, at)
        BY <2>2
      <3>2. PICK b : b = [a EXCEPT !.at = at]
        OBVIOUS
      <3>3. at \in HelloSteps => a.verb = "hello"
        BY <1>1, <3>1 DEF HookOf, GoesTo, HelloSteps
      <3>4. HookOf(b) /\ b.at = at /\ b.verb = a.verb /\ b.s = a.s
        <4>1. at # "none"
          BY <3>1 DEF GoesTo
        <4>2. HookOf(a) /\ a # NoHook
          BY <1>1
        <4>3. b.at = at /\ b = [a EXCEPT !.at = b.at]
          BY <3>2, <4>1, <4>2 DEF HookOf, RunOf
        <4> QED
          BY <3>3, <4>1, <4>2, <4>3, HookGoes
      <3>5. hooks' = [hooks EXCEPT ![h] = b]
        BY <1>1, <3>1, <3>2 DEF GoesTo
      <3> QED
        BY <1>1, <3>1, <3>4, <3>5 DEF Holds, Greets, GoesTo
    <2> QED
      BY <2>1, <2>2
  <1>3. PICK b : hooks' = [hooks EXCEPT ![h] = b] /\ HookOf(b) /\ ~Holds(b) /\ (Greets(b) => Greets(a) /\ b.s = a.s)
    BY <1>2
  <1>4. HooksInv(H)' /\ HellosInv(H)'
    <2>1. HookOf(b)'
      BY <1>3, HookStays
    <2> QED
      BY <1>1, <1>3, <2>1, OneHook DEF MailInv
  <1>5. Rests(H)
    <2>1. hooks'[h] = b /\ \A g \in H : g # h => hooks'[g] = hooks[g]
      BY <1>3 DEF MailInv, HooksInv
    <2> QED
      BY <1>3, <2>1 DEF Rests
  <1> QED
    BY <1>4, <1>5, MailQuiet

LEMMA MailHookGoes ==
  ASSUME NEW H, NEW N, NEW R, MailInv(H), NEW h \in H,
         mail(H, N, R)!BeatRow(h) \/ mail(H, N, R)!BusyClear(h) \/ mail(H, N, R)!Look(h) \/ mail(H, N, R)!HelloRow(h)
  PROVE  MailInv(H)'
  <1>1. UNCHANGED <<inbox, shown, delivered, again, lock>>
    BY DEF mail!BeatRow, mail!BusyClear, mail!Look, mail!HelloRow, mail!mail
  <1>2. InboxInv' /\ Posted
    BY <1>1, InboxKept DEF MailInv
  <1>3. hooks[h].at # "none" /\ hooks[h].at # "mark"
    BY DEF mail!BeatRow, mail!BusyClear, mail!Look, mail!HelloRow, mail!At
  <1>4. \/ hooks' = [hooks EXCEPT ![h] = NoHook]
        \/ hooks' = [hooks EXCEPT ![h].at = "look"]
        \/ hooks' = [hooks EXCEPT ![h].at = "drain"]
        \/ hooks[h].at = "hello" /\ hooks' = [hooks EXCEPT ![h].at = "helloLook"]
    BY DEF mail!BeatRow, mail!BusyClear, mail!Look, mail!HelloRow, mail!At, mail!Goto, mail!Ends, mail!Free, NoHook
  <1>5. hooks' = [hooks EXCEPT ![h] = NoHook] \/ \E at : GoesTo(h, at)
    BY <1>4 DEF GoesTo
  <1> QED
    BY <1>1, <1>2, <1>3, <1>5, MailGoes

LEMMA MailRests ==
  ASSUME NEW H, NEW N, NEW R, MailInv(H), NEW h \in H,
         \/ mail(H, N, R)!MarkIdle(h) \/ mail(H, N, R)!WriteFails(h)
         \/ mail(H, N, R)!StopBegins(h) /\ hooks' = [hooks EXCEPT ![h] = NoHook] /\ lock' = lock /\ \E S : inbox' = mail(H, N, R)!Excusing(S)
         \/ mail(H, N, R)!HelloLook(h) /\ hooks' = [hooks EXCEPT ![h] = NoHook]
  PROVE  MailInv(H)'
  <1>1. UNCHANGED <<shown, delivered, again>>
    BY DEF mail!MarkIdle, mail!WriteFails, mail!StopBegins, mail!HelloLook, mail!mail
  <1>2. UNCHANGED inbox \/ \E S : inbox' = mail(H, N, R)!Excusing(S)
    BY DEF mail!MarkIdle, mail!WriteFails, mail!HelloLook
  <1>3. InboxInv' /\ Posted
    BY <1>2, InboxKept, InboxExcusing DEF MailInv
  <1>4. hooks[h].at # "none" /\ hooks[h].at # "mark"
    BY DEF mail!MarkIdle, mail!WriteFails, mail!StopBegins, mail!HelloLook, mail!At
  <1>5. hooks' = [hooks EXCEPT ![h] = NoHook] \/ hooks' = [hooks EXCEPT ![h].at = "markIdle"]
    BY DEF mail!MarkIdle, mail!WriteFails, mail!Goto, mail!Ends, mail!Free, NoHook
  <1>6. hooks' = [hooks EXCEPT ![h] = NoHook] \/ \E at : GoesTo(h, at)
    BY <1>5 DEF GoesTo
  <1>7. lock' = lock \/ (lock = h /\ lock' = "noOne")
    BY DEF mail!MarkIdle, mail!WriteFails, mail!HelloLook, mail!NoOne
  <1> QED
    BY <1>1, <1>3, <1>4, <1>6, <1>7, MailGoes


-----------------------------------------------------------------------------
(* Two hooks of a session do not have a message in their hands the same way. *)
LEMMA Exclusive ==
  ASSUME NEW H, MailInv(H), NEW g \in H, NEW h \in H, NEW m, NEW s, NEW by,
         Holding(hooks[g], m, s, by), Holding(hooks[h], m, s, by)
  PROVE  g = h
  <1>1. hooks[g].at # "none" /\ hooks[h].at # "none"
    BY DEF Holding, Holds
  <1>2. hooks[g] # NoHook /\ hooks[h] # NoHook
    BY <1>1, NotFree
  <1>3. CASE by = "digest"
    <2>1. Greets(hooks[g]) /\ Greets(hooks[h]) /\ hooks[g].s = hooks[h].s
      BY <1>2, <1>3 DEF Holding, WayOf, Greets
    <2> QED
      BY <2>1 DEF MailInv, HellosInv
  <1>4. CASE by # "digest"
    <2>1. Drains(hooks[g]) /\ Drains(hooks[h])
      BY <1>4 DEF Holding, WayOf, Greets, Drains
    <2> QED
      BY <2>1 DEF MailInv, LockInv
  <1> QED
    BY <1>3, <1>4

LEMMA MailSweeps ==
  ASSUME NEW H, NEW N, NEW R, MailInv(H), NEW m \in DOMAIN inbox, mail(H, N, R)!SweepInbox(m)
  PROVE  MailInv(H)'
  <1>1. /\ UNCHANGED <<shown, again, hooks, lock>> /\ delivered' = {d \in delivered : d[1] # m}
        /\ inbox' = [inbox EXCEPT ![m].swept = TRUE, ![m].excused = "no"]
    BY DEF mail!SweepInbox
  <1>2. InboxInv' /\ Posted /\ inbox'[m].swept
    BY <1>1, InboxSwept DEF MailInv
  <1>3. HooksInv(H)'
    <2>1. ASSUME NEW h \in H PROVE \E c : c = hooks'[h] /\ HookOf(c)'
      BY <1>1, <1>2, HookStays DEF MailInv, HooksInv
    <2> QED
      BY <1>1, <2>1 DEF MailInv, HooksInv
  <1>4. LockInv(H)' /\ HellosInv(H)' /\ MarksInv(H)' /\ UnshownInv(H)' /\ "drain" \notin again'
    <2>1. LockInv(H)' /\ HellosInv(H)' /\ "drain" \notin again'
      BY <1>1 DEF MailInv, LockInv, HellosInv, Drains, Holds, Greets, WayOf
    <2>2. MarksInv(H)'
      BY <1>1 DEF MailInv, MarksInv, WayOf, Show
    <2>3. UnshownInv(H)'
      BY <1>1 DEF MailInv, UnshownInv, Drains, WayOf, Show
    <2> QED
      BY <2>1, <2>2, <2>3
  <1>5. ShownInv'
    BY <1>1, <1>2, AddressedStays DEF MailInv, ShownInv, Show
  <1>6. SettledInv(H)'
    <2>1. ASSUME NEW n, NEW s, Settled(H, n, s) PROVE Settled(H, n, s)'
      BY <1>1, <2>1 DEF Settled, Show, Holding, Holds, WayOf
    <2>2. delivered' \subseteq delivered
      BY <1>1
    <2> QED
      BY <2>1, <2>2 DEF MailInv, SettledInv
  <1>7. TakenInv(H)'
    <2> SUFFICES ASSUME NEW x \in shown, x.by = "drain" PROVE Taken(H, x.m, x.s)'
      BY <1>1 DEF TakenInv
    <2>1. Taken(H, x.m, x.s) /\ x.m \in DOMAIN inbox
      BY DEF MailInv, TakenInv, ShownInv, Addressed
    <2>2. CASE <<x.m, x.s>> \in delivered
      <3>1. CASE x.m = m
        BY <1>2, <3>1 DEF Taken
      <3>2. CASE x.m # m
        <4>1. <<x.m, x.s>>[1] # m
          BY <3>2
        <4>2. <<x.m, x.s>> \in delivered'
          BY <1>1, <2>2, <4>1
        <4> QED
          BY <1>1, <4>2 DEF Taken
      <3> QED
        BY <3>1, <3>2
    <2>3. CASE inbox[x.m].swept
      <3>1. inbox'[x.m].swept
        BY <1>2, <2>1, <2>3 DEF Posted
      <3> QED
        BY <3>1 DEF Taken
    <2>4. CASE \E h \in H : hooks[h].at = "mark" /\ Holding(hooks[h], x.m, x.s, "drain")
      BY <1>1, <2>4 DEF Taken, Holding, Holds, WayOf
    <2> QED
      BY <2>1, <2>2, <2>3, <2>4 DEF Taken
  <1> QED
    BY <1>2, <1>3, <1>4, <1>5, <1>6, <1>7 DEF MailInv

LEMMA MarksStay ==
  ASSUME NEW H, MarksInv(H), shown \subseteq shown', \A h \in H : hooks'[h].at = "mark" => hooks'[h] = hooks[h]
  PROVE  MarksInv(H)'
  BY DEF MarksInv, WayOf, Show

(* What a hook takes up is owed: no drain has shown it, for none holds the *)
(* lock and what they showed is marked or swept.                           *)
LEMMA MailTakes ==
  ASSUME NEW H, "noOne" \notin H, MailInv(H), NEW h \in H, InboxInv', Posted, UNCHANGED <<shown, delivered, again>>,
         NEW a, a = hooks[h], a.at # "none", ~Holds(a), NEW S,
         \A m \in S : Addressed(m, a.s) /\ ~inbox[m].swept /\ <<m, a.s>> \notin delivered,
         NEW to, NEW b, RunOf(b) /\ b.at = to /\ b.verb = a.verb /\ b.s = a.s /\ b.msgs = S,
         hooks' = [hooks EXCEPT ![h] = b],
         \/ to = "write" /\ lock = "noOne" /\ lock' = h
         \/ to = "helloWrite" /\ lock' = lock /\ a.verb = "hello"
  PROVE  MailInv(H)'
  <1>1. a # NoHook
    BY NotFree
  <1>2. HookOf(b) /\ b # NoHook /\ Holds(b)
    <2>1. b.at \in HelloSteps => b.verb = "hello"
      BY DEF HelloSteps
    <2>2. b.at # "none" /\ \A m \in b.msgs : Addressed(m, b.s)
      OBVIOUS
    <2>3. b # NoHook
      BY <2>2, NotFree
    <2> QED
      BY <2>1, <2>2, <2>3 DEF HookOf, Holds
  <1>3. Greets(b) => Greets(a)
    BY <1>1 DEF Greets
  <1>4. HooksInv(H)' /\ HellosInv(H)'
    <2>1. HookOf(b)'
      BY <1>2, HookStays
    <2> QED
      BY <1>3, <2>1, OneHook DEF MailInv
  <1>5. hooks'[h] = b /\ \A g \in H : g # h => hooks'[g] = hooks[g]
    BY DEF MailInv, HooksInv
  <1>6. Drains(b) => to = "write" /\ lock = "noOne" /\ lock' = h
    BY <1>2 DEF Drains, Greets
  <1>7. lock = "noOne" => \A g \in H : ~Drains(hooks[g])
    BY DEF MailInv, LockInv
  <1>8. LockInv(H)'
    <2> SUFFICES ASSUME NEW g \in H, Drains(hooks'[g]) PROVE lock' = g
      BY DEF LockInv, Drains, Holds, Greets
    <2>1. CASE g = h
      BY <1>5, <1>6, <2>1
    <2>2. CASE g # h
      <3>1. Drains(hooks[g])
        BY <1>5, <2>2
      <3>2. lock = g
        BY <3>1 DEF MailInv, LockInv
      <3> QED
        BY <1>7, <3>1, <3>2
    <2> QED
      BY <2>1, <2>2
  <1>9. ShownInv'
    BY AddressedStays DEF MailInv, ShownInv, Show
  <1>10. MarksInv(H)'
    <2>1. \A g \in H : hooks'[g].at = "mark" => hooks'[g] = hooks[g]
      BY <1>5
    <2> QED
      BY <2>1, MarksStay DEF MailInv
  <1>11. SettledInv(H)'
    <2> SUFFICES ASSUME NEW d \in delivered PROVE Settled(H, d[1], d[2])'
      BY DEF MailInv, SettledInv
    <2>1. PICK m, s : m = d[1] /\ s = d[2] /\ d = <<m, s>>
      BY DEF MailInv, SettledInv
    <2>2. Settled(H, m, s)
      BY <2>1 DEF MailInv, SettledInv
    <2>3. PICK by \in {"drain", "digest"} : Show(m, s, by) \in shown /\ \A g \in H : ~Holding(hooks[g], m, s, by)
      BY <2>2 DEF Settled
    <2>4. ~Holding(b, m, s, by)
      BY <2>1 DEF Holding
    <2>5. \A g \in H : ~Holding(hooks'[g], m, s, by)
      BY <1>5, <2>3, <2>4
    <2> QED
      BY <2>1, <2>3, <2>5 DEF Settled, Holding, Holds, WayOf, Show
  <1>12. TakenInv(H)'
    <2> SUFFICES ASSUME NEW x \in shown, x.by = "drain" PROVE Taken(H, x.m, x.s)'
      BY DEF TakenInv
    <2>1. Taken(H, x.m, x.s) /\ x.m \in DOMAIN inbox
      BY DEF MailInv, TakenInv, ShownInv, Addressed
    <2>2. inbox[x.m].swept => inbox'[x.m].swept
      BY <2>1 DEF Posted
    <2>3. ASSUME NEW g \in H, hooks[g].at = "mark" /\ Holding(hooks[g], x.m, x.s, "drain") PROVE Taken(H, x.m, x.s)'
      <3>1. g # h
        BY <2>3 DEF Holds
      <3>2. hooks'[g] = hooks[g]
        BY <1>5, <3>1
      <3> QED
        BY <2>3, <3>2 DEF Taken, Holding, Holds, WayOf
    <2> QED
      BY <2>1, <2>2, <2>3 DEF Taken
  <1>13. ASSUME Drains(b), NEW m \in S PROVE Show(m, a.s, "drain") \notin shown
    <2> SUFFICES ASSUME Show(m, a.s, "drain") \in shown PROVE FALSE
      OBVIOUS
    <2>1. PICK x \in shown : x = Show(m, a.s, "drain")
      OBVIOUS
    <2>2. x.m = m /\ x.s = a.s /\ x.by = "drain"
      BY <2>1 DEF Show
    <2>3. Taken(H, m, a.s)
      BY <2>2 DEF MailInv, TakenInv
    <2>4. PICK g \in H : hooks[g].at = "mark" /\ Holding(hooks[g], m, a.s, "drain")
      BY <1>13, <2>3 DEF Taken
    <2>5. Drains(hooks[g])
      BY <2>4 DEF Holding, WayOf, Drains, Greets
    <2> QED
      BY <1>6, <1>7, <1>13, <2>5
  <1>14. UnshownInv(H)'
    <2> SUFFICES ASSUME NEW g \in H, Drains(hooks'[g]), hooks'[g].at # "mark", NEW m \in hooks'[g].msgs
                 PROVE  Show(m, hooks'[g].s, "drain") \notin shown
      BY DEF UnshownInv, Drains, Holds, Greets, Show
    <2>1. CASE g = h
      BY <1>5, <1>13, <2>1
    <2>2. CASE g # h
      BY <1>5, <2>2 DEF MailInv, UnshownInv
    <2> QED
      BY <2>1, <2>2
  <1> QED
    BY <1>4, <1>8, <1>9, <1>10, <1>11, <1>12, <1>14 DEF MailInv


LEMMA MailBegins ==
  ASSUME NEW H, "noOne" \notin H, NEW N, NEW R, MailInv(H), NEW h \in H,
         mail(H, N, R)!DrainBegins(h) \/ mail(H, N, R)!StopBegins(h) \/ mail(H, N, R)!HelloLook(h)
  PROVE  MailInv(H)'
  <1>1. PICK a : a = hooks[h]
    OBVIOUS
  <1>2. UNCHANGED <<shown, delivered, again>>
    BY DEF mail!DrainBegins, mail!StopBegins, mail!HelloLook, mail!mail
  <1>3. ASSUME NEW m \in mail(H, N, R)!Undelivered(a.s)
        PROVE  Addressed(m, a.s) /\ ~inbox[m].swept /\ <<m, a.s>> \notin delivered
    BY DEF mail!Undelivered, mail!Queued, mail!AddressedTo, mail!Sent, mail!Broadcast, Addressed
  <1>4. \A S : mail(H, N, R)!BoundDrain(S) \subseteq S
    BY DEF mail!BoundDrain, mail!Oldest
  <1>5. CASE mail(H, N, R)!StopBegins(h) /\ hooks' = [hooks EXCEPT ![h] = NoHook] /\ lock' = lock /\ \E S : inbox' = mail(H, N, R)!Excusing(S)
    BY <1>5, MailRests
  <1>6. CASE mail(H, N, R)!HelloLook(h) /\ hooks' = [hooks EXCEPT ![h] = NoHook]
    BY <1>6, MailRests
  <1>7. CASE \/ mail(H, N, R)!DrainBegins(h)
             \/ mail(H, N, R)!StopBegins(h) /\ lock' = h /\ UNCHANGED inbox
                  /\ hooks' = [hooks EXCEPT ![h].at = "write", ![h].msgs = mail(H, N, R)!BoundDrain(mail(H, N, R)!Owed(h))]
    <2>1. PICK S : /\ S \subseteq mail(H, N, R)!Undelivered(a.s)
                   /\ hooks' = [hooks EXCEPT ![h].at = "write", ![h].msgs = S]
      BY <1>1, <1>4, <1>7 DEF mail!DrainBegins, mail!Owed
    <2>2. lock = "noOne" /\ lock' = h /\ UNCHANGED inbox
      BY <1>7 DEF mail!DrainBegins, mail!StopBegins, mail!Locked, mail!NoOne, mail!LockOf, mail!mail
    <2>3. a.at # "none" /\ ~Holds(a)
      BY <1>1, <1>7 DEF mail!DrainBegins, mail!StopBegins, mail!At, Holds
    <2>4. InboxInv' /\ Posted
      BY <2>2, InboxKept DEF MailInv
    <2>5. \A m \in S : Addressed(m, a.s) /\ ~inbox[m].swept /\ <<m, a.s>> \notin delivered
      BY <1>3, <2>1
    <2>6. PICK b0, b : b0 = [a EXCEPT !.at = "write"] /\ b = [b0 EXCEPT !.msgs = S]
      OBVIOUS
    <2>7. RunOf(b) /\ b.at = "write" /\ b.verb = a.verb /\ b.s = a.s /\ b.msgs = S
      <3>1. RunOf(a)
        BY <1>1, <2>3, NotFree DEF MailInv, HooksInv, HookOf
      <3> QED
        BY <2>6, <3>1 DEF RunOf
    <2>8. hooks' = [hooks EXCEPT ![h] = b]
      BY <1>1, <2>1, <2>6
    <2> QED
      BY <1>1, <1>2, <2>2, <2>3, <2>4, <2>5, <2>7, <2>8, MailTakes
  <1>8. CASE /\ mail(H, N, R)!HelloLook(h)
             /\ hooks' = [hooks EXCEPT ![h].at = "helloWrite",
                            ![h].msgs = mail(H, N, R)!BoundDrain(mail(H, N, R)!Undelivered(hooks[h].s))]
    <2>1. PICK S : /\ S \subseteq mail(H, N, R)!Undelivered(a.s)
                   /\ hooks' = [hooks EXCEPT ![h].at = "helloWrite", ![h].msgs = S]
      BY <1>1, <1>4, <1>8
    <2>2. lock' = lock /\ \E X : inbox' = mail(H, N, R)!Excusing(X)
      BY <1>8 DEF mail!HelloLook
    <2>3. a.at = "helloLook"
      BY <1>1, <1>8 DEF mail!HelloLook, mail!At
    <2>4. a.at # "none" /\ ~Holds(a) /\ a.verb = "hello"
      BY <1>1, <2>3, NotFree DEF Holds, MailInv, HooksInv, HookOf, HelloSteps
    <2>5. InboxInv' /\ Posted
      BY <2>2, InboxExcusing DEF MailInv
    <2>6. \A m \in S : Addressed(m, a.s) /\ ~inbox[m].swept /\ <<m, a.s>> \notin delivered
      BY <1>3, <2>1
    <2>7. PICK b0, b : b0 = [a EXCEPT !.at = "helloWrite"] /\ b = [b0 EXCEPT !.msgs = S]
      OBVIOUS
    <2>8. RunOf(b) /\ b.at = "helloWrite" /\ b.verb = a.verb /\ b.s = a.s /\ b.msgs = S
      <3>1. RunOf(a)
        BY <1>1, <2>4, NotFree DEF MailInv, HooksInv, HookOf
      <3> QED
        BY <2>7, <3>1 DEF RunOf
    <2>9. hooks' = [hooks EXCEPT ![h] = b]
      BY <1>1, <2>1, <2>7
    <2> QED
      BY <1>1, <1>2, <2>2, <2>4, <2>5, <2>6, <2>8, <2>9, MailTakes
  <1>9. ASSUME mail(H, N, R)!StopBegins(h)
        PROVE  \/ hooks' = [hooks EXCEPT ![h] = NoHook] /\ lock' = lock /\ \E S : inbox' = mail(H, N, R)!Excusing(S)
               \/ /\ lock' = h /\ UNCHANGED inbox
                  /\ hooks' = [hooks EXCEPT ![h].at = "write", ![h].msgs = mail(H, N, R)!BoundDrain(mail(H, N, R)!Owed(h))]
    BY <1>9 DEF mail!StopBegins, mail!Ends, mail!Free, mail!LockOf, mail!mail, NoHook
  <1>10. ASSUME mail(H, N, R)!HelloLook(h)
         PROVE  \/ hooks' = [hooks EXCEPT ![h] = NoHook]
                \/ hooks' = [hooks EXCEPT ![h].at = "helloWrite",
                               ![h].msgs = mail(H, N, R)!BoundDrain(mail(H, N, R)!Undelivered(hooks[h].s))]
    BY <1>10 DEF mail!HelloLook, mail!Ends, mail!Free, NoHook
  <1> QED
    BY <1>5, <1>6, <1>7, <1>8, <1>9, <1>10


(* A document written: a drain has in its hands what none has shown. *)
LEMMA MailWrites ==
  ASSUME NEW H, NEW N, NEW R, MailInv(H), NEW h \in H, mail(H, N, R)!Write(h)
  PROVE  MailInv(H)'
  <1>1. PICK a, b : a = hooks[h] /\ b = [a EXCEPT !.at = "mark"]
    OBVIOUS
  <1>2. /\ UNCHANGED <<inbox, delivered, lock>> /\ a.at \in {"write", "helloWrite"}
        /\ hooks' = [hooks EXCEPT ![h] = b]
        /\ shown' = shown \cup {Show(m, a.s, WayOf(a)) : m \in a.msgs}
    BY <1>1 DEF mail!Write, mail!Goto, mail!Shows, mail!Way, Show, WayOf
  <1>3. a.at # "none" /\ a.at # "mark" /\ a # NoHook /\ RunOf(a) /\ HookOf(a) /\ Holds(a)
    BY <1>1, <1>2, NotFree DEF MailInv, HooksInv, HookOf, Holds
  <1>4. RunOf(b) /\ b.at = "mark" /\ b.verb = a.verb /\ b.s = a.s /\ b.msgs = a.msgs
    BY <1>1, <1>3 DEF RunOf
  <1>5. HookOf(b) /\ b # NoHook /\ Holds(b)
    <2>1. b.at \in HelloSteps => b.verb = "hello"
      BY <1>4 DEF HelloSteps
    <2>2. b.at # "none" /\ \A m \in b.msgs : Addressed(m, b.s)
      BY <1>3, <1>4 DEF HookOf
    <2> QED
      BY <1>4, <2>1, <2>2, NotFree DEF HookOf, Holds
  <1>6. InboxInv' /\ Posted
    BY <1>2, InboxKept DEF MailInv
  <1>7. HooksInv(H)' /\ HellosInv(H)'
    <2>1. HookOf(b)' /\ (Greets(b) => Greets(hooks[h]) /\ b.s = hooks[h].s)
      BY <1>1, <1>3, <1>4, <1>5, <1>6, HookStays DEF Greets
    <2> QED
      BY <1>2, <1>6, <2>1, OneHook DEF MailInv
  <1>8. hooks'[h] = b /\ \A g \in H : g # h => hooks'[g] = hooks[g]
    BY <1>2 DEF MailInv, HooksInv
  <1>9. \A g \in H : Drains(hooks'[g]) => Drains(hooks[g])
    <2>1. ASSUME Drains(b) PROVE Drains(a)
      <3>1. b.verb # "hello"
        BY <1>5, <2>1 DEF Drains, Greets
      <3> QED
        BY <1>3, <1>4, <3>1 DEF Drains, Greets
    <2> QED
      BY <1>1, <1>8, <2>1
  <1>10. LockInv(H)'
    BY <1>2, <1>9 DEF MailInv, LockInv, Drains, Holds, Greets
  <1>11. \A m, s, by : \A g \in H : Holding(hooks'[g], m, s, by) => Holding(hooks[g], m, s, by)
    <2>1. \A m, s, by : Holding(b, m, s, by) => Holding(a, m, s, by)
      BY <1>3, <1>4 DEF Holding, WayOf
    <2> QED
      BY <1>1, <1>8, <2>1
  <1>12. ShownInv'
    <2> SUFFICES ASSUME NEW x \in shown'
                 PROVE  x = Show(x.m, x.s, x.by) /\ x.by \in {"drain", "digest"} /\ Addressed(x.m, x.s)
      BY <1>6, AddressedStays DEF ShownInv, Show
    <2>1. CASE x \in shown
      BY <2>1 DEF MailInv, ShownInv
    <2>2. CASE \E m \in a.msgs : x = Show(m, a.s, WayOf(a))
      BY <1>3, <2>2 DEF HookOf, Show, WayOf
    <2> QED
      BY <1>2, <2>1, <2>2
  <1>13. MarksInv(H)'
    <2> SUFFICES ASSUME NEW g \in H, hooks'[g].at = "mark", NEW m \in hooks'[g].msgs
                 PROVE  Show(m, hooks'[g].s, WayOf(hooks'[g])) \in shown'
      BY DEF MarksInv, WayOf, Show
    <2>1. CASE g = h
      <3>1. PICK c : c = hooks'[g] /\ c = b
        BY <1>8, <2>1
      <3>2. m \in a.msgs /\ c.s = a.s /\ WayOf(c) = WayOf(a)
        BY <1>4, <3>1 DEF WayOf
      <3>3. Show(m, c.s, WayOf(c)) \in shown'
        BY <1>2, <3>2
      <3> QED
        BY <3>1, <3>3
    <2>2. CASE g # h
      <3>1. PICK c : c = hooks'[g] /\ c = hooks[g]
        BY <1>8, <2>2
      <3>2. Show(m, c.s, WayOf(c)) \in shown'
        BY <1>2, <3>1 DEF MailInv, MarksInv
      <3> QED
        BY <3>1, <3>2
    <2> QED
      BY <2>1, <2>2
  <1>14. SettledInv(H)'
    <2> SUFFICES ASSUME NEW d \in delivered PROVE Settled(H, d[1], d[2])'
      BY <1>2 DEF MailInv, SettledInv
    <2>1. PICK m, s : m = d[1] /\ s = d[2]
      OBVIOUS
    <2>2. Settled(H, m, s)
      BY <2>1 DEF MailInv, SettledInv
    <2>3. PICK by \in {"drain", "digest"} : Show(m, s, by) \in shown /\ \A g \in H : ~Holding(hooks[g], m, s, by)
      BY <2>2 DEF Settled
    <2>4. Show(m, s, by) \in shown' /\ \A g \in H : ~Holding(hooks'[g], m, s, by)
      BY <1>2, <1>11, <2>3
    <2> QED
      BY <2>1, <2>4 DEF Settled, Holding, Holds, WayOf, Show
  <1>15. TakenInv(H)'
    <2> SUFFICES ASSUME NEW x \in shown', x.by = "drain" PROVE Taken(H, x.m, x.s)'
      BY DEF TakenInv
    <2>1. CASE x \in shown
      <3>1. Taken(H, x.m, x.s)
        BY <2>1 DEF MailInv, TakenInv
      <3>2. ASSUME NEW g \in H, hooks[g].at = "mark", Holding(hooks[g], x.m, x.s, "drain") PROVE Taken(H, x.m, x.s)'
        <4>1. hooks'[g] = hooks[g]
          BY <1>1, <1>3, <1>8, <3>2
        <4> QED
          BY <3>2, <4>1 DEF Taken, Holding, Holds, WayOf
      <3> QED
        BY <1>2, <3>1, <3>2 DEF Taken
    <2>2. CASE \E m \in a.msgs : x = Show(m, a.s, WayOf(a))
      <3>1. Holding(b, x.m, x.s, "drain")
        BY <1>4, <1>5, <2>2 DEF Show, Holding, WayOf
      <3> QED
        BY <1>4, <1>8, <3>1 DEF Taken, Holding, Holds, WayOf
    <2> QED
      BY <1>2, <2>1, <2>2
  <1>16. Drains(a) => \A g \in H : Drains(hooks[g]) => g = h
    BY <1>1 DEF MailInv, LockInv
  <1>17. UnshownInv(H)'
    <2> SUFFICES ASSUME NEW g \in H, Drains(hooks'[g]), hooks'[g].at # "mark", NEW m \in hooks'[g].msgs,
                        Show(m, hooks'[g].s, "drain") \in shown'
                 PROVE  FALSE
      BY DEF UnshownInv, Drains, Holds, Greets, Show
    <2>1. g # h
      BY <1>4, <1>8
    <2>2. PICK c : c = hooks[g] /\ c = hooks'[g]
      BY <1>8, <2>1
    <2>3. Show(m, c.s, "drain") \notin shown
      BY <2>2 DEF MailInv, UnshownInv
    <2>4. WayOf(a) = "drain"
      <3>1. Show(m, c.s, "drain") \in shown'
        BY <2>2
      <3>2. PICK n \in a.msgs : Show(m, c.s, "drain") = Show(n, a.s, WayOf(a))
        BY <1>2, <2>3, <3>1
      <3> QED
        BY <3>2 DEF Show
    <2>5. Drains(a)
      BY <1>3, <2>4 DEF Drains, WayOf, Greets
    <2> QED
      BY <1>16, <2>1, <2>2, <2>5
  <1>18. "drain" \notin again'
    <2> SUFFICES ASSUME "drain" \in again' PROVE FALSE
      OBVIOUS
    <2>1. PICK y \in shown : y.s = a.s /\ y.m \in a.msgs /\ y.by # "digest" /\ WayOf(a) # "digest"
      <3>1. again' = again \cup mail(H, N, R)!Repeats(h) /\ "drain" \notin again
        BY DEF mail!Write, MailInv
      <3>2. "drain" \in mail(H, N, R)!Repeats(h)
        BY <3>1
      <3>3. PICK y \in shown : y.s = a.s /\ y.m \in a.msgs /\ "drain" = (IF "digest" \in {y.by, WayOf(a)} THEN "digest" ELSE "drain")
        BY <1>1, <3>2 DEF mail!Repeats, mail!Way, WayOf
      <3>4. ~("digest" \in {y.by, WayOf(a)})
        BY <3>3
      <3> QED
        BY <3>3, <3>4
    <2>2. y = Show(y.m, a.s, "drain")
      BY <2>1 DEF MailInv, ShownInv
    <2>3. Drains(a)
      BY <1>3, <2>1 DEF Drains, WayOf, Greets
    <2> QED
      BY <1>1, <1>3, <2>1, <2>2, <2>3 DEF MailInv, UnshownInv
  <1> QED
    BY <1>6, <1>7, <1>10, <1>12, <1>13, <1>14, <1>15, <1>17, <1>18 DEF MailInv



(* A hook that ends leaves the others as they are. *)
LEMMA MailEnds ==
  ASSUME NEW H, "noOne" \notin H, MailInv(H), NEW h \in H, Posted,
         hooks' = [hooks EXCEPT ![h] = NoHook], lock' = lock \/ lock \in {h, "noOne"}
  PROVE  /\ HooksInv(H)' /\ HellosInv(H)' /\ LockInv(H)'
         /\ \A g \in H : g # h => hooks'[g] = hooks[g]
         /\ \A g \in H : Holds(hooks'[g]) => g # h
  <1>1. HookOf(NoHook)' /\ ~Greets(NoHook) /\ ~Holds(NoHook)
    BY DEF HookOf, Greets, Holds, NoHook
  <1>2. HooksInv(H)' /\ HellosInv(H)'
    BY <1>1, OneHook DEF MailInv
  <1>3. hooks'[h] = NoHook /\ \A g \in H : g # h => hooks'[g] = hooks[g]
    BY DEF MailInv, HooksInv
  <1>4. \A g \in H : Holds(hooks'[g]) => g # h
    BY <1>1, <1>3
  <1>5. LockInv(H)'
    <2> SUFFICES ASSUME NEW g \in H, Drains(hooks'[g]) PROVE lock' = g
      BY DEF LockInv, Drains, Holds, Greets
    <2>1. g # h
      BY <1>4 DEF Drains
    <2>2. Drains(hooks[g])
      BY <1>3, <2>1
    <2>3. lock = g
      BY <2>2 DEF MailInv, LockInv
    <2> QED
      BY <2>1, <2>3
  <1> QED
    BY <1>2, <1>3, <1>4, <1>5

(* What a hook marks is in the session's context, and no other hook has it *)
(* in its hands to take it back.                                           *)
LEMMA MailMarks ==
  ASSUME NEW H, "noOne" \notin H, NEW N, NEW R, MailInv(H), NEW h \in H, mail(H, N, R)!MarkDelivered(h)
  PROVE  MailInv(H)'
  <1>1. PICK a : a = hooks[h]
    OBVIOUS
  <1>2. /\ UNCHANGED <<inbox, shown, again>> /\ a.at = "mark" /\ hooks' = [hooks EXCEPT ![h] = NoHook]
        /\ lock \in {h, "noOne"} /\ delivered' = delivered \cup {<<m, a.s>> : m \in a.msgs}
    BY <1>1 DEF mail!MarkDelivered, mail!At, mail!Ends, mail!Free, mail!NoOne, mail!Wrote, NoHook
  <1>3. InboxInv' /\ Posted
    BY <1>2, InboxKept DEF MailInv
  <1>4. /\ HooksInv(H)' /\ HellosInv(H)' /\ LockInv(H)'
        /\ \A g \in H : g # h => hooks'[g] = hooks[g]
        /\ \A g \in H : Holds(hooks'[g]) => g # h
    BY <1>2, <1>3, MailEnds
  <1>5. ShownInv'
    BY <1>2, <1>3, AddressedStays DEF MailInv, ShownInv, Show
  <1>6. MarksInv(H)'
    <2>1. \A g \in H : hooks'[g].at = "mark" => hooks'[g] = hooks[g]
      BY <1>4 DEF Holds
    <2> QED
      BY <1>2, <2>1, MarksStay DEF MailInv
  <1>7. ASSUME NEW m, NEW s, Settled(H, m, s) PROVE Settled(H, m, s)'
    <2>1. PICK by \in {"drain", "digest"} : Show(m, s, by) \in shown /\ \A g \in H : ~Holding(hooks[g], m, s, by)
      BY <1>7 DEF Settled
    <2>2. \A g \in H : ~Holding(hooks'[g], m, s, by)
      BY <1>4, <2>1 DEF Holding
    <2> QED
      BY <1>2, <2>1, <2>2 DEF Settled, Holding, Holds, WayOf, Show
  <1>8. ASSUME NEW m \in a.msgs PROVE Settled(H, m, a.s)'
    <2>1. PICK by \in {"drain", "digest"} : by = WayOf(a)
      BY DEF WayOf
    <2>2. Show(m, a.s, by) \in shown
      BY <1>1, <1>2, <2>1 DEF MailInv, MarksInv
    <2>3. Holding(hooks[h], m, a.s, by)
      BY <1>1, <1>2, <2>1 DEF Holding, Holds
    <2>4. ASSUME NEW g \in H, Holding(hooks'[g], m, a.s, by) PROVE FALSE
      <3>1. g # h
        BY <1>4, <2>4 DEF Holding
      <3>2. Holding(hooks[g], m, a.s, by)
        BY <1>4, <2>4, <3>1
      <3> QED
        BY <2>3, <3>1, <3>2, Exclusive
    <2> QED
      BY <1>2, <2>2, <2>4 DEF Settled, Holding, Holds, WayOf, Show
  <1>9. SettledInv(H)'
    <2> SUFFICES ASSUME NEW d \in delivered' PROVE d = <<d[1], d[2]>> /\ Settled(H, d[1], d[2])'
      BY DEF SettledInv
    <2>1. CASE d \in delivered
      <3>1. PICK m, s : m = d[1] /\ s = d[2] /\ d = <<m, s>>
        BY <2>1 DEF MailInv, SettledInv
      <3>2. Settled(H, m, s)
        BY <2>1, <3>1 DEF MailInv, SettledInv
      <3>3. Settled(H, m, s)'
        BY <1>7, <3>2
      <3> QED
        BY <3>1, <3>3 DEF Settled
    <2>2. CASE \E m \in a.msgs : d = <<m, a.s>>
      <3>1. PICK m \in a.msgs : d = <<m, a.s>>
        BY <2>2
      <3>2. Settled(H, m, a.s)'
        BY <1>8
      <3> QED
        BY <3>1, <3>2 DEF Settled
    <2> QED
      BY <1>2, <2>1, <2>2
  <1>10. TakenInv(H)'
    <2> SUFFICES ASSUME NEW x \in shown, x.by = "drain" PROVE Taken(H, x.m, x.s)'
      BY <1>2 DEF TakenInv
    <2>1. Taken(H, x.m, x.s)
      BY DEF MailInv, TakenInv
    <2>2. ASSUME NEW g \in H, hooks[g].at = "mark" /\ Holding(hooks[g], x.m, x.s, "drain") PROVE Taken(H, x.m, x.s)'
      <3>1. CASE g = h
        <4>1. <<x.m, x.s>> \in delivered'
          BY <1>1, <1>2, <2>2, <3>1 DEF Holding
        <4> QED
          BY <4>1 DEF Taken
      <3>2. CASE g # h
        <4>1. hooks'[g] = hooks[g]
          BY <1>4, <3>2
        <4> QED
          BY <2>2, <4>1 DEF Taken, Holding, Holds, WayOf
      <3> QED
        BY <3>1, <3>2
    <2> QED
      BY <1>2, <2>1, <2>2 DEF Taken
  <1>11. UnshownInv(H)'
    <2> SUFFICES ASSUME NEW g \in H, Drains(hooks'[g]), hooks'[g].at # "mark", NEW m \in hooks'[g].msgs
                 PROVE  Show(m, hooks'[g].s, "drain") \notin shown
      BY <1>2 DEF UnshownInv, Drains, Holds, Greets, Show
    <2>1. g # h
      BY <1>4 DEF Drains
    <2> QED
      BY <1>4, <2>1 DEF MailInv, UnshownInv
  <1> QED
    BY <1>2, <1>3, <1>4, <1>5, <1>6, <1>9, <1>10, <1>11 DEF MailInv

(* A hook that dies takes back what it wrote and did not mark. *)
LEMMA MailKilled ==
  ASSUME NEW H, "noOne" \notin H, NEW N, NEW R, MailInv(H), NEW h \in H, mail(H, N, R)!Killed(h)
  PROVE  MailInv(H)'
  <1>1. PICK a : a = hooks[h]
    OBVIOUS
  <1>2. /\ UNCHANGED <<delivered, again>> /\ hooks' = [hooks EXCEPT ![h] = NoHook]
        /\ lock' = lock \/ lock \in {h, "noOne"}
        /\ shown' = IF a.at = "mark" THEN shown \ {Show(m, a.s, WayOf(a)) : m \in a.msgs} ELSE shown
        /\ UNCHANGED inbox \/ \E S : inbox' = mail(H, N, R)!Excusing(S)
    BY <1>1 DEF mail!Killed, mail!At, mail!Ends, mail!Free, mail!Shows, mail!Way, NoHook, Show, WayOf
  <1>3. InboxInv' /\ Posted
    BY <1>2, InboxKept, InboxExcusing DEF MailInv
  <1>4. /\ HooksInv(H)' /\ HellosInv(H)' /\ LockInv(H)'
        /\ \A g \in H : g # h => hooks'[g] = hooks[g]
        /\ \A g \in H : Holds(hooks'[g]) => g # h
    BY <1>2, <1>3, MailEnds
  <1>5. shown' \subseteq shown
    BY <1>2
  <1>6. ASSUME NEW m, NEW s, NEW by, Show(m, s, by) \in shown, ~Holding(a, m, s, by) PROVE Show(m, s, by) \in shown'
    <2>1. ASSUME NEW n \in a.msgs, a.at = "mark" PROVE Show(m, s, by) # Show(n, a.s, WayOf(a))
      BY <1>6, <2>1 DEF Holding, Holds, Show
    <2> QED
      BY <1>2, <1>6, <2>1
  <1>7. ShownInv'
    BY <1>3, <1>5, AddressedStays DEF MailInv, ShownInv, Show
  <1>8. MarksInv(H)'
    <2> SUFFICES ASSUME NEW g \in H, hooks'[g].at = "mark", NEW m \in hooks'[g].msgs
                 PROVE  Show(m, hooks'[g].s, WayOf(hooks'[g])) \in shown'
      BY DEF MarksInv, WayOf, Show
    <2>1. g # h
      BY <1>4 DEF Holds
    <2>2. PICK c : c = hooks'[g] /\ c = hooks[g]
      BY <1>4, <2>1
    <2>3. Show(m, c.s, WayOf(c)) \in shown
      BY <2>2 DEF MailInv, MarksInv
    <2>4. PICK s, by : s = c.s /\ by = WayOf(c)
      OBVIOUS
    <2>5. Holding(hooks[g], m, s, by)
      BY <2>2, <2>4 DEF Holding, Holds
    <2>6. ~Holding(a, m, s, by)
      BY <1>1, <2>1, <2>5, Exclusive
    <2>7. Show(m, s, by) \in shown'
      BY <1>6, <2>3, <2>4, <2>6
    <2> QED
      BY <2>2, <2>4, <2>7
  <1>9. SettledInv(H)'
    <2> SUFFICES ASSUME NEW d \in delivered PROVE d = <<d[1], d[2]>> /\ Settled(H, d[1], d[2])'
      BY <1>2 DEF SettledInv
    <2>1. PICK m, s : m = d[1] /\ s = d[2] /\ d = <<m, s>>
      BY DEF MailInv, SettledInv
    <2>2. Settled(H, m, s)
      BY <2>1 DEF MailInv, SettledInv
    <2>3. PICK by \in {"drain", "digest"} : Show(m, s, by) \in shown /\ \A g \in H : ~Holding(hooks[g], m, s, by)
      BY <2>2 DEF Settled
    <2>4. Show(m, s, by) \in shown'
      BY <1>1, <1>6, <2>3
    <2>5. \A g \in H : ~Holding(hooks'[g], m, s, by)
      BY <1>4, <2>3 DEF Holding
    <2> QED
      BY <2>1, <2>4, <2>5 DEF Settled, Holding, Holds, WayOf, Show
  <1>10. TakenInv(H)'
    <2> SUFFICES ASSUME NEW x \in shown', x.by = "drain" PROVE Taken(H, x.m, x.s)'
      BY DEF TakenInv
    <2>1. x \in shown /\ x = Show(x.m, x.s, "drain") /\ x.m \in DOMAIN inbox
      BY <1>5 DEF MailInv, ShownInv, Addressed
    <2>2. Taken(H, x.m, x.s)
      BY <2>1 DEF MailInv, TakenInv
    <2>3. inbox[x.m].swept => inbox'[x.m].swept
      BY <1>3, <2>1 DEF Posted
    <2>4. ASSUME NEW g \in H, hooks[g].at = "mark" /\ Holding(hooks[g], x.m, x.s, "drain") PROVE Taken(H, x.m, x.s)'
      <3>1. g # h
        <4> SUFFICES ASSUME g = h PROVE FALSE
          OBVIOUS
        <4>1. a.at = "mark" /\ x.m \in a.msgs /\ x = Show(x.m, a.s, WayOf(a))
          BY <1>1, <2>1, <2>4 DEF Holding
        <4> QED
          BY <1>2, <4>1
      <3>2. hooks'[g] = hooks[g]
        BY <1>4, <3>1
      <3> QED
        BY <2>4, <3>2 DEF Taken, Holding, Holds, WayOf
    <2> QED
      BY <1>2, <2>2, <2>3, <2>4 DEF Taken
  <1>11. UnshownInv(H)'
    <2> SUFFICES ASSUME NEW g \in H, Drains(hooks'[g]), hooks'[g].at # "mark", NEW m \in hooks'[g].msgs
                 PROVE  Show(m, hooks'[g].s, "drain") \notin shown'
      BY DEF UnshownInv, Drains, Holds, Greets, Show
    <2>1. g # h
      BY <1>4 DEF Drains
    <2>2. Show(m, hooks'[g].s, "drain") \notin shown
      BY <1>4, <2>1 DEF MailInv, UnshownInv
    <2> QED
      BY <1>5, <2>2
  <1> QED
    BY <1>2, <1>3, <1>4, <1>7, <1>8, <1>9, <1>10, <1>11 DEF MailInv



-----------------------------------------------------------------------------
LEMMA MailInit ==
  ASSUME NEW H, NEW N, NEW R, mail(H, N, R)!Init
  PROVE  MailInv(H)
  <1>1. /\ inbox = <<>> /\ delivered = {} /\ shown = {} /\ again = {}
        /\ hooks = [h \in H |-> NoHook]
    BY DEF mail!Init, mail!Free, NoHook
  <1>2. InboxInv
    <2>1. DOMAIN inbox = {} /\ Cardinality({}) = 0
      BY <1>1, FS_EmptySet
    <2> QED
      BY <2>1 DEF InboxInv
  <1>3. \A h \in H : hooks[h] = NoHook
    BY <1>1
  <1>4. HooksInv(H)
    BY <1>1, <1>3 DEF HooksInv, HookOf
  <1>5. ~Holds(NoHook) /\ ~Greets(NoHook) /\ NoHook.at # "mark"
    BY DEF Holds, Greets, NoHook
  <1>6. LockInv(H) /\ HellosInv(H) /\ UnshownInv(H)
    BY <1>3, <1>5 DEF LockInv, HellosInv, UnshownInv, Drains
  <1>7. MarksInv(H) /\ ShownInv /\ SettledInv(H) /\ TakenInv(H)
    BY <1>1, <1>3, <1>5 DEF MarksInv, ShownInv, SettledInv, TakenInv
  <1> QED
    BY <1>1, <1>2, <1>4, <1>6, <1>7 DEF MailInv

LEMMA MailStands ==
  ASSUME NEW H, MailInv(H), UNCHANGED <<inbox, shown, delivered, again, hooks, lock>>
  PROVE  MailInv(H)'
  <1>1. InboxInv' /\ Posted
    BY InboxKept DEF MailInv
  <1> QED
    BY <1>1, MailApart

LEMMA MailStep ==
  ASSUME NEW H, "noOne" \notin H, NEW N, NEW R, MailInv(H), mail(H, N, R)!Next
  PROVE  MailInv(H)'
  <1>1. CASE \E m \in 1..N : mail(H, N, R)!Sending(m)
    BY <1>1, MailSent
  <1>2. CASE \E m \in DOMAIN inbox : mail(H, N, R)!Ages(m) \/ mail(H, N, R)!SweepInbox(m)
    BY <1>2, MailSent, MailSweeps
  <1>3. CASE \E s \in Session : mail(H, N, R)!Harness(s)
    BY <1>3, MailHarness
  <1>4. CASE \E h \in H : mail(H, N, R)!Hooks(h)
    <2>1. PICK h \in H : mail(H, N, R)!Hooks(h)
      BY <1>4
    <2>2. CASE mail(H, N, R)!BeatRow(h) \/ mail(H, N, R)!BusyClear(h) \/ mail(H, N, R)!Look(h) \/ mail(H, N, R)!HelloRow(h)
      BY <2>2, MailHookGoes
    <2>3. CASE mail(H, N, R)!DrainBegins(h) \/ mail(H, N, R)!StopBegins(h) \/ mail(H, N, R)!HelloLook(h)
      BY <2>3, MailBegins
    <2>4. CASE mail(H, N, R)!MarkIdle(h) \/ mail(H, N, R)!WriteFails(h)
      BY <2>4, MailRests
    <2>5. CASE mail(H, N, R)!Write(h)
      BY <2>5, MailWrites
    <2>6. CASE mail(H, N, R)!MarkDelivered(h)
      BY <2>6, MailMarks
    <2>7. CASE mail(H, N, R)!Killed(h)
      BY <2>7, MailKilled
    <2> QED
      BY <2>1, <2>2, <2>3, <2>4, <2>5, <2>6, <2>7 DEF mail!Hooks
  <1> QED
    BY <1>1, <1>2, <1>3, <1>4 DEF mail!Next, mail!Sent

(* The mails the runs check, each with hooks of its own. *)
MailParts ==
  /\ part = "mail" => MailInv({"hook"})
  /\ part = "mailAnew" => MailInv(Two)

LEMMA LockIsNoHook == "noOne" \notin {"hook"} /\ "noOne" \notin Two
  BY HookNames DEF mail!HookAssumption, mail!NoOne

LEMMA MailPartsStep == ASSUME MailParts, [Next]_vars PROVE MailParts'
  <1>1. CASE part = "mail" /\ part' = part /\ mail({"hook"}, 2, 1)!Next
    <2>1. MailInv({"hook"})'
      BY <1>1, MailStep, LockIsNoHook DEF MailParts
    <2> QED
      BY <1>1, <2>1 DEF MailParts
  <1>2. CASE part = "mailAnew" /\ part' = part /\ mail(Two, 1, 2)!Next
    <2>1. MailInv(Two)'
      BY <1>2, MailStep, LockIsNoHook DEF MailParts
    <2> QED
      BY <1>2, <2>1 DEF MailParts
  <1>3. CASE part' = part /\ part \notin {"mail", "mailAnew"}
    BY <1>3 DEF MailParts
  <1>4. CASE UNCHANGED vars
    <2>1. UNCHANGED <<part, inbox, shown, delivered, again, hooks, lock>>
      BY <1>4 DEF vars, onlyMail
    <2>2. \A H : MailInv(H) => MailInv(H)'
      BY <2>1, MailStands
    <2> QED
      BY <2>1, <2>2 DEF MailParts
  <1>5. Next => \/ part = "mail" /\ part' = part /\ mail({"hook"}, 2, 1)!Next
                \/ part = "mailAnew" /\ part' = part /\ mail(Two, 1, 2)!Next
                \/ part' = part /\ part \notin {"mail", "mailAnew"}
    BY DEF Next, MailNext, MailAnewNext, AlertNext, AlertRoomsNext, ReadNext, ConciergeNext
  <1> QED
    BY <1>1, <1>2, <1>3, <1>4, <1>5

(* The inductive invariant of the mail: what each hook has in its hands,   *)
(* and how that stands to the lock, to what is shown and to what is marked. *)
THEOREM MailInvariant == Spec => []MailParts
  <1>1. Init => MailParts
    <2>1. CASE part = "mail" /\ mail({"hook"}, 2, 1)!Init
      <3>1. MailInv({"hook"})
        BY <2>1, MailInit
      <3> QED
        BY <2>1, <3>1 DEF MailParts
    <2>2. CASE part = "mailAnew" /\ mail(Two, 1, 2)!Init
      <3>1. MailInv(Two)
        BY <2>2, MailInit
      <3> QED
        BY <2>2, <3>1 DEF MailParts
    <2>3. CASE part \notin {"mail", "mailAnew"}
      BY <2>3 DEF MailParts
    <2>4. Init => \/ part = "mail" /\ mail({"hook"}, 2, 1)!Init
                  \/ part = "mailAnew" /\ mail(Two, 1, 2)!Init
                  \/ part \notin {"mail", "mailAnew"}
      BY DEF Init
    <2> QED
      BY <2>1, <2>2, <2>3, <2>4
  <1> QED
    BY <1>1, MailPartsStep, PTL DEF Spec

LEMMA Exact ==
  ASSUME NEW H, NEW N, NEW R, MailInv(H)
  PROVE  mail(H, N, R)!DrainsAreExact
  <1>1. \A x \in shown : mail(H, N, R)!AddressedTo(x.m, x.s)
    BY DEF MailInv, ShownInv, Addressed, mail!AddressedTo, mail!Broadcast
  <1>2. ASSUME NEW d \in delivered PROVE \E x \in shown : x.m = d[1] /\ x.s = d[2]
    <2>1. PICK m, s : m = d[1] /\ s = d[2]
      OBVIOUS
    <2>2. Settled(H, m, s)
      BY <2>1 DEF MailInv, SettledInv
    <2>3. PICK by : Show(m, s, by) \in shown
      BY <2>2 DEF Settled
    <2> QED
      BY <2>1, <2>3 DEF Show
  <1> QED
    BY <1>1, <1>2 DEF MailInv, mail!DrainsAreExact, mail!DeliveredWasShown, mail!DrainsTakeTurns

(* What is marked delivered to a session is in its context, only what was  *)
(* addressed to it is, and two drains that run together do not hand it the *)
(* same message (drain.go, Drain): of any sessions, hooks and bound.       *)
THEOREM DrainsStayExact == Spec => []DrainsAreExact
  <1>1. MailParts => DrainsAreExact
    BY Exact DEF MailParts, DrainsAreExact
  <1> QED
    BY <1>1, MailInvariant, PTL

-----------------------------------------------------------------------------
(***************************************************************************)
(* The wake.  A session that is registered and at its prompt is marked     *)
(* idle, or one of the things has happened that excuse its mail, or it has *)
(* not been heard of since it registered.  So mail nobody will look at any *)
(* more is mail whose sender saw the mark, and mail whose sender saw no    *)
(* mark has a Stop or a digest before it.                                  *)
(***************************************************************************)
SessionRec ==
  [live : BOOLEAN, inc : Nat, fresh : BOOLEAN, turn : {"prompt", "working", "stopping"},
   continued : BOOLEAN, unreported : BOOLEAN, greeted : BOOLEAN, muted : BOOLEAN]
Seeking == [at : {"none"}]
Naming == [at : {"observed", "inserted"}, to : Session, inc : Nat, wakes : BOOLEAN, reached : BOOLEAN]
Decided == [at : {"done"}, wakes : BOOLEAN]

RestTypeOK(N) ==
  /\ session \in [Session -> SessionRec] /\ idle \in [Session -> Nat]
  /\ sender \in [1..N -> Seeking \cup Naming \cup Decided]

(* What a hook is of says what its session is doing. *)
Fits(a) ==
  a = NoHook \/
    /\ a.s \in Session /\ a.verb \in {"busy", "beat", "inbox", "subagent", "stop", "hello"}
    /\ a.at \in {"busy", "beat", "subagent", "stop"} => a.verb = a.at
    /\ a.at = "markIdle" => a.verb = "stop"
    /\ a.verb \in {"busy", "beat", "inbox"} => session[a.s].live /\ session[a.s].turn = "working"
    /\ a.verb = "subagent" => session[a.s].live /\ session[a.s].turn = "prompt"
    /\ a.verb = "stop" => session[a.s].live /\ session[a.s].turn = "stopping"
    /\ a.verb = "hello" => session[a.s].live \/ a.at = "hello"
FitInv(H) == \A h \in H : Fits(hooks[h])
Stops(a) == a # NoHook /\ a.verb = "stop"
StopInv(H) == \A g \in H : \A h \in H : Stops(hooks[g]) /\ Stops(hooks[h]) /\ hooks[g].s = hooks[h].s => g = h

(* At its prompt, and what then tells a sender so or excuses its mail. *)
AtRest(s) == session[s].live /\ session[s].turn = "prompt"
Known(s) == idle[s] = session[s].inc \/ session[s].unreported \/ session[s].greeted \/ session[s].muted
QuietInv == \A s \in Session : AtRest(s) => Known(s) \/ ~session[s].fresh

(* A sender that saw no mark finds one when it looks again. *)
Looks(m) == sender[m].at \in {"observed", "inserted"}
LooksInv(N) ==
  \A m \in 1..N : Looks(m) =>
    /\ sender[m].inc <= session[sender[m].to].inc
    /\ ~sender[m].wakes /\ sender[m].inc = session[sender[m].to].inc /\ AtRest(sender[m].to) => Known(sender[m].to)

SentInv(N) ==
  /\ \A m \in DOMAIN inbox :
       /\ m \in 1..N /\ sender[m].at \in {"inserted", "done"}
       /\ inbox[m].to # "all" => inbox[m].to \in Session
       /\ sender[m].at = "inserted" => inbox[m].to = sender[m].to
  /\ \A m \in 1..N : sender[m].at = "inserted" => m \in DOMAIN inbox

(* Mail that has no wake and no excuse, and a digest that will hand it over. *)
Waits(m) ==
  /\ sender[m].at = "done" /\ ~sender[m].wakes
  /\ inbox[m].to # "all" /\ ~inbox[m].swept /\ inbox[m].excused = "no" /\ <<m, inbox[m].to>> \notin delivered
Digests(a, m, s) ==
  /\ Greets(a) /\ a.s = s
  /\ a.at = "helloLook" \/ (a.at \in {"helloWrite", "mark"} /\ m \in a.msgs)
Coming(H, m) == \E h \in H : Digests(hooks[h], m, inbox[m].to)
ComingInv(H) == \A m \in DOMAIN inbox : Waits(m) /\ AtRest(inbox[m].to) => Coming(H, m)

RestInv(H, N) ==
  /\ RestTypeOK(N) /\ FitInv(H) /\ StopInv(H) /\ QuietInv /\ LooksInv(N) /\ SentInv(N) /\ ComingInv(H)


-----------------------------------------------------------------------------
(* What a step may do to a session: one that was at its prompt is as known *)
(* and as fresh, one that comes to rest is known, and one that registers   *)
(* again has not been heard of.                                            *)
Moves(s) ==
  \/ /\ session'[s].inc = session[s].inc
     /\ AtRest(s)' => /\ AtRest(s) /\ (Known(s) => Known(s)')
                      /\ (session'[s].fresh => session[s].fresh \/ Known(s)')
  \/ session'[s].inc = session[s].inc /\ Known(s)'
  \/ session'[s].inc = session[s].inc + 1 /\ ~session'[s].fresh

(* No mail waits that did not. *)
Wanes ==
  /\ DOMAIN inbox' = DOMAIN inbox /\ sender' = sender
  /\ \A m \in DOMAIN inbox : inbox'[m].to = inbox[m].to /\ (Waits(m)' => Waits(m))

LEMMA StillMoves ==
  ASSUME NEW s, session'[s] = session[s], idle'[s] = idle[s]
  PROVE  Moves(s)
  BY DEF Moves, AtRest, Known

LEMMA QuietStays == ASSUME QuietInv, \A s \in Session : Moves(s) PROVE QuietInv'
  <1> SUFFICES ASSUME NEW s \in Session, AtRest(s)' PROVE Known(s)' \/ ~session'[s].fresh
    BY DEF QuietInv, AtRest, Known
  <1>1. Moves(s) /\ (AtRest(s) => Known(s) \/ ~session[s].fresh)
    BY DEF QuietInv
  <1> QED
    BY <1>1 DEF Moves

LEMMA LooksStay ==
  ASSUME NEW N, RestTypeOK(N), LooksInv(N), sender' = sender, \A s \in Session : Moves(s) PROVE LooksInv(N)'
  <1> SUFFICES ASSUME NEW m \in 1..N, Looks(m)
               PROVE  /\ sender[m].inc <= session'[sender[m].to].inc
                      /\ ~sender[m].wakes /\ sender[m].inc = session'[sender[m].to].inc /\ AtRest(sender[m].to)'
                           => Known(sender[m].to)'
    BY DEF LooksInv, Looks, AtRest, Known
  <1>1. PICK a, s, inc : a = sender[m] /\ s = a.to /\ inc = a.inc
    OBVIOUS
  <1>2. a \in Naming
    BY <1>1 DEF RestTypeOK, Looks, Seeking, Decided
  <1>3. s \in Session /\ inc \in Nat
    BY <1>1, <1>2 DEF Naming
  <1>4. PICK n \in Nat : n = session[s].inc
    BY <1>3 DEF RestTypeOK, SessionRec
  <1>5. inc <= n /\ (~a.wakes /\ inc = n /\ AtRest(s) => Known(s))
    BY <1>1, <1>4 DEF LooksInv
  <1>6. Moves(s)
    BY <1>3
  <1>7. PICK k : k = session'[s].inc
    OBVIOUS
  <1>8. k = n \/ k = n + 1
    BY <1>4, <1>6, <1>7 DEF Moves
  <1>9. inc <= k
    BY <1>3, <1>4, <1>5, <1>8
  <1>10. ASSUME ~a.wakes, inc = k, AtRest(s)' PROVE Known(s)'
    <2>1. k = n
      BY <1>3, <1>4, <1>5, <1>8, <1>10
    <2>2. k # n + 1
      BY <1>4, <2>1
    <2> QED
      BY <1>4, <1>5, <1>6, <1>7, <1>10, <2>1, <2>2 DEF Moves
  <1> QED
    BY <1>1, <1>7, <1>9, <1>10

LEMMA SentStays == ASSUME NEW N, SentInv(N), Wanes PROVE SentInv(N)'
  BY DEF SentInv, Wanes

LEMMA FitsStay ==
  ASSUME NEW a, Fits(a), session'[a.s].live = session[a.s].live, session'[a.s].turn = session[a.s].turn
  PROVE  Fits(a)'
  BY DEF Fits

(* A message that waits is owed to its session. *)
LEMMA WaitsIsOwed ==
  ASSUME NEW H, NEW N, NEW R, NEW m \in DOMAIN inbox, Waits(m), NEW s, s = inbox[m].to
  PROVE  m \in mail(H, N, R)!Undelivered(s)
  BY DEF Waits, mail!Undelivered, mail!Queued, mail!AddressedTo, mail!Sent, mail!Broadcast

LEMMA Excuses ==
  ASSUME InboxInv, NEW H, NEW N, NEW R, NEW S, inbox' = mail(H, N, R)!Excusing(S), sender' = sender, delivered' = delivered
  PROVE  Wanes /\ \A m \in DOMAIN inbox : m \in S => ~Waits(m)'
  <1>1. DOMAIN inbox' = DOMAIN inbox
    BY DEF mail!Excusing, mail!Sent
  <1>2. ASSUME NEW m \in DOMAIN inbox
        PROVE  /\ inbox'[m].to = inbox[m].to /\ (Waits(m)' => Waits(m))
               /\ m \in S => ~Waits(m)'
    <2>1. PICK x, y, e : x = inbox[m] /\ y = inbox'[m] /\ e = (IF m \in S THEN "yes" ELSE x.excused) /\ y = [x EXCEPT !.excused = e]
      BY DEF mail!Excusing, mail!Sent
    <2>2. LetterOf(x)
      BY <2>1 DEF InboxInv
    <2>3. y.to = x.to /\ y.swept = x.swept /\ y.excused = e
      BY <2>1, <2>2 DEF LetterOf
    <2>4. e = "no" => m \notin S /\ x.excused = "no"
      BY <2>1
    <2> QED
      BY <2>1, <2>3, <2>4 DEF Waits
  <1> QED
    BY <1>1, <1>2 DEF Wanes

LEMMA KeptWanes ==
  ASSUME inbox' = inbox, sender' = sender, delivered \subseteq delivered'
  PROVE  Wanes
  BY DEF Wanes, Waits

-----------------------------------------------------------------------------
(* A step of the sessions s: hooks of others fit as they did, and hooks of *)
(* s that are not the step's fit whatever it does to s.                    *)
OnlyOf(s) ==
  /\ session' \in [Session -> SessionRec] /\ idle' \in [Session -> Nat]
  /\ \A t \in Session : t # s => session'[t] = session[t] /\ idle'[t] = idle[t]
  /\ Moves(s)
Doing(s) == session'[s].live = session[s].live /\ session'[s].turn = session[s].turn

LEMMA OthersMove ==
  ASSUME NEW N, RestTypeOK(N), QuietInv, LooksInv(N), NEW s \in Session, OnlyOf(s), sender' = sender
  PROVE  RestTypeOK(N)' /\ QuietInv' /\ LooksInv(N)'
  <1>1. \A t \in Session : Moves(t)
    BY StillMoves DEF OnlyOf
  <1>2. RestTypeOK(N)'
    BY DEF RestTypeOK, OnlyOf, SessionRec, Seeking, Naming, Decided
  <1> QED
    BY <1>1, <1>2, QuietStays, LooksStay

(* With a Stop under way a session has no hooks but those of SessionStart, *)
(* and one that is not registered has only the one that registers it.      *)
LEMMA OthersFit ==
  ASSUME NEW H, FitInv(H), StopInv(H), HellosInv(H), NEW h \in H, Fits(hooks[h]), NEW g \in H, g # h, hooks[g] # NoHook,
         hooks[g].s = hooks[h].s, Stops(hooks[h]) \/ (Greets(hooks[h]) /\ ~session[hooks[h].s].live)
  PROVE  Stops(hooks[h]) /\ Greets(hooks[g])
  <1>1. PICK a, b : a = hooks[h] /\ b = hooks[g]
    OBVIOUS
  <1>2. Fits(b) /\ b # NoHook
    BY <1>1 DEF FitInv
  <1>3. b.verb \in {"busy", "beat", "inbox", "subagent", "stop", "hello"}
    BY <1>2 DEF Fits
  <1>4. CASE Stops(a)
    <2>1. session[b.s].turn = "stopping"
      <3>1. a # NoHook /\ a.verb = "stop" /\ b.s = a.s
        BY <1>1, <1>4 DEF Stops
      <3> QED
        BY <1>1, <3>1 DEF Fits
    <2>2. b.verb # "stop"
      BY <1>1, <1>2, <1>4 DEF StopInv, Stops
    <2>3. b.verb \notin {"busy", "beat", "inbox"}
      <3>1. "stopping" # "working"
        OBVIOUS
      <3> QED
        BY <1>2, <2>1, <3>1 DEF Fits
    <2>4. b.verb # "subagent"
      <3>1. "stopping" # "prompt"
        OBVIOUS
      <3> QED
        BY <1>2, <2>1, <3>1 DEF Fits
    <2>5. b.verb = "hello"
      BY <1>3, <2>2, <2>3, <2>4
    <2> QED
      BY <1>1, <1>2, <1>4, <2>5 DEF Greets
  <1>5. CASE Greets(a) /\ ~session[a.s].live
    <2>1. ~session[b.s].live
      BY <1>1, <1>5
    <2>2. b.verb = "hello"
      <3>1. b.verb \notin {"busy", "beat", "inbox"}
        BY <1>2, <2>1 DEF Fits
      <3>2. b.verb # "subagent" /\ b.verb # "stop"
        BY <1>2, <2>1 DEF Fits
      <3> QED
        BY <1>3, <3>1, <3>2
    <2>3. Greets(b)
      BY <1>2, <2>2 DEF Greets
    <2> QED
      BY <1>1, <1>5, <2>3 DEF HellosInv
  <1> QED
    BY <1>1, <1>4, <1>5

(* The prime of what is coming, by the session it is for. *)
LEMMA ComingWhere ==
  ASSUME NEW H, \A m \in DOMAIN inbox' : \A t : Waits(m)' /\ t = inbox'[m].to /\ AtRest(t)' => \E g \in H : Digests(hooks'[g], m, t)
  PROVE  ComingInv(H)'
  <1> SUFFICES ASSUME NEW m \in DOMAIN inbox', Waits(m)', AtRest(inbox[m].to)' PROVE Coming(H, m)'
    BY DEF ComingInv
  <1>1. PICK t : t = inbox'[m].to
    OBVIOUS
  <1>2. AtRest(t)'
    BY <1>1 DEF AtRest
  <1>3. PICK g \in H : Digests(hooks'[g], m, t)
    BY <1>1, <1>2
  <1>4. Digests(hooks[g], m, inbox[m].to)'
    BY <1>1, <1>3 DEF Digests, Greets
  <1> QED
    BY <1>4 DEF Coming

(* A step of one hook: what it does to its session, where it goes, and the *)
(* mail it may leave waiting.                                              *)
LEMMA RestHook ==
  ASSUME NEW H, NEW N, MailInv(H), RestInv(H, N), NEW h \in H, NEW s, s = hooks[h].s, hooks[h] # NoHook,
         NEW b, hooks' = [hooks EXCEPT ![h] = b], Fits(b)', b # NoHook => b.verb = hooks[h].verb /\ b.s = s,
         OnlyOf(s), Doing(s) \/ (Stops(hooks[h]) /\ session'[s].live) \/ (Greets(hooks[h]) /\ ~session[s].live), Wanes,
         \A m \in DOMAIN inbox :
           inbox[m].to = s /\ Waits(m)' /\ ((AtRest(s)' /\ ~AtRest(s)) \/ Digests(hooks[h], m, s)) => Digests(b, m, s)
  PROVE  RestInv(H, N)'
  <1>1. PICK a : a = hooks[h] /\ a # NoHook /\ Fits(a) /\ s = a.s
    BY DEF RestInv, FitInv
  <1>2. s \in Session
    BY <1>1 DEF Fits
  <1>3. hooks'[h] = b /\ \A g \in H : g # h => hooks'[g] = hooks[g]
    BY DEF MailInv, HooksInv
  <1>4. RestTypeOK(N)' /\ QuietInv' /\ LooksInv(N)' /\ SentInv(N)'
    BY <1>2, OthersMove, SentStays DEF RestInv, Wanes
  <1>5. FitInv(H)'
    <2>1. ASSUME NEW g \in H PROVE \E c : c = hooks'[g] /\ Fits(c)'
      <3>1. CASE g = h
        BY <1>3, <3>1
      <3>2. CASE g # h
        <4>1. PICK c : c = hooks[g] /\ Fits(c)
          BY DEF RestInv, FitInv
        <4>2. hooks'[g] = c
          BY <1>3, <3>2, <4>1
        <4>3. CASE c = NoHook
          BY <4>2, <4>3 DEF Fits
        <4>4. CASE c # NoHook /\ c.s # s
          <5>1. c.s \in Session
            BY <4>1, <4>4 DEF Fits
          <5>2. session'[c.s] = session[c.s]
            BY <4>4, <5>1 DEF OnlyOf
          <5> QED
            BY <4>1, <4>2, <5>2, FitsStay
        <4>5. CASE c # NoHook /\ c.s = s /\ Doing(s)
          BY <4>1, <4>2, <4>5, FitsStay DEF Doing
        <4>6. CASE c # NoHook /\ c.s = s /\ ~Doing(s)
          <5>1. Stops(a) /\ Greets(c)
            BY <1>1, <3>2, <4>1, <4>6, OthersFit DEF MailInv, RestInv
          <5>2. session'[s].live
            <6>1. a.verb = "stop" /\ ~Greets(a)
              BY <5>1 DEF Stops, Greets
            <6> QED
              BY <1>1, <4>6, <6>1
          <5>3. c.verb = "hello" /\ c.s \in Session
            BY <1>2, <4>6, <5>1 DEF Greets
          <5>4. Fits(c)'
            BY <4>1, <4>6, <5>2, <5>3 DEF Fits
          <5> QED
            BY <4>2, <5>4
        <4> QED
          BY <4>3, <4>4, <4>5, <4>6
      <3> QED
        BY <3>1, <3>2
    <2> QED
      BY <2>1 DEF FitInv
  <1>6. StopInv(H)'
    <2>1. \A g \in H : Stops(hooks'[g]) => Stops(hooks[g]) /\ hooks'[g].s = hooks[g].s
      <3>1. Stops(b) => Stops(a) /\ b.s = a.s
        BY <1>1 DEF Stops
      <3> QED
        BY <1>1, <1>3, <3>1
    <2> QED
      BY <2>1 DEF RestInv, StopInv, Stops
  <1>7. ComingInv(H)'
    <2> SUFFICES ASSUME NEW m \in DOMAIN inbox', Waits(m)', NEW t, t = inbox'[m].to, AtRest(t)'
                 PROVE  \E g \in H : Digests(hooks'[g], m, t)
      BY ComingWhere
    <2>1. m \in DOMAIN inbox /\ t = inbox[m].to
      BY DEF Wanes
    <2>2. Waits(m)
      BY <2>1 DEF Wanes
    <2>3. t \in Session
      BY <2>1, <2>2 DEF RestInv, SentInv, Waits
    <2>4. CASE t # s
      <3>1. AtRest(t)
        BY <2>1, <2>3, <2>4 DEF OnlyOf, AtRest
      <3>2. PICK g \in H : Digests(hooks[g], m, t)
        BY <2>1, <2>2, <3>1 DEF RestInv, ComingInv, Coming
      <3>3. g # h
        BY <2>4, <3>2 DEF Digests
      <3> QED
        BY <1>3, <2>1, <3>2, <3>3
    <2>5. CASE t = s /\ ~AtRest(s)
      <3>1. Digests(b, m, s)
        BY <2>1, <2>5
      <3> QED
        BY <1>3, <2>1, <2>5, <3>1
    <2>6. CASE t = s /\ AtRest(s)
      <3>1. PICK g \in H : Digests(hooks[g], m, s)
        BY <2>1, <2>2, <2>6 DEF RestInv, ComingInv, Coming
      <3>2. g = h => Digests(b, m, s)
        BY <2>1, <2>6, <3>1
      <3>3. Digests(hooks'[g], m, s)
        BY <1>3, <3>1, <3>2
      <3> QED
        BY <2>1, <2>6, <3>3
    <2> QED
      BY <2>4, <2>5, <2>6
  <1> QED
    BY <1>4, <1>5, <1>6, <1>7 DEF RestInv

(* The harness starts hooks of a session, and may change what it does when *)
(* none of it runs.                                                        *)
LEMMA RestLaunch ==
  ASSUME NEW H, NEW N, MailInv(H), RestInv(H, N), NEW S \in SUBSET H, \A g \in S : hooks[g] = NoHook, NEW s \in Session,
         NEW c, c = NoHook \/ c.s = s, Fits(c)', c.at \notin {"helloLook", "helloWrite", "mark"},
         \A g \in H : hooks'[g] = IF g \in S THEN c ELSE hooks[g],
         OnlyOf(s), AtRest(s)' => AtRest(s),
         Doing(s) \/ \A g \in H : hooks[g].s # s,
         Stops(c) => (\E g \in H : S = {g}) /\ \A g \in H : hooks[g].s # s,
         inbox' = inbox, sender' = sender, delivered' = delivered
  PROVE  RestInv(H, N)'
  <1>1. \A g \in H : hooks'[g] = IF g \in S THEN c ELSE hooks[g]
    OBVIOUS
  <1>2. Wanes
    BY KeptWanes
  <1>3. RestTypeOK(N)' /\ QuietInv' /\ LooksInv(N)' /\ SentInv(N)'
    BY <1>2, OthersMove, SentStays DEF RestInv
  <1>4. FitInv(H)'
    <2>1. ASSUME NEW g \in H PROVE \E d : d = hooks'[g] /\ Fits(d)'
      <3>1. CASE g \in S
        BY <1>1, <3>1
      <3>2. CASE g \notin S
        <4>1. PICK d : d = hooks[g] /\ Fits(d)
          BY DEF RestInv, FitInv
        <4>2. hooks'[g] = d
          BY <1>1, <3>2, <4>1
        <4>3. CASE d = NoHook
          BY <4>2, <4>3 DEF Fits
        <4>4. CASE d # NoHook /\ (d.s # s \/ Doing(s))
          <5>1. d.s \in Session
            BY <4>1, <4>4 DEF Fits
          <5>2. session'[d.s].live = session[d.s].live /\ session'[d.s].turn = session[d.s].turn
            BY <4>4, <5>1 DEF OnlyOf, Doing
          <5> QED
            BY <4>1, <4>2, <5>2, FitsStay
        <4> QED
          BY <4>1, <4>3, <4>4
      <3> QED
        BY <3>1, <3>2
    <2> QED
      BY <2>1 DEF FitInv
  <1>5. StopInv(H)'
    <2> SUFFICES ASSUME NEW g \in H, NEW h \in H, Stops(hooks'[g]), Stops(hooks'[h]), hooks'[g].s = hooks'[h].s PROVE g = h
      BY DEF StopInv, Stops
    <2>1. CASE g \notin S /\ h \notin S
      BY <1>1, <2>1 DEF RestInv, StopInv
    <2>2. CASE g \in S /\ h \in S
      <3>1. Stops(c)
        BY <1>1, <2>2
      <3>2. PICK x : S = {x}
        BY <3>1
      <3> QED
        BY <2>2, <3>2
    <2>3. CASE (g \in S /\ h \notin S) \/ (g \notin S /\ h \in S)
      <3>1. Stops(c) => c.s = s
        BY DEF Stops
      <3>2. Stops(c)
        BY <1>1, <2>3
      <3>3. \A x \in H : hooks[x].s # c.s
        BY <3>1, <3>2
      <3> QED
        BY <1>1, <2>3, <3>3
    <2> QED
      BY <2>1, <2>2, <2>3
  <1>6. ComingInv(H)'
    <2> SUFFICES ASSUME NEW m \in DOMAIN inbox', Waits(m)', NEW t, t = inbox'[m].to, AtRest(t)'
                 PROVE  \E g \in H : Digests(hooks'[g], m, t)
      BY ComingWhere
    <2>1. m \in DOMAIN inbox /\ t = inbox[m].to
      BY <1>2 DEF Wanes
    <2>2. Waits(m)
      BY <1>2, <2>1 DEF Wanes
    <2>3. t \in Session
      BY <2>1, <2>2 DEF RestInv, SentInv, Waits
    <2>4. AtRest(t)
      BY <2>1, <2>3 DEF OnlyOf, AtRest
    <2>5. PICK g \in H : Digests(hooks[g], m, t)
      BY <2>1, <2>2, <2>4 DEF RestInv, ComingInv, Coming
    <2>6. g \notin S
      BY <2>5 DEF Digests, Greets
    <2> QED
      BY <1>1, <2>1, <2>5, <2>6
  <1> QED
    BY <1>3, <1>4, <1>5, <1>6 DEF RestInv

-----------------------------------------------------------------------------
LEMMA FitsGoes ==
  ASSUME NEW a, Fits(a), a # NoHook, a.at # "hello", NEW b, b.verb = a.verb, b.s = a.s,
         b.at \notin {"busy", "beat", "subagent", "stop"}, b.at = "markIdle" => a.verb = "stop"
  PROVE  Fits(b)
  BY DEF Fits

LEMMA StillOnly ==
  ASSUME NEW N, RestTypeOK(N), NEW s, UNCHANGED <<session, idle>>
  PROVE  OnlyOf(s) /\ Doing(s) /\ (AtRest(s)' => AtRest(s))
  <1>1. Moves(s)
    BY StillMoves
  <1>2. Doing(s) /\ (AtRest(s)' => AtRest(s))
    BY DEF Doing, AtRest
  <1> QED
    BY <1>1, <1>2 DEF OnlyOf, RestTypeOK

(* A step of a hook that leaves its session as it is. *)
LEMMA RestGoes ==
  ASSUME NEW H, NEW N, MailInv(H), RestInv(H, N), NEW h \in H, hooks[h].at \notin {"none", "hello"},
         NEW b, hooks' = [hooks EXCEPT ![h] = b],
         \/ b = NoHook
         \/ /\ b.verb = hooks[h].verb /\ b.s = hooks[h].s /\ b.at \notin {"busy", "beat", "subagent", "stop"}
            /\ b.at = "markIdle" => b.verb = "stop",
         Wanes, UNCHANGED <<session, idle>>,
         \A m \in DOMAIN inbox :
           inbox[m].to = hooks[h].s /\ Waits(m)' /\ Digests(hooks[h], m, hooks[h].s) => Digests(b, m, hooks[h].s)
  PROVE  RestInv(H, N)'
  <1>1. PICK a, s : a = hooks[h] /\ s = a.s
    OBVIOUS
  <1>2. a # NoHook /\ Fits(a) /\ a.at # "hello"
    BY <1>1, NotFree DEF RestInv, FitInv
  <1>3. OnlyOf(s) /\ Doing(s) /\ (AtRest(s)' => AtRest(s))
    BY StillOnly DEF RestInv
  <1>4. Fits(b)'
    <2>1. CASE b = NoHook
      BY <2>1 DEF Fits
    <2>2. CASE b # NoHook
      <3>1. Fits(b)
        BY <1>1, <1>2, <2>2, FitsGoes
      <3> QED
        BY <3>1, FitsStay
    <2> QED
      BY <2>1, <2>2
  <1> QED
    BY <1>1, <1>2, <1>3, <1>4, RestHook

LEMMA RunGoes ==
  ASSUME NEW H, MailInv(H), NEW h \in H, hooks[h].at # "none", NEW at, NEW b, b = [hooks[h] EXCEPT !.at = at]
  PROVE  b.at = at /\ b.verb = hooks[h].verb /\ b.s = hooks[h].s /\ b.msgs = hooks[h].msgs
  <1>1. PICK a : a = hooks[h]
    OBVIOUS
  <1>2. RunOf(a)
    BY <1>1, NotFree DEF MailInv, HooksInv, HookOf
  <1> QED
    BY <1>1, <1>2 DEF RunOf

LEMMA RestLooks ==
  ASSUME NEW H, NEW N, NEW R, MailInv(H), RestInv(H, N), NEW h \in H, mail(H, N, R)!Look(h)
  PROVE  RestInv(H, N)'
  <1>1. hooks[h].at = "look" /\ UNCHANGED <<inbox, delivered, sender, session, idle>>
    BY DEF mail!Look, mail!At, mail!mail
  <1>2. hooks' = [hooks EXCEPT ![h] = NoHook] \/ hooks' = [hooks EXCEPT ![h].at = "drain"]
    BY DEF mail!Look, mail!Ends, mail!Free, mail!Goto, NoHook
  <1>3. PICK b : hooks' = [hooks EXCEPT ![h] = b] /\ (b = NoHook \/ b = [hooks[h] EXCEPT !.at = "drain"])
    BY <1>2
  <1>4. \A m, s : ~Digests(hooks[h], m, s)
    BY <1>1 DEF Digests
  <1>5. Wanes
    BY <1>1, KeptWanes
  <1>6. b = NoHook \/ (b.verb = hooks[h].verb /\ b.s = hooks[h].s /\ b.at = "drain")
    BY <1>1, <1>3, RunGoes
  <1> QED
    BY <1>1, <1>3, <1>4, <1>5, <1>6, RestGoes

LEMMA RestBegins ==
  ASSUME NEW H, NEW N, MailInv(H), RestInv(H, N), NEW h \in H, hooks[h].at \in {"drain", "inbox", "stop"},
         NEW S, hooks' = [hooks EXCEPT ![h].at = "write", ![h].msgs = S], UNCHANGED <<inbox, delivered, sender, session, idle>>
  PROVE  RestInv(H, N)'
  <1>1. PICK a, b0, b : a = hooks[h] /\ b0 = [a EXCEPT !.at = "write"] /\ b = [b0 EXCEPT !.msgs = S]
    OBVIOUS
  <1>2. hooks' = [hooks EXCEPT ![h] = b]
    BY <1>1
  <1>3. b.verb = a.verb /\ b.s = a.s /\ b.at = "write"
    <2>1. RunOf(a)
      BY <1>1, NotFree DEF MailInv, HooksInv, HookOf
    <2> QED
      BY <1>1, <2>1 DEF RunOf
  <1>4. \A m, s : ~Digests(hooks[h], m, s)
    BY DEF Digests
  <1>5. Wanes
    BY KeptWanes
  <1>6. hooks[h].at \notin {"none", "hello"} /\ UNCHANGED <<session, idle>>
    OBVIOUS
  <1>7. /\ b.verb = hooks[h].verb /\ b.s = hooks[h].s /\ b.at \notin {"busy", "beat", "subagent", "stop"}
        /\ b.at = "markIdle" => b.verb = "stop"
    BY <1>1, <1>3
  <1> QED
    BY <1>2, <1>4, <1>5, <1>6, <1>7, RestGoes

LEMMA RestWrites ==
  ASSUME NEW H, NEW N, NEW R, MailInv(H), RestInv(H, N), NEW h \in H, mail(H, N, R)!Write(h)
  PROVE  RestInv(H, N)'
  <1>1. PICK a, b : a = hooks[h] /\ b = [a EXCEPT !.at = "mark"]
    OBVIOUS
  <1>2. /\ UNCHANGED <<inbox, delivered, sender, session, idle>> /\ a.at \in {"write", "helloWrite"}
        /\ hooks' = [hooks EXCEPT ![h] = b]
    BY <1>1 DEF mail!Write, mail!Goto
  <1>3. b.at = "mark" /\ b.verb = a.verb /\ b.s = a.s /\ b.msgs = a.msgs
    BY <1>1, <1>2, RunGoes
  <1>4. ASSUME NEW m, Digests(a, m, a.s) PROVE Digests(b, m, a.s)
    <2>1. Greets(a) /\ m \in a.msgs
      BY <1>2, <1>4 DEF Digests
    <2>2. b # NoHook
      <3>1. b.at # "none"
        BY <1>3
      <3> QED
        BY <3>1, NotFree
    <2> QED
      BY <1>3, <2>1, <2>2 DEF Digests, Greets
  <1>5. Wanes
    BY <1>2, KeptWanes
  <1> QED
    BY <1>1, <1>2, <1>3, <1>4, <1>5, RestGoes

(* A hook that fails or dies before its end: a digest excuses what it owed. *)
LEMMA RestFails ==
  ASSUME NEW H, NEW N, NEW R, MailInv(H), RestInv(H, N), NEW h \in H, hooks[h].at \notin {"none", "hello"},
         \/ hooks' = [hooks EXCEPT ![h] = NoHook]
         \/ hooks[h].verb = "stop" /\ hooks' = [hooks EXCEPT ![h].at = "markIdle"],
         inbox' = inbox \/ inbox' = mail(H, N, R)!Excusing(mail(H, N, R)!Owed(h)),
         hooks[h].verb = "hello" => inbox' = mail(H, N, R)!Excusing(mail(H, N, R)!Owed(h)),
         UNCHANGED <<delivered, sender, session, idle>>
  PROVE  RestInv(H, N)'
  <1>1. PICK a : a = hooks[h]
    OBVIOUS
  <1>2. PICK b : hooks' = [hooks EXCEPT ![h] = b] /\ (b = NoHook \/ (a.verb = "stop" /\ b = [a EXCEPT !.at = "markIdle"]))
    BY <1>1
  <1>3. b = NoHook \/ (a.verb = "stop" /\ b.at = "markIdle" /\ b.verb = a.verb /\ b.s = a.s)
    <2>1. CASE a.verb = "stop" /\ b = [hooks[h] EXCEPT !.at = "markIdle"]
      <3>1. hooks[h].at # "none"
        OBVIOUS
      <3> QED
        BY <1>1, <2>1, <3>1, RunGoes
    <2> QED
      BY <1>1, <1>2, <2>1
  <1>4. Wanes
    BY KeptWanes, Excuses DEF MailInv
  <1>5. ASSUME NEW m \in DOMAIN inbox, inbox[m].to = a.s, Waits(m)', Digests(a, m, a.s) PROVE FALSE
    <2>1. inbox' = mail(H, N, R)!Excusing(mail(H, N, R)!Owed(h))
      BY <1>1, <1>5 DEF Digests, Greets
    <2>2. m \in mail(H, N, R)!Owed(h)
      BY <1>1, <1>4, <1>5, WaitsIsOwed DEF Wanes, mail!Owed
    <2> QED
      BY <1>5, <2>1, <2>2, Excuses DEF MailInv
  <1> QED
    BY <1>1, <1>2, <1>3, <1>4, <1>5, RestGoes

LEMMA RestDigests ==
  ASSUME NEW H, NEW N, NEW R, MailInv(H), RestInv(H, N), NEW h \in H, mail(H, N, R)!HelloLook(h)
  PROVE  RestInv(H, N)'
  <1>1. PICK a, owed, S : a = hooks[h] /\ owed = mail(H, N, R)!Owed(h) /\ S = mail(H, N, R)!BoundDrain(owed)
    OBVIOUS
  <1>2. /\ UNCHANGED <<delivered, sender, session, idle>> /\ a.at = "helloLook"
        /\ inbox' = mail(H, N, R)!Excusing(owed \ S)
        /\ \/ owed = {} /\ hooks' = [hooks EXCEPT ![h] = NoHook]
           \/ hooks' = [hooks EXCEPT ![h].at = "helloWrite", ![h].msgs = S]
    BY <1>1 DEF mail!HelloLook, mail!At, mail!Owed, mail!Ends, mail!Free, NoHook
  <1>3. Wanes /\ \A m \in DOMAIN inbox : m \in owed \ S => ~Waits(m)'
    BY <1>2, Excuses DEF MailInv
  <1>4. ASSUME NEW m \in DOMAIN inbox, inbox[m].to = a.s, Waits(m)' PROVE m \in owed /\ m \in S
    BY <1>1, <1>3, <1>4, WaitsIsOwed DEF Wanes, mail!Owed
  <1>5. CASE owed = {} /\ hooks' = [hooks EXCEPT ![h] = NoHook]
    BY <1>1, <1>2, <1>3, <1>4, <1>5, RestGoes
  <1>6. CASE hooks' = [hooks EXCEPT ![h].at = "helloWrite", ![h].msgs = S]
    <2>1. PICK b0, b : b0 = [a EXCEPT !.at = "helloWrite"] /\ b = [b0 EXCEPT !.msgs = S]
      OBVIOUS
    <2>2. hooks' = [hooks EXCEPT ![h] = b]
      BY <1>1, <1>6, <2>1
    <2>3. b.verb = a.verb /\ b.s = a.s /\ b.at = "helloWrite" /\ b.msgs = S
      <3>1. RunOf(a)
        <4>1. a.at # "none"
          BY <1>2
        <4> QED
          BY <1>1, <4>1, NotFree DEF MailInv, HooksInv, HookOf
      <3> QED
        BY <2>1, <3>1 DEF RunOf
    <2>4. ASSUME NEW m \in DOMAIN inbox, inbox[m].to = a.s, Waits(m)', Digests(a, m, a.s) PROVE Digests(b, m, a.s)
      <3>1. m \in S
        BY <1>4, <2>4
      <3>2. b # NoHook
        <4>1. b.at # "none"
          BY <2>3
        <4> QED
          BY <4>1, NotFree
      <3> QED
        BY <2>3, <2>4, <3>1, <3>2 DEF Digests, Greets
    <2> QED
      BY <1>1, <1>2, <1>3, <2>2, <2>3, <2>4, RestGoes
  <1> QED
    BY <1>2, <1>5, <1>6

-----------------------------------------------------------------------------
(* A registration, and what the harness does with it, of another value. *)
LEMMA SessionIs ==
  ASSUME NEW N, RestTypeOK(N), NEW s \in Session, NEW r \in SessionRec, session' = [session EXCEPT ![s] = r],
         NEW i \in Nat, idle' = [idle EXCEPT ![s] = i]
  PROVE  /\ session' \in [Session -> SessionRec] /\ idle' \in [Session -> Nat] /\ session'[s] = r /\ idle'[s] = i
         /\ \A t \in Session : t # s => session'[t] = session[t] /\ idle'[t] = idle[t]
  BY DEF RestTypeOK

LEMMA IdleStays == ASSUME NEW N, RestTypeOK(N), idle' = idle, NEW s \in Session PROVE idle' = [idle EXCEPT ![s] = idle[s]] /\ idle[s] \in Nat
  BY DEF RestTypeOK

LEMMA BusyIs ==
  ASSUME NEW H, NEW N, RestInv(H, N), NEW h \in H, hooks[h].at \notin {"none", "hello"}
  PROVE  /\ hooks[h] # NoHook /\ Fits(hooks[h]) /\ hooks[h].s \in Session
         /\ session[hooks[h].s] \in SessionRec /\ session[hooks[h].s].live
  <1>1. PICK a : a = hooks[h] /\ a # NoHook /\ Fits(a)
    BY NotFree DEF RestInv, FitInv
  <1>2. a.s \in Session /\ session[a.s].live
    BY <1>1 DEF Fits
  <1> QED
    BY <1>1, <1>2 DEF RestInv, RestTypeOK

LEMMA RestBeats ==
  ASSUME NEW H, NEW N, NEW R, MailInv(H), RestInv(H, N), NEW h \in H, mail(H, N, R)!BeatRow(h)
  PROVE  RestInv(H, N)'
  <1>1. PICK a, s, r : a = hooks[h] /\ s = a.s /\ r = session[s]
    OBVIOUS
  <1>2. a.at \in {"beat", "subagent"} /\ UNCHANGED <<inbox, delivered, sender>>
    BY <1>1 DEF mail!BeatRow, mail!mail
  <1>3. a # NoHook /\ Fits(a) /\ s \in Session /\ r \in SessionRec /\ r.live
    <2>1. hooks[h].at \notin {"none", "hello"}
      BY <1>1, <1>2
    <2> QED
      BY <1>1, <2>1, BusyIs
  <1>4. PICK q, r2 : q = [r EXCEPT !.fresh = TRUE] /\ r2 = [q EXCEPT !.muted = (r.turn = "prompt")]
    OBVIOUS
  <1>5. r2 \in SessionRec /\ r2.live = r.live /\ r2.turn = r.turn /\ r2.inc = r.inc /\ r2.muted = (r.turn = "prompt")
    BY <1>3, <1>4 DEF SessionRec
  <1>6. session' = [session EXCEPT ![s] = r2] /\ idle' = [idle EXCEPT ![s] = 0]
    BY <1>1, <1>3, <1>4 DEF mail!BeatRow
  <1>7. /\ session' \in [Session -> SessionRec] /\ idle' \in [Session -> Nat] /\ session'[s] = r2
        /\ \A t \in Session : t # s => session'[t] = session[t] /\ idle'[t] = idle[t]
    BY <1>3, <1>5, <1>6, SessionIs DEF RestInv
  <1>8. Moves(s) /\ (AtRest(s)' => AtRest(s)) /\ Doing(s)
    <2>1. session'[s].inc = session[s].inc /\ Doing(s)
      BY <1>1, <1>5, <1>7 DEF Doing
    <2>2. AtRest(s)' => AtRest(s)
      BY <2>1 DEF AtRest, Doing
    <2>3. CASE r.turn = "prompt"
      <3>1. session'[s].muted
        BY <1>5, <1>7, <2>3
      <3>2. Known(s)'
        BY <3>1 DEF Known
      <3> QED
        BY <2>1, <2>2, <3>2 DEF Moves
    <2>4. CASE r.turn # "prompt"
      <3>1. ~AtRest(s)'
        BY <1>1, <2>1, <2>4 DEF AtRest, Doing
      <3> QED
        BY <2>1, <3>1 DEF Moves
    <2> QED
      BY <2>1, <2>2, <2>3, <2>4
  <1>9. PICK b : hooks' = [hooks EXCEPT ![h] = b] /\ (b = NoHook \/ b = [hooks[h] EXCEPT !.at = "look"])
    BY DEF mail!BeatRow, mail!Goto, mail!Ends, mail!Free, NoHook
  <1>10. b = NoHook \/ (b.at = "look" /\ b.verb = a.verb /\ b.s = a.s)
    <2>1. CASE b = [hooks[h] EXCEPT !.at = "look"]
      <3>1. hooks[h].at # "none"
        BY <1>1, <1>2
      <3> QED
        BY <1>1, <2>1, <3>1, RunGoes
    <2> QED
      BY <1>9, <2>1
  <1>11. Fits(b)'
    <2>1. CASE b = NoHook
      BY <2>1 DEF Fits
    <2>2. CASE b # NoHook
      <3>1. Fits(b)
        BY <1>1, <1>2, <1>3, <1>10, <2>2, FitsGoes
      <3> QED
        BY <1>1, <1>8, <1>10, <2>2, <3>1, FitsStay DEF Doing
    <2> QED
      BY <2>1, <2>2
  <1>12. OnlyOf(s)
    BY <1>7, <1>8 DEF OnlyOf
  <1>13. \A m : ~Digests(hooks[h], m, s)
    BY <1>1, <1>2 DEF Digests
  <1>14. Wanes
    BY <1>2, KeptWanes
  <1>15. b # NoHook => b.verb = hooks[h].verb /\ b.s = s
    BY <1>1, <1>10
  <1> QED
    BY <1>1, <1>3, <1>8, <1>9, <1>11, <1>12, <1>13, <1>14, <1>15, RestHook

LEMMA RestClears ==
  ASSUME NEW H, NEW N, NEW R, MailInv(H), RestInv(H, N), NEW h \in H, mail(H, N, R)!BusyClear(h)
  PROVE  RestInv(H, N)'
  <1>1. PICK a, s, r : a = hooks[h] /\ s = a.s /\ r = session[s]
    OBVIOUS
  <1>2. a.at = "busy" /\ UNCHANGED <<inbox, delivered, sender, session>> /\ idle' = [idle EXCEPT ![s] = 0]
    BY <1>1 DEF mail!BusyClear, mail!At, mail!mail
  <1>3. a # NoHook /\ Fits(a) /\ s \in Session /\ r \in SessionRec /\ r.turn = "working"
    <2>1. hooks[h].at \notin {"none", "hello"}
      BY <1>1, <1>2
    <2>2. a # NoHook /\ Fits(a) /\ s \in Session /\ r \in SessionRec
      BY <1>1, <2>1, BusyIs
    <2> QED
      BY <1>1, <1>2, <2>2 DEF Fits
  <1>4. /\ session' \in [Session -> SessionRec] /\ idle' \in [Session -> Nat] /\ session'[s] = r
        /\ \A t \in Session : t # s => session'[t] = session[t] /\ idle'[t] = idle[t]
    BY <1>1, <1>2, <1>3 DEF RestInv, RestTypeOK
  <1>5. Moves(s) /\ ~AtRest(s)' /\ Doing(s)
    BY <1>1, <1>3, <1>4 DEF Moves, AtRest, Doing
  <1>6. PICK b : hooks' = [hooks EXCEPT ![h] = b] /\ b = [hooks[h] EXCEPT !.at = "look"]
    BY DEF mail!BusyClear, mail!Goto
  <1>7. b.at = "look" /\ b.verb = a.verb /\ b.s = a.s
    <2>1. hooks[h].at # "none"
      BY <1>1, <1>2
    <2> QED
      BY <1>1, <1>6, <2>1, RunGoes
  <1>8. Fits(b)'
    <2>1. Fits(b)
      BY <1>1, <1>2, <1>3, <1>7, FitsGoes
    <2> QED
      BY <1>2, <2>1, FitsStay
  <1>9. OnlyOf(s)
    BY <1>4, <1>5 DEF OnlyOf
  <1>10. \A m : ~Digests(hooks[h], m, s)
    BY <1>1, <1>2 DEF Digests
  <1>11. Wanes
    BY <1>2, KeptWanes
  <1> QED
    BY <1>1, <1>3, <1>5, <1>6, <1>7, <1>8, <1>9, <1>10, <1>11, RestHook

(* A Stop that comes to rest, or dies, with what it owed excused. *)
LEMMA RestStops ==
  ASSUME NEW H, NEW N, NEW R, MailInv(H), RestInv(H, N), NEW h \in H, hooks[h].at # "none", hooks[h].verb = "stop",
         NEW r \in SessionRec, NEW i \in Nat, r.live, r.inc = session[hooks[h].s].inc, i = r.inc \/ r.unreported,
         session' = [session EXCEPT ![hooks[h].s] = r], idle' = [idle EXCEPT ![hooks[h].s] = i],
         inbox' = mail(H, N, R)!Excusing(mail(H, N, R)!Owed(h)), hooks' = [hooks EXCEPT ![h] = NoHook],
         UNCHANGED <<delivered, sender>>
  PROVE  RestInv(H, N)'
  <1>1. PICK a, s : a = hooks[h] /\ s = a.s
    OBVIOUS
  <1>2. a # NoHook /\ Stops(a) /\ Fits(a)
    BY <1>1, NotFree DEF RestInv, FitInv, Stops
  <1>3. s \in Session
    BY <1>1, <1>2 DEF Fits
  <1>4. /\ session' \in [Session -> SessionRec] /\ idle' \in [Session -> Nat] /\ session'[s] = r /\ idle'[s] = i
        /\ \A t \in Session : t # s => session'[t] = session[t] /\ idle'[t] = idle[t]
    BY <1>1, <1>3, SessionIs DEF RestInv
  <1>5. Moves(s)
    BY <1>1, <1>4 DEF Moves, Known
  <1>6. OnlyOf(s) /\ session'[s].live
    BY <1>4, <1>5 DEF OnlyOf
  <1>7. Wanes /\ \A m \in DOMAIN inbox : m \in mail(H, N, R)!Owed(h) => ~Waits(m)'
    BY Excuses DEF MailInv
  <1>8. \A m \in DOMAIN inbox : inbox[m].to = s => ~Waits(m)'
    BY <1>1, <1>7, WaitsIsOwed DEF Wanes, mail!Owed
  <1>9. Fits(NoHook)'
    BY DEF Fits
  <1> QED
    BY <1>1, <1>2, <1>6, <1>7, <1>8, <1>9, RestHook

(* What a hook marks is delivered; a Stop that handed mail over works on. *)
LEMMA RestMarks ==
  ASSUME NEW H, NEW N, NEW R, MailInv(H), RestInv(H, N), NEW h \in H, mail(H, N, R)!MarkDelivered(h)
  PROVE  RestInv(H, N)'
  <1>1. PICK a, s : a = hooks[h] /\ s = a.s
    OBVIOUS
  <1>2. /\ a.at = "mark" /\ UNCHANGED <<inbox, sender>> /\ hooks' = [hooks EXCEPT ![h] = NoHook]
        /\ delivered' = delivered \cup {<<m, s>> : m \in a.msgs}
    BY <1>1 DEF mail!MarkDelivered, mail!At, mail!Ends, mail!Free, mail!Wrote, NoHook
  <1>3. a # NoHook /\ Fits(a) /\ s \in Session /\ session[s] \in SessionRec /\ session[s].live
    <2>1. hooks[h].at \notin {"none", "hello"}
      BY <1>1, <1>2
    <2> QED
      BY <1>1, <2>1, BusyIs
  <1>4. OnlyOf(s) /\ (AtRest(s)' => AtRest(s)) /\ (Doing(s) \/ (Stops(a) /\ session'[s].live))
    <2>1. CASE a.verb # "stop"
      <3>1. UNCHANGED <<session, idle>>
        BY <1>1, <2>1 DEF mail!MarkDelivered
      <3> QED
        BY <3>1, StillOnly DEF RestInv
    <2>2. CASE a.verb = "stop"
      <3>1. PICK q, r : q = [session[s] EXCEPT !.turn = "working"] /\ r = [q EXCEPT !.continued = TRUE]
        OBVIOUS
      <3>2. session' = [session EXCEPT ![s] = r] /\ idle' = [idle EXCEPT ![s] = 0]
        BY <1>1, <2>2, <3>1 DEF mail!MarkDelivered
      <3>3. r \in SessionRec /\ r.live /\ r.turn = "working" /\ r.inc = session[s].inc
        BY <1>3, <3>1 DEF SessionRec
      <3>4. /\ session' \in [Session -> SessionRec] /\ idle' \in [Session -> Nat] /\ session'[s] = r
            /\ \A t \in Session : t # s => session'[t] = session[t] /\ idle'[t] = idle[t]
        BY <1>3, <3>2, <3>3, SessionIs DEF RestInv
      <3>5. ~AtRest(s)' /\ Moves(s)
        BY <3>3, <3>4 DEF AtRest, Moves
      <3> QED
        BY <1>3, <2>2, <3>3, <3>4, <3>5 DEF OnlyOf, Stops
    <2> QED
      BY <2>1, <2>2
  <1>5. Wanes
    BY <1>2, KeptWanes
  <1>6. ASSUME NEW m \in DOMAIN inbox, inbox[m].to = s, Waits(m)', Digests(a, m, s) PROVE FALSE
    <2>1. m \in a.msgs
      BY <1>2, <1>6 DEF Digests
    <2>2. <<m, s>> \in delivered'
      BY <1>2, <2>1
    <2> QED
      BY <1>2, <1>6, <2>2 DEF Waits
  <1>7. Fits(NoHook)'
    BY DEF Fits
  <1> QED
    BY <1>1, <1>2, <1>3, <1>4, <1>5, <1>6, <1>7, RestHook

(* SessionStart: a session at its prompt is heard of, which its row does   *)
(* not tell of one that rests unmarked; or it registers anew.  A digest is *)
(* before it.                                                              *)
LEMMA RestGreets ==
  ASSUME NEW H, NEW N, NEW R, MailInv(H), RestInv(H, N), NEW h \in H, mail(H, N, R)!HelloRow(h)
  PROVE  RestInv(H, N)'
  <1>1. PICK a, s, r, b : a = hooks[h] /\ s = a.s /\ r = session[s] /\ b = [hooks[h] EXCEPT !.at = "helloLook"]
    OBVIOUS
  <1>2. a.at = "hello" /\ UNCHANGED <<inbox, delivered, sender, idle>> /\ hooks' = [hooks EXCEPT ![h] = b]
    BY <1>1 DEF mail!HelloRow, mail!At, mail!Goto, mail!mail
  <1>3. a # NoHook /\ HookOf(a) /\ Fits(a)
    BY <1>1, <1>2, NotFree DEF MailInv, HooksInv, RestInv, FitInv
  <1>4. a.verb = "hello" /\ Greets(a) /\ s \in Session
    BY <1>1, <1>2, <1>3 DEF HookOf, HelloSteps, Greets, Fits
  <1>5. r \in SessionRec /\ idle[s] \in Nat
    BY <1>1, <1>4 DEF RestInv, RestTypeOK
  <1>6. b.at = "helloLook" /\ b.verb = a.verb /\ b.s = a.s
    <2>1. hooks[h].at # "none"
      BY <1>1, <1>2
    <2> QED
      BY <1>1, <2>1, RunGoes
  <1>7. \E r2 \in SessionRec :
          /\ session' = [session EXCEPT ![s] = r2] /\ r2.live
          /\ \/ /\ r.live /\ r2.turn = r.turn /\ r2.inc = r.inc /\ r2.muted = r.muted
                /\ r2.greeted = (r.greeted \/ (r.turn = "prompt" /\ idle[s] # r.inc))
             \/ ~r.live /\ r2.inc = r.inc + 1 /\ ~r2.fresh
    <2>1. CASE r.live
      <3>1. PICK q, r2 : /\ q = [r EXCEPT !.fresh = TRUE]
                         /\ r2 = [q EXCEPT !.greeted = (r.greeted \/ (r.turn = "prompt" /\ idle[s] # r.inc))]
        OBVIOUS
      <3>2. session' = [session EXCEPT ![s] = r2]
        BY <1>1, <2>1, <3>1 DEF mail!HelloRow
      <3>3. /\ r2 \in SessionRec /\ r2.live = r.live /\ r2.turn = r.turn /\ r2.inc = r.inc /\ r2.muted = r.muted
            /\ r2.greeted = (r.greeted \/ (r.turn = "prompt" /\ idle[s] # r.inc))
        BY <1>5, <3>1 DEF SessionRec
      <3> QED
        BY <2>1, <3>2, <3>3
    <2>2. CASE ~r.live
      <3>1. PICK r2 : r2 = [live |-> TRUE, inc |-> r.inc + 1, fresh |-> FALSE, turn |-> "prompt",
                            continued |-> FALSE, unreported |-> FALSE, greeted |-> FALSE, muted |-> FALSE]
        OBVIOUS
      <3>2. session' = [session EXCEPT ![s] = r2]
        BY <1>1, <2>2, <3>1 DEF mail!HelloRow
      <3>3. r2 \in SessionRec /\ r2.live /\ r2.inc = r.inc + 1 /\ ~r2.fresh
        BY <1>5, <3>1 DEF SessionRec
      <3> QED
        BY <2>2, <3>2, <3>3
    <2> QED
      BY <2>1, <2>2
  <1>8. PICK r2 \in SessionRec :
          /\ session' = [session EXCEPT ![s] = r2] /\ r2.live
          /\ \/ /\ r.live /\ r2.turn = r.turn /\ r2.inc = r.inc /\ r2.muted = r.muted
                /\ r2.greeted = (r.greeted \/ (r.turn = "prompt" /\ idle[s] # r.inc))
             \/ ~r.live /\ r2.inc = r.inc + 1 /\ ~r2.fresh
    BY <1>7
  <1>9. /\ session' \in [Session -> SessionRec] /\ idle' \in [Session -> Nat] /\ session'[s] = r2 /\ idle'[s] = idle[s]
        /\ \A t \in Session : t # s => session'[t] = session[t] /\ idle'[t] = idle[t]
    BY <1>2, <1>4, <1>8, IdleStays, SessionIs DEF RestInv
  <1>10. Moves(s)
    <2>1. CASE /\ r.live /\ r2.turn = r.turn /\ r2.inc = r.inc /\ r2.muted = r.muted
               /\ r2.greeted = (r.greeted \/ (r.turn = "prompt" /\ idle[s] # r.inc))
      <3>1. CASE r.turn # "prompt"
        <4>1. ~AtRest(s)'
          BY <1>9, <2>1, <3>1 DEF AtRest
        <4> QED
          BY <1>1, <1>9, <2>1, <4>1 DEF Moves
      <3>2. CASE r.turn = "prompt"
        <4>1. idle[s] = r.inc \/ r2.greeted
          BY <2>1, <3>2
        <4>2. Known(s)'
          BY <1>9, <2>1, <4>1 DEF Known
        <4> QED
          BY <1>1, <1>9, <2>1, <4>2 DEF Moves
      <3> QED
        BY <3>1, <3>2
    <2>2. CASE ~r.live /\ r2.inc = r.inc + 1 /\ ~r2.fresh
      BY <1>1, <1>9, <2>2 DEF Moves
    <2> QED
      BY <1>8, <2>1, <2>2
  <1>11. OnlyOf(s) /\ session'[s].live /\ (Doing(s) \/ ~session[s].live)
    <2>1. r.live => r2.live = r.live
      BY <1>5, <1>8 DEF SessionRec
    <2>2. OnlyOf(s) /\ session'[s].live
      BY <1>8, <1>9, <1>10 DEF OnlyOf
    <2>3. r.live => Doing(s)
      BY <1>1, <1>8, <1>9, <2>1 DEF Doing
    <2> QED
      BY <1>1, <2>2, <2>3
  <1>12. b # NoHook
    <2>1. b.at # "none"
      BY <1>6
    <2> QED
      BY <2>1, NotFree
  <1>13. Fits(b)' /\ \A m : Digests(b, m, s)
    <2>1. b.verb = "hello" /\ b.s = s /\ b.at = "helloLook" /\ session'[b.s].live
      BY <1>1, <1>4, <1>6, <1>11
    <2>2. \A m : Digests(b, m, s)
      BY <1>12, <2>1 DEF Digests, Greets
    <2>3. Fits(b)'
      BY <1>4, <2>1 DEF Fits
    <2> QED
      BY <2>2, <2>3
  <1>14. Wanes
    BY <1>2, KeptWanes
  <1>15. /\ s = hooks[h].s /\ hooks[h] # NoHook /\ hooks' = [hooks EXCEPT ![h] = b] /\ b.verb = hooks[h].verb /\ b.s = s
         /\ Doing(s) \/ (Greets(hooks[h]) /\ ~session[s].live)
    BY <1>1, <1>2, <1>3, <1>4, <1>6, <1>11
  <1> QED
    BY <1>11, <1>13, <1>14, <1>15, RestHook

-----------------------------------------------------------------------------
(* What the harness starts, of a session that it leaves as it is. *)
LEMMA RestStarts ==
  ASSUME NEW H, NEW N, MailInv(H), RestInv(H, N), NEW S \in SUBSET H, \A g \in S : hooks[g] = NoHook, NEW s \in Session,
         NEW verb \in {"beat", "inbox", "subagent", "hello"},
         NEW c, c.at = verb, c.verb = verb, c.s = s, \A g \in H : hooks'[g] = IF g \in S THEN c ELSE hooks[g],
         verb \in {"beat", "inbox"} => session[s].live /\ session[s].turn = "working",
         verb = "subagent" => session[s].live /\ session[s].turn = "prompt",
         UNCHANGED <<inbox, delivered, sender, idle, session>>
  PROVE  RestInv(H, N)'
  <1>3. OnlyOf(s) /\ Doing(s) /\ (AtRest(s)' => AtRest(s))
    BY StillOnly DEF RestInv
  <1>4. c.at \notin {"helloLook", "helloWrite", "mark"} /\ ~Stops(c) /\ (c = NoHook \/ c.s = s)
    BY DEF Stops
  <1>5. Fits(c)
    BY DEF Fits
  <1>6. Fits(c)'
    BY <1>5, FitsStay
  <1> QED
    BY <1>3, <1>4, <1>6, RestLaunch

(* What it starts as a turn begins or ends, of a session none of whose     *)
(* hooks runs.                                                             *)
LEMMA Launched ==
  ASSUME NEW H, NEW N, NEW R, NEW s, NEW S, NEW verb, mail(H, N, R)!Launch(s, S, verb)
  PROVE  \E c : c.at = verb /\ c.verb = verb /\ c.s = s /\ \A g \in H : hooks'[g] = IF g \in S THEN c ELSE hooks[g]
  <1>1. PICK c : c = [at |-> verb, verb |-> verb, s |-> s, msgs |-> {}]
    OBVIOUS
  <1>2. \A g \in H : hooks'[g] = IF g \in S THEN c ELSE hooks[g]
    BY <1>1 DEF mail!Launch, mail!Starts
  <1> QED
    BY <1>1, <1>2

LEMMA RestTurns ==
  ASSUME NEW H, NEW N, MailInv(H), RestInv(H, N), NEW h \in H, hooks[h] = NoHook, NEW s \in Session,
         NEW verb \in {"busy", "stop"},
         NEW c, c.at = verb, c.verb = verb, c.s = s, \A g \in H : hooks'[g] = IF g = h THEN c ELSE hooks[g],
         session' \in [Session -> SessionRec], \A t \in Session : t # s => session'[t] = session[t],
         session'[s].live, session'[s].inc = session[s].inc,
         session'[s].turn = IF verb = "stop" THEN "stopping" ELSE "working",
         \A g \in H : hooks[g].s # s,
         UNCHANGED <<inbox, delivered, sender, idle>>
  PROVE  RestInv(H, N)'
  <1>1. PICK S : S = {h}
    OBVIOUS
  <1>2. \A g \in H : hooks'[g] = IF g \in S THEN c ELSE hooks[g]
    BY <1>1
  <1>3. idle' \in [Session -> Nat] /\ \A t \in Session : idle'[t] = idle[t]
    BY DEF RestInv, RestTypeOK
  <1>4. ~AtRest(s)'
    BY DEF AtRest
  <1>5. OnlyOf(s)
    BY <1>3, <1>4 DEF OnlyOf, Moves
  <1>6. Fits(c)'
    BY DEF Fits
  <1>7. c.at \notin {"helloLook", "helloWrite", "mark"} /\ (c = NoHook \/ c.s = s)
    OBVIOUS
  <1>8. S \in SUBSET H /\ (\A g \in S : hooks[g] = NoHook) /\ (\E g \in H : S = {g})
    BY <1>1
  <1>9. Stops(c) => (\E g \in H : S = {g}) /\ \A g \in H : hooks[g].s # s
    BY <1>8
  <1>10. (AtRest(s)' => AtRest(s)) /\ (Doing(s) \/ \A g \in H : hooks[g].s # s)
    BY <1>4
  <1>11. inbox' = inbox /\ sender' = sender /\ delivered' = delivered
    OBVIOUS
  <1> QED
    BY <1>2, <1>5, <1>6, <1>7, <1>8, <1>9, <1>10, <1>11, RestLaunch

LEMMA RestHarness ==
  ASSUME NEW H, NEW N, NEW R, MailInv(H), RestInv(H, N), NEW s \in Session, mail(H, N, R)!Harness(s)
  PROVE  RestInv(H, N)'
  <1>1. UNCHANGED <<inbox, delivered, sender, idle>>
    BY DEF mail!Harness, mail!Prompt, mail!Subagent, mail!EndTurn, mail!StartSession, mail!CallTools, mail!Bye,
           mail!Dies, mail!Stales, mail!mail
  <1>2. PICK r0 \in SessionRec : r0 = session[s]
    BY DEF RestInv, RestTypeOK
  <1>3. mail(H, N, R)!Of(s) = {} => \A g \in H : hooks[g].s # s
    BY DEF mail!Of
  <1>4. \A g \in mail(H, N, R)!Idling : g \in H /\ hooks[g] = NoHook
    BY DEF mail!Idling, mail!Free, NoHook
  <1>5. CASE \E h \in H : mail(H, N, R)!Prompt(h, s)
    <2>1. PICK h \in H : mail(H, N, R)!Prompt(h, s)
      BY <1>5
    <2>2. PICK r1, r2, r3, r4, r : /\ r1 = [r0 EXCEPT !.turn = "working"] /\ r2 = [r1 EXCEPT !.continued = FALSE]
                                   /\ r3 = [r2 EXCEPT !.unreported = FALSE] /\ r4 = [r3 EXCEPT !.greeted = FALSE]
                                   /\ r = [r4 EXCEPT !.muted = FALSE]
      OBVIOUS
    <2>3. session' = [session EXCEPT ![s] = r] /\ r0.live
      BY <1>2, <2>1, <2>2 DEF mail!Prompt
    <2>4. r \in SessionRec /\ r.live = r0.live /\ r.inc = r0.inc /\ r.turn = "working"
      BY <2>2 DEF SessionRec
    <2>5. mail(H, N, R)!Of(s) = {} /\ h \in mail(H, N, R)!Idling /\ mail(H, N, R)!Launch(s, {h}, "busy")
      BY <2>1 DEF mail!Prompt
    <2>6. h \in H /\ hooks[h] = NoHook /\ \A g \in H : hooks[g].s # s
      BY <1>3, <1>4, <2>5
    <2>7. PICK verb : verb = "busy"
      OBVIOUS
    <2>8. PICK c : c.at = verb /\ c.verb = verb /\ c.s = s /\ \A g \in H : hooks'[g] = IF g = h THEN c ELSE hooks[g]
      BY <2>5, <2>7, Launched
    <2>9. /\ session' \in [Session -> SessionRec] /\ session'[s] = r
          /\ \A t \in Session : t # s => session'[t] = session[t]
      BY <2>3, <2>4 DEF RestInv, RestTypeOK
    <2>10. /\ verb \in {"busy", "stop"} /\ session'[s].live /\ session'[s].inc = session[s].inc
           /\ session'[s].turn = IF verb = "stop" THEN "stopping" ELSE "working"
      BY <1>2, <2>3, <2>4, <2>7, <2>9
    <2> QED
      BY <1>1, <2>6, <2>8, <2>9, <2>10, RestTurns
  <1>6. CASE \E h \in H : mail(H, N, R)!EndTurn(h, s)
    <2>1. PICK h \in H : mail(H, N, R)!EndTurn(h, s)
      BY <1>6
    <2>2. PICK r : r = [r0 EXCEPT !.turn = "stopping"]
      OBVIOUS
    <2>3. session' = [session EXCEPT ![s] = r] /\ r0.live
      BY <1>2, <2>1, <2>2 DEF mail!EndTurn
    <2>4. r \in SessionRec /\ r.live = r0.live /\ r.inc = r0.inc /\ r.turn = "stopping"
      BY <2>2 DEF SessionRec
    <2>5. mail(H, N, R)!Of(s) = {} /\ h \in mail(H, N, R)!Idling /\ mail(H, N, R)!Launch(s, {h}, "stop")
      BY <2>1 DEF mail!EndTurn
    <2>6. h \in H /\ hooks[h] = NoHook /\ \A g \in H : hooks[g].s # s
      BY <1>3, <1>4, <2>5
    <2>7. PICK verb : verb = "stop"
      OBVIOUS
    <2>8. PICK c : c.at = verb /\ c.verb = verb /\ c.s = s /\ \A g \in H : hooks'[g] = IF g = h THEN c ELSE hooks[g]
      BY <2>5, <2>7, Launched
    <2>9. /\ session' \in [Session -> SessionRec] /\ session'[s] = r
          /\ \A t \in Session : t # s => session'[t] = session[t]
      BY <2>3, <2>4 DEF RestInv, RestTypeOK
    <2>10. /\ verb \in {"busy", "stop"} /\ session'[s].live /\ session'[s].inc = session[s].inc
           /\ session'[s].turn = IF verb = "stop" THEN "stopping" ELSE "working"
      BY <1>2, <2>3, <2>4, <2>7, <2>9
    <2> QED
      BY <1>1, <2>6, <2>8, <2>9, <2>10, RestTurns
  <1>7. CASE \E h \in H : mail(H, N, R)!Subagent(h, s) \/ mail(H, N, R)!StartSession(h, s)
    <2>1. PICK h \in H : mail(H, N, R)!Subagent(h, s) \/ mail(H, N, R)!StartSession(h, s)
      BY <1>7
    <2>2. PICK verb : /\ verb \in {"subagent", "hello"} /\ mail(H, N, R)!Launch(s, {h}, verb)
                      /\ verb = "subagent" => session[s].live /\ session[s].turn = "prompt"
      BY <2>1 DEF mail!Subagent, mail!StartSession
    <2>3. h \in mail(H, N, R)!Idling /\ UNCHANGED session
      BY <2>1 DEF mail!Subagent, mail!StartSession
    <2>4. {h} \in SUBSET H /\ (\A g \in {h} : hooks[g] = NoHook)
      BY <1>4, <2>3
    <2>5. verb \in {"beat", "inbox", "subagent", "hello"} /\ verb \notin {"beat", "inbox"}
      BY <2>2
    <2>6. PICK S : S = {h}
      OBVIOUS
    <2>7. PICK c : c.at = verb /\ c.verb = verb /\ c.s = s /\ \A g \in H : hooks'[g] = IF g \in S THEN c ELSE hooks[g]
      BY <2>2, <2>6, Launched
    <2>8. UNCHANGED <<inbox, delivered, sender, idle, session>>
      BY <1>1, <2>3
    <2>9. verb = "subagent" => session[s].live /\ session[s].turn = "prompt"
      BY <2>2
    <2> QED
      BY <2>4, <2>5, <2>6, <2>7, <2>8, <2>9, RestStarts
  <1>8. CASE \E S \in SUBSET H : mail(H, N, R)!CallTools(S, s)
    <2>1. PICK S \in SUBSET H : mail(H, N, R)!CallTools(S, s)
      BY <1>8
    <2>2. PICK verb : verb \in {"beat", "inbox"} /\ mail(H, N, R)!Launch(s, S, verb)
      BY <2>1 DEF mail!CallTools
    <2>3. S \subseteq mail(H, N, R)!Idling /\ session[s].live /\ session[s].turn = "working" /\ UNCHANGED session
      BY <2>1 DEF mail!CallTools
    <2>4. \A g \in S : hooks[g] = NoHook
      BY <1>4, <2>3
    <2>5. verb \in {"beat", "inbox", "subagent", "hello"} /\ verb # "subagent"
      BY <2>2
    <2>6. PICK c : c.at = verb /\ c.verb = verb /\ c.s = s /\ \A g \in H : hooks'[g] = IF g \in S THEN c ELSE hooks[g]
      BY <2>2, Launched
    <2>7. UNCHANGED <<inbox, delivered, sender, idle, session>>
      BY <1>1, <2>3
    <2>8. verb \in {"beat", "inbox"} => session[s].live /\ session[s].turn = "working"
      BY <2>3
    <2> QED
      BY <2>4, <2>5, <2>6, <2>7, <2>8, RestStarts
  <1>9. CASE mail(H, N, R)!Bye(s) \/ mail(H, N, R)!Dies(s) \/ mail(H, N, R)!Stales(s)
    <2>1. PICK r : /\ r \in SessionRec /\ session' = [session EXCEPT ![s] = r]
                   /\ r.inc = r0.inc /\ r.turn = r0.turn /\ r.unreported = r0.unreported /\ r.greeted = r0.greeted /\ r.muted = r0.muted
                   /\ \/ ~r.live /\ \A g \in H : hooks[g].s # s
                      \/ r.live = r0.live /\ ~r.fresh
                      \/ r = r0
      <3>1. CASE mail(H, N, R)!Bye(s) /\ session' # session
        <4>1. PICK r : r = [r0 EXCEPT !.live = FALSE]
          OBVIOUS
        <4>2. r \in SessionRec /\ r.inc = r0.inc /\ r.turn = r0.turn /\ r.unreported = r0.unreported /\ r.greeted = r0.greeted /\ r.muted = r0.muted /\ ~r.live
          BY <4>1 DEF SessionRec
        <4>3. session' = [session EXCEPT ![s] = r] /\ mail(H, N, R)!Of(s) = {}
          BY <1>2, <3>1, <4>1 DEF mail!Bye
        <4> QED
          BY <1>3, <4>2, <4>3
      <3>2. CASE mail(H, N, R)!Stales(s)
        <4>1. PICK r : r = [r0 EXCEPT !.fresh = FALSE]
          OBVIOUS
        <4>2. /\ r \in SessionRec /\ r.inc = r0.inc /\ r.turn = r0.turn /\ r.unreported = r0.unreported /\ r.greeted = r0.greeted /\ r.muted = r0.muted
              /\ r.live = r0.live /\ ~r.fresh
          BY <4>1 DEF SessionRec
        <4>3. session' = [session EXCEPT ![s] = r]
          BY <1>2, <3>2, <4>1 DEF mail!Stales
        <4> QED
          BY <4>2, <4>3
      <3>3. CASE session' = session
        <4>1. session' = [session EXCEPT ![s] = r0]
          BY <1>2, <3>3 DEF RestInv, RestTypeOK
        <4> QED
          BY <4>1
      <3>4. mail(H, N, R)!Dies(s) => session' = session
        BY DEF mail!Dies
      <3> QED
        BY <1>9, <3>1, <3>2, <3>3, <3>4
    <2>2. hooks' = hooks
      BY <1>9 DEF mail!Bye, mail!Dies, mail!Stales
    <2>3. /\ session' \in [Session -> SessionRec] /\ idle' \in [Session -> Nat] /\ session'[s] = r /\ idle'[s] = idle[s]
          /\ \A t \in Session : t # s => session'[t] = session[t] /\ idle'[t] = idle[t]
      BY <1>1, <2>1, IdleStays, SessionIs DEF RestInv
    <2>4. Moves(s) /\ (AtRest(s)' => AtRest(s))
      <3>1. CASE ~r.live
        BY <1>2, <2>1, <2>3, <3>1 DEF Moves, AtRest
      <3>2. CASE r.live = r0.live /\ ~r.fresh
        <4>1. Known(s) => Known(s)'
          BY <1>2, <2>1, <2>3 DEF Known
        <4>2. AtRest(s)' => AtRest(s)
          BY <1>2, <2>1, <2>3, <3>2 DEF AtRest
        <4> QED
          BY <1>2, <2>1, <2>3, <3>2, <4>1, <4>2 DEF Moves
      <3>3. CASE r = r0
        <4>1. session'[s] = session[s] /\ idle'[s] = idle[s]
          BY <1>2, <2>3, <3>3
        <4> QED
          BY <4>1, StillMoves DEF AtRest
      <3> QED
        BY <2>1, <3>1, <3>2, <3>3
    <2>5. Doing(s) \/ \A g \in H : hooks[g].s # s
      <3>1. CASE r.live = r0.live
        BY <1>2, <2>1, <2>3, <3>1 DEF Doing
      <3> QED
        BY <2>1, <3>1
    <2>6. \A g \in H : hooks'[g] = hooks[g]
      BY <2>2
    <2>7. Fits(NoHook)' /\ ~Stops(NoHook) /\ NoHook.at \notin {"helloLook", "helloWrite", "mark"}
      BY DEF Fits, Stops, NoHook
    <2>8. PICK S, c : S = {} /\ c = NoHook
      OBVIOUS
    <2>9. S \in SUBSET H /\ (\A g \in S : hooks[g] = NoHook) /\ \A g \in H : hooks'[g] = IF g \in S THEN c ELSE hooks[g]
      BY <2>6, <2>8
    <2>10. (c = NoHook \/ c.s = s) /\ Fits(c)' /\ c.at \notin {"helloLook", "helloWrite", "mark"} /\ ~Stops(c)
      BY <2>7, <2>8
    <2>11. OnlyOf(s)
      BY <2>3, <2>4 DEF OnlyOf
    <2> QED
      BY <1>1, <2>4, <2>5, <2>9, <2>10, <2>11, RestLaunch
  <1> QED
    BY <1>5, <1>6, <1>7, <1>8, <1>9 DEF mail!Harness

-----------------------------------------------------------------------------
(* A step of a sender or of the inbox moves no session and no hook. *)
LEMMA RestSends ==
  ASSUME NEW H, NEW N, RestInv(H, N), UNCHANGED <<session, idle, hooks>>,
         sender' \in [1..N -> Seeking \cup Naming \cup Decided], LooksInv(N)', SentInv(N)',
         \A m \in DOMAIN inbox' : Waits(m)' /\ AtRest(inbox'[m].to) =>
           m \in DOMAIN inbox /\ inbox[m].to = inbox'[m].to /\ Waits(m)
  PROVE  RestInv(H, N)'
  <1>1. RestTypeOK(N)'
    BY DEF RestInv, RestTypeOK, SessionRec, Seeking, Naming, Decided
  <1>2. FitInv(H)'
    <2>1. ASSUME NEW g \in H PROVE \E c : c = hooks'[g] /\ Fits(c)'
      <3>1. PICK c : c = hooks[g] /\ Fits(c)
        BY DEF RestInv, FitInv
      <3>2. Fits(c)'
        BY <3>1, FitsStay
      <3> QED
        BY <3>1, <3>2
    <2> QED
      BY <2>1 DEF FitInv
  <1>3. StopInv(H)' /\ QuietInv'
    BY DEF RestInv, StopInv, Stops, QuietInv, AtRest, Known
  <1>4. ComingInv(H)'
    <2> SUFFICES ASSUME NEW m \in DOMAIN inbox', Waits(m)', NEW t, t = inbox'[m].to, AtRest(t)'
                 PROVE  \E g \in H : Digests(hooks'[g], m, t)
      BY ComingWhere
    <2>1. AtRest(t)
      BY DEF AtRest
    <2>2. m \in DOMAIN inbox /\ inbox[m].to = t /\ Waits(m)
      BY <2>1
    <2> QED
      BY <2>1, <2>2 DEF RestInv, ComingInv, Coming
  <1> QED
    BY <1>1, <1>2, <1>3, <1>4 DEF RestInv

LEMMA SenderIs ==
  ASSUME NEW N, RestTypeOK(N), NEW m \in 1..N, NEW c \in Seeking \cup Naming \cup Decided, sender' = [sender EXCEPT ![m] = c]
  PROVE  /\ sender' \in [1..N -> Seeking \cup Naming \cup Decided] /\ sender'[m] = c
         /\ \A o \in 1..N : o # m => sender'[o] = sender[o]
  BY DEF RestTypeOK

(* One sender looks, or is done with looking. *)
LEMMA OneLooks ==
  ASSUME NEW N, RestTypeOK(N), LooksInv(N), UNCHANGED <<session, idle>>, NEW m \in 1..N,
         \A o \in 1..N : o # m => sender'[o] = sender[o],
         Looks(m)' => /\ sender'[m].inc <= session[sender'[m].to].inc
                      /\ ~sender'[m].wakes /\ sender'[m].inc = session[sender'[m].to].inc /\ AtRest(sender'[m].to)
                           => Known(sender'[m].to)
  PROVE  LooksInv(N)'
  <1> SUFFICES ASSUME NEW o \in 1..N, Looks(o)', NEW c, c = sender'[o]
               PROVE  c.inc <= session[c.to].inc /\ (~c.wakes /\ c.inc = session[c.to].inc /\ AtRest(c.to) => Known(c.to))
    BY DEF LooksInv, Looks, AtRest, Known
  <1>1. CASE o = m
    BY <1>1
  <1>2. CASE o # m
    <2>1. c = sender[o] /\ Looks(o)
      BY <1>2 DEF Looks
    <2> QED
      BY <2>1 DEF LooksInv
  <1> QED
    BY <1>1, <1>2

LEMMA RestObserves ==
  ASSUME NEW H, NEW N, NEW R, MailInv(H), RestInv(H, N), NEW m \in 1..N, NEW s \in Session, mail(H, N, R)!Observe(m, s)
  PROVE  RestInv(H, N)'
  <1>1. PICK quiet, adapter \in BOOLEAN :
          /\ quiet = mail(H, N, R)!Quiet(s, session[s].inc)
          /\ sender' = [sender EXCEPT ![m] = [at |-> "observed", to |-> s, inc |-> session[s].inc, wakes |-> quiet,
                                              reached |-> mail(H, N, R)!Reached(s, adapter)]]
    BY DEF mail!Observe, mail!Quiet
  <1>2. PICK r, reached, c : /\ r = session[s] /\ reached = mail(H, N, R)!Reached(s, adapter)
                             /\ c = [at |-> "observed", to |-> s, inc |-> r.inc, wakes |-> quiet, reached |-> reached]
    OBVIOUS
  <1>3. UNCHANGED <<session, idle, hooks, inbox, delivered>> /\ sender' = [sender EXCEPT ![m] = c] /\ sender[m].at = "none"
    BY <1>1, <1>2 DEF mail!Observe
  <1>4. r \in SessionRec
    BY <1>2 DEF RestInv, RestTypeOK
  <1>5. c.at = "observed" /\ c.to = s /\ c.inc = r.inc /\ c.wakes = quiet
    BY <1>2
  <1>6. c \in Naming
    <2>1. reached \in BOOLEAN
      BY <1>2 DEF mail!Reached
    <2> QED
      BY <1>1, <1>2, <1>4, <2>1 DEF Naming, SessionRec
  <1>7. /\ sender' \in [1..N -> Seeking \cup Naming \cup Decided] /\ sender'[m] = c
        /\ \A o \in 1..N : o # m => sender'[o] = sender[o]
    BY <1>3, <1>6, SenderIs DEF RestInv
  <1>8. LooksInv(N)'
    <2>1. r.inc <= r.inc
      BY <1>4 DEF SessionRec
    <2>2. ASSUME ~c.wakes, AtRest(s) PROVE Known(s)
      <3>1. ~quiet
        BY <1>2, <1>5, <2>2 DEF AtRest
      <3>2. idle[s] # r.inc /\ r.fresh
        BY <1>1, <1>2, <3>1 DEF mail!Quiet
      <3> QED
        BY <1>2, <2>2, <3>2 DEF RestInv, QuietInv
    <2> QED
      BY <1>2, <1>3, <1>5, <1>7, <2>1, <2>2, OneLooks DEF RestInv
  <1>9. SentInv(N)'
    <2>1. \A o \in 1..N : o = m => sender[o].at \notin {"inserted", "done"} /\ sender'[o].at # "inserted"
      BY <1>3, <1>5, <1>7
    <2>2. \A o \in 1..N : sender'[o].at = "inserted" => sender[o].at = "inserted" /\ sender'[o] = sender[o]
      BY <1>7, <2>1
    <2>3. \A o \in DOMAIN inbox : o \in 1..N /\ sender'[o] = sender[o]
      BY <1>7, <2>1 DEF RestInv, SentInv
    <2> QED
      BY <1>3, <2>2, <2>3 DEF RestInv, SentInv
  <1>10. \A o \in DOMAIN inbox' : Waits(o)' => o \in DOMAIN inbox /\ inbox[o].to = inbox'[o].to /\ Waits(o)
    <2>1. \A o \in DOMAIN inbox : Waits(o)' => Waits(o)
      <3> SUFFICES ASSUME NEW o \in DOMAIN inbox, Waits(o)' PROVE Waits(o)
        OBVIOUS
      <3>1. o \in 1..N
        BY DEF RestInv, SentInv
      <3>2. o # m
        BY <1>5, <1>7 DEF Waits
      <3>3. sender'[o] = sender[o]
        BY <1>7, <3>1, <3>2
      <3> QED
        BY <1>3, <3>3 DEF Waits
    <2> QED
      BY <1>3, <2>1
  <1> QED
    BY <1>3, <1>7, <1>8, <1>9, <1>10, RestSends

(* A message in the inbox, from what its sender observed or to everyone. *)
LEMMA Inserts ==
  ASSUME NEW H, NEW N, NEW R, NEW m, NEW to, NEW audience, InboxInv,
         mail(H, N, R)!Insert(m, mail(H, N, R)!Row(to, audience))
  PROVE  /\ DOMAIN inbox' = DOMAIN inbox \cup {m} /\ inbox'[m].to = to /\ m \notin DOMAIN inbox
         /\ \A o \in DOMAIN inbox : inbox'[o] = inbox[o]
  <1>1. PICK n \in Nat : n = Cardinality(DOMAIN inbox) /\ DOMAIN inbox = 1..n
    BY DEF InboxInv
  <1>2. PICK x : x = [to |-> to, audience |-> audience, old |-> FALSE, swept |-> FALSE, excused |-> "no"]
    OBVIOUS
  <1>3. m = n + 1 /\ inbox' = [k \in DOMAIN inbox \cup {m} |-> IF k = m THEN x ELSE inbox[k]]
    BY <1>1, <1>2 DEF mail!Insert, mail!Row, mail!Sent, mail!Cardinality, Cardinality
  <1>4. n + 1 \notin 1..n
    OBVIOUS
  <1>5. m \notin DOMAIN inbox
    <2>1. m = n + 1 /\ DOMAIN inbox = 1..n
      BY <1>1, <1>3
    <2> QED
      BY <1>4, <2>1
  <1> QED
    BY <1>2, <1>3, <1>5

LEMMA RestInserts ==
  ASSUME NEW H, NEW N, NEW R, MailInv(H), RestInv(H, N), NEW m \in 1..N,
         mail(H, N, R)!SendDirect(m) \/ mail(H, N, R)!SendBroadcast(m)
  PROVE  RestInv(H, N)'
  <1>1. UNCHANGED <<session, idle, hooks, delivered>>
    BY DEF mail!SendDirect, mail!SendBroadcast
  <1>2. PICK a : a = sender[m] /\ a \in Seeking \cup Naming \cup Decided
    BY DEF RestInv, RestTypeOK
  <1>3. PICK to, audience, c :
          /\ mail(H, N, R)!Insert(m, mail(H, N, R)!Row(to, audience)) /\ sender' = [sender EXCEPT ![m] = c]
          /\ \/ a.at = "observed" /\ to = a.to /\ c = [a EXCEPT !.at = "inserted"]
             \/ to = "all" /\ c = [at |-> "done", wakes |-> FALSE]
    <2>1. CASE mail(H, N, R)!SendDirect(m)
      BY <1>2, <2>1 DEF mail!SendDirect
    <2>2. CASE mail(H, N, R)!SendBroadcast(m)
      <3>1. \E audience : mail(H, N, R)!Insert(m, mail(H, N, R)!Row("all", audience))
        BY <2>2 DEF mail!SendBroadcast, mail!Broadcast
      <3>2. sender' = [sender EXCEPT ![m] = [at |-> "done", wakes |-> FALSE]]
        BY <2>2 DEF mail!SendBroadcast
      <3> QED
        BY <3>1, <3>2
    <2> QED
      BY <2>1, <2>2
  <1>4. /\ DOMAIN inbox' = DOMAIN inbox \cup {m} /\ inbox'[m].to = to /\ m \notin DOMAIN inbox
        /\ \A o \in DOMAIN inbox : inbox'[o] = inbox[o]
    BY <1>3, Inserts DEF MailInv
  <1>5. \/ /\ a \in Naming /\ a.at = "observed" /\ to = a.to
           /\ c \in Naming /\ c.at = "inserted" /\ c.to = a.to /\ c.inc = a.inc /\ c.wakes = a.wakes
        \/ to = "all" /\ c \in Decided /\ c.at = "done"
    <2>1. CASE a.at = "observed" /\ to = a.to /\ c = [a EXCEPT !.at = "inserted"]
      <3>1. a \in Naming
        BY <1>2, <2>1 DEF Seeking, Decided
      <3>2. c \in Naming /\ c.at = "inserted" /\ c.to = a.to /\ c.inc = a.inc /\ c.wakes = a.wakes
        BY <2>1, <3>1 DEF Naming
      <3> QED
        BY <2>1, <3>1, <3>2
    <2>2. CASE to = "all" /\ c = [at |-> "done", wakes |-> FALSE]
      BY <2>2 DEF Decided
    <2> QED
      BY <1>3, <2>1, <2>2
  <1>6. /\ sender' \in [1..N -> Seeking \cup Naming \cup Decided] /\ sender'[m] = c
        /\ \A o \in 1..N : o # m => sender'[o] = sender[o]
    BY <1>3, <1>5, SenderIs DEF RestInv
  <1>7. LooksInv(N)'
    <2>1. CASE c.at = "done"
      BY <1>1, <1>6, <2>1, OneLooks DEF RestInv, Looks
    <2>2. CASE /\ a.at = "observed" /\ c.to = a.to /\ c.inc = a.inc /\ c.wakes = a.wakes
      <3>1. /\ a.inc <= session[a.to].inc
            /\ ~a.wakes /\ a.inc = session[a.to].inc /\ AtRest(a.to) => Known(a.to)
        BY <1>2, <2>2 DEF RestInv, LooksInv, Looks
      <3> QED
        BY <1>1, <1>6, <2>2, <3>1, OneLooks DEF RestInv
    <2> QED
      BY <1>5, <2>1, <2>2
  <1>8. SentInv(N)'
    <2>1. ASSUME NEW o \in DOMAIN inbox'
          PROVE  /\ o \in 1..N /\ sender'[o].at \in {"inserted", "done"}
                 /\ inbox'[o].to # "all" => inbox'[o].to \in Session
                 /\ sender'[o].at = "inserted" => inbox'[o].to = sender'[o].to
      <3>1. CASE o = m
        BY <1>4, <1>5, <1>6, <3>1 DEF Naming
      <3>2. CASE o # m
        <4>1. o \in DOMAIN inbox /\ inbox'[o] = inbox[o]
          BY <1>4, <2>1, <3>2
        <4>2. o \in 1..N /\ sender'[o] = sender[o]
          BY <1>6, <3>2, <4>1 DEF RestInv, SentInv
        <4> QED
          BY <4>1, <4>2 DEF RestInv, SentInv
      <3> QED
        BY <3>1, <3>2
    <2>2. ASSUME NEW o \in 1..N, sender'[o].at = "inserted" PROVE o \in DOMAIN inbox'
      <3>1. CASE o = m
        BY <1>4, <3>1
      <3>2. CASE o # m
        BY <1>4, <1>6, <2>2, <3>2 DEF RestInv, SentInv
      <3> QED
        BY <3>1, <3>2
    <2> QED
      BY <2>1, <2>2 DEF SentInv
  <1>9. ASSUME NEW o \in DOMAIN inbox', Waits(o)' PROVE o \in DOMAIN inbox /\ inbox[o].to = inbox'[o].to /\ Waits(o)
    <2>1. o # m
      BY <1>4, <1>5, <1>6, <1>9 DEF Waits
    <2>2. o \in DOMAIN inbox /\ inbox'[o] = inbox[o]
      BY <1>4, <2>1
    <2>3. sender'[o] = sender[o]
      BY <1>6, <2>1, <2>2 DEF RestInv, SentInv
    <2> QED
      BY <1>1, <1>9, <2>2, <2>3 DEF Waits
  <1> QED
    BY <1>1, <1>6, <1>7, <1>8, <1>9, RestSends

(* The wake: a sender that saw no mark before or after its insert has a     *)
(* recipient that is not at rest, or one that its mail is excused for.     *)
LEMMA RestNames ==
  ASSUME NEW H, NEW N, NEW R, MailInv(H), RestInv(H, N), NEW m \in 1..N, mail(H, N, R)!NameWake(m)
  PROVE  RestInv(H, N)'
  <1>1. PICK a, x : a = sender[m] /\ x = inbox[m]
    OBVIOUS
  <1>2. UNCHANGED <<session, idle, hooks, delivered>> /\ a.at = "inserted"
    BY <1>1 DEF mail!NameWake
  <1>3. m \in DOMAIN inbox /\ (x.to # "all" => x.to \in Session) /\ x.to = a.to
    BY <1>1, <1>2 DEF RestInv, SentInv
  <1>4. a \in Naming
    BY <1>1, <1>2 DEF RestInv, RestTypeOK, Seeking, Decided
  <1>5. PICK s, r : s = x.to /\ s \in Session /\ r = session[s]
    BY <1>3, <1>4 DEF Naming
  <1>6. PICK listens \in BOOLEAN :
          LET addressed == sender[m].reached /\ listens
          IN  /\ sender' = [sender EXCEPT ![m] = [at |-> "done", wakes |-> mail(H, N, R)!IdleAfterSend(m) /\ addressed]]
              /\ inbox' = [inbox EXCEPT ![m].excused =
                   CASE ~addressed \/ session[inbox[m].to].unreported \/ session[inbox[m].to].inc # sender[m].inc -> "yes"
                     [] @ = "no" /\ session[inbox[m].to].greeted -> "hello"
                     [] @ = "no" /\ session[inbox[m].to].muted -> "subagent"
                     [] OTHER -> @]
    BY DEF mail!NameWake
  <1>7. PICK addressed \in BOOLEAN : addressed = (a.reached /\ listens)
    BY <1>4, <1>6 DEF Naming
  <1>8. PICK e : e = CASE ~addressed \/ r.unreported \/ r.inc # a.inc -> "yes"
                       [] x.excused = "no" /\ r.greeted -> "hello"
                       [] x.excused = "no" /\ r.muted -> "subagent"
                       [] OTHER -> x.excused
    OBVIOUS
  <1>9. PICK y : y = [x EXCEPT !.excused = e]
    OBVIOUS
  <1>10. inbox' = [inbox EXCEPT ![m] = y]
    <2>1. inbox' = [inbox EXCEPT ![m] = [inbox[m] EXCEPT !.excused =
            CASE ~(sender[m].reached /\ listens) \/ session[inbox[m].to].unreported
                   \/ session[inbox[m].to].inc # sender[m].inc -> "yes"
              [] inbox[m].excused = "no" /\ session[inbox[m].to].greeted -> "hello"
              [] inbox[m].excused = "no" /\ session[inbox[m].to].muted -> "subagent"
              [] OTHER -> inbox[m].excused]]
      BY <1>6
    <2>2. e = CASE ~(sender[m].reached /\ listens) \/ session[inbox[m].to].unreported
                   \/ session[inbox[m].to].inc # sender[m].inc -> "yes"
              [] inbox[m].excused = "no" /\ session[inbox[m].to].greeted -> "hello"
              [] inbox[m].excused = "no" /\ session[inbox[m].to].muted -> "subagent"
              [] OTHER -> inbox[m].excused
      BY <1>1, <1>5, <1>7, <1>8
    <2> QED
      BY <1>1, <1>9, <2>1, <2>2
  <1>11. y.to = x.to /\ y.swept = x.swept /\ y.excused = e
    <2>1. LetterOf(x)
      BY <1>1, <1>3 DEF MailInv, InboxInv
    <2> QED
      BY <1>9, <2>1 DEF LetterOf
  <1>12. PICK wakes, c : wakes = ((a.wakes \/ idle[s] = a.inc) /\ addressed) /\ c = [at |-> "done", wakes |-> wakes]
    OBVIOUS
  <1>13. c.at = "done" /\ c.wakes = wakes /\ c \in Decided
    BY <1>4, <1>7, <1>12 DEF Decided, Naming
  <1>14. sender' = [sender EXCEPT ![m] = c]
    BY <1>1, <1>3, <1>5, <1>6, <1>7, <1>12 DEF mail!IdleAfterSend
  <1>15. /\ sender' \in [1..N -> Seeking \cup Naming \cup Decided] /\ sender'[m] = c
         /\ \A o \in 1..N : o # m => sender'[o] = sender[o]
    BY <1>13, <1>14, SenderIs DEF RestInv
  <1>16. DOMAIN inbox' = DOMAIN inbox /\ inbox'[m] = y /\ \A o \in DOMAIN inbox : o # m => inbox'[o] = inbox[o]
    BY <1>3, <1>10
  <1>17. LooksInv(N)'
    BY <1>2, <1>13, <1>15, OneLooks DEF RestInv, Looks
  <1>18. SentInv(N)'
    <2>1. ASSUME NEW o \in DOMAIN inbox'
          PROVE  /\ o \in 1..N /\ sender'[o].at \in {"inserted", "done"}
                 /\ inbox'[o].to # "all" => inbox'[o].to \in Session
                 /\ sender'[o].at = "inserted" => inbox'[o].to = sender'[o].to
      <3>1. CASE o = m
        BY <1>5, <1>11, <1>13, <1>15, <1>16, <3>1
      <3>2. CASE o # m
        <4>1. o \in 1..N /\ sender'[o] = sender[o] /\ inbox'[o] = inbox[o] /\ o \in DOMAIN inbox
          BY <1>15, <1>16, <3>2 DEF RestInv, SentInv
        <4> QED
          BY <4>1 DEF RestInv, SentInv
      <3> QED
        BY <3>1, <3>2
    <2>2. ASSUME NEW o \in 1..N, sender'[o].at = "inserted" PROVE o \in DOMAIN inbox'
      <3>1. o # m
        BY <1>13, <1>15, <2>2
      <3> QED
        BY <1>15, <1>16, <2>2, <3>1 DEF RestInv, SentInv
    <2> QED
      BY <2>1, <2>2 DEF SentInv
  <1>19. ASSUME Waits(m)', AtRest(s) PROVE FALSE
    <2>1. ~wakes /\ e = "no"
      BY <1>11, <1>13, <1>15, <1>16, <1>19 DEF Waits
    <2>2. ~(~addressed \/ r.unreported \/ r.inc # a.inc)
      BY <1>8, <2>1
    <2>3. ~a.wakes /\ idle[s] # a.inc /\ ~(r.unreported \/ r.inc # a.inc)
      BY <1>12, <2>1, <2>2
    <2>4. ~r.muted /\ ~r.greeted
      <3>1. CASE x.excused = "no"
        BY <1>8, <2>1, <2>2, <3>1
      <3>2. CASE x.excused # "no"
        BY <1>8, <2>1, <2>2, <3>2
      <3> QED
        BY <3>1, <3>2
    <2>5. Known(s)
      BY <1>1, <1>2, <1>3, <1>5, <1>19, <2>3 DEF RestInv, LooksInv, Looks
    <2> QED
      BY <1>5, <2>3, <2>4, <2>5 DEF Known
  <1>20. ASSUME NEW o \in DOMAIN inbox', Waits(o)', AtRest(inbox'[o].to)
         PROVE  o \in DOMAIN inbox /\ inbox[o].to = inbox'[o].to /\ Waits(o)
    <2>1. o # m
      BY <1>5, <1>11, <1>16, <1>19, <1>20
    <2>2. o \in DOMAIN inbox /\ inbox'[o] = inbox[o]
      BY <1>16, <2>1
    <2>3. sender'[o] = sender[o]
      BY <1>15, <2>1, <2>2 DEF RestInv, SentInv
    <2> QED
      BY <1>2, <1>20, <2>2, <2>3 DEF Waits
  <1> QED
    BY <1>2, <1>15, <1>17, <1>18, <1>20, RestSends

LEMMA RestInbox ==
  ASSUME NEW H, NEW N, NEW R, MailInv(H), RestInv(H, N), NEW m \in DOMAIN inbox,
         mail(H, N, R)!Ages(m) \/ mail(H, N, R)!SweepInbox(m)
  PROVE  RestInv(H, N)'
  <1>1. UNCHANGED <<session, idle, hooks, sender>> /\ (delivered' = delivered \/ mail(H, N, R)!SweepInbox(m))
    BY DEF mail!Ages, mail!SweepInbox
  <1>2. LetterOf(inbox[m])
    BY DEF MailInv, InboxInv
  <1>3. PICK x, y : /\ x = inbox[m] /\ inbox' = [inbox EXCEPT ![m] = y] /\ y.to = x.to
                    /\ \/ y.swept = x.swept /\ y.excused = x.excused /\ delivered' = delivered
                       \/ y.swept /\ delivered' = {d \in delivered : d[1] # m}
    <2>1. CASE mail(H, N, R)!Ages(m)
      <3>1. PICK x, y : x = inbox[m] /\ y = [x EXCEPT !.old = TRUE]
        OBVIOUS
      <3>2. y.to = x.to /\ y.swept = x.swept /\ y.excused = x.excused
        BY <1>2, <3>1 DEF LetterOf
      <3>3. inbox' = [inbox EXCEPT ![m] = y] /\ delivered' = delivered
        BY <2>1, <3>1 DEF mail!Ages
      <3> QED
        BY <3>1, <3>2, <3>3
    <2>2. CASE mail(H, N, R)!SweepInbox(m)
      <3>1. PICK x, x2, y : x = inbox[m] /\ x2 = [x EXCEPT !.swept = TRUE] /\ y = [x2 EXCEPT !.excused = "no"]
        OBVIOUS
      <3>2. y.to = x.to /\ y.swept
        BY <1>2, <3>1 DEF LetterOf
      <3>3. inbox' = [inbox EXCEPT ![m] = y] /\ delivered' = {d \in delivered : d[1] # m}
        BY <2>2, <3>1 DEF mail!SweepInbox
      <3> QED
        BY <3>1, <3>2, <3>3
    <2> QED
      BY <2>1, <2>2
  <1>4. DOMAIN inbox' = DOMAIN inbox /\ inbox'[m] = y /\ \A o \in DOMAIN inbox : o # m => inbox'[o] = inbox[o]
    BY <1>3
  <1>5. \A o \in DOMAIN inbox : inbox'[o].to = inbox[o].to
    BY <1>3, <1>4
  <1>6. SentInv(N)' /\ LooksInv(N)'
    BY <1>1, <1>4, <1>5 DEF RestInv, SentInv, LooksInv, Looks, AtRest, Known
  <1>7. ASSUME NEW o \in DOMAIN inbox, Waits(o)' PROVE Waits(o)
    <2>1. CASE o = m
      <3>1. y.swept = x.swept /\ y.excused = x.excused /\ delivered' = delivered
        BY <1>3, <1>4, <1>7, <2>1 DEF Waits
      <3> QED
        BY <1>1, <1>3, <1>4, <1>7, <2>1, <3>1 DEF Waits
    <2>2. CASE o # m
      <3>1. inbox'[o] = inbox[o] /\ sender' = sender
        BY <1>1, <1>4, <2>2
      <3>2. <<o, inbox[o].to>> \in delivered => <<o, inbox[o].to>> \in delivered'
        <4>1. <<o, inbox[o].to>>[1] # m
          BY <2>2
        <4> QED
          BY <1>3, <4>1
      <3> QED
        BY <1>7, <3>1, <3>2 DEF Waits
    <2> QED
      BY <2>1, <2>2
  <1>8. sender' \in [1..N -> Seeking \cup Naming \cup Decided]
    BY <1>1 DEF RestInv, RestTypeOK
  <1> QED
    BY <1>1, <1>4, <1>5, <1>6, <1>7, <1>8, RestSends


-----------------------------------------------------------------------------
(* The step of a hook. *)
LEMMA RestRests ==
  ASSUME NEW H, NEW N, NEW R, MailInv(H), RestInv(H, N), NEW h \in H, hooks[h].at # "none", hooks[h].verb = "stop",
         session' = [session EXCEPT ![hooks[h].s].turn = "prompt"],
         idle' = IF session[hooks[h].s].live THEN [idle EXCEPT ![hooks[h].s] = session[hooks[h].s].inc] ELSE idle,
         inbox' = mail(H, N, R)!Excusing(mail(H, N, R)!Owed(h)), hooks' = [hooks EXCEPT ![h] = NoHook],
         UNCHANGED <<delivered, sender>>
  PROVE  RestInv(H, N)'
  <1>1. PICK a, s, q, r : a = hooks[h] /\ s = a.s /\ q = session[s] /\ r = [q EXCEPT !.turn = "prompt"]
    OBVIOUS
  <1>2. a # NoHook /\ Fits(a)
    BY <1>1, NotFree DEF RestInv, FitInv
  <1>3. s \in Session /\ session[s].live
    BY <1>1, <1>2 DEF Fits
  <1>4. q \in SessionRec
    BY <1>1, <1>3 DEF RestInv, RestTypeOK
  <1>5. r \in SessionRec /\ r.live /\ r.inc = q.inc
    BY <1>1, <1>3, <1>4 DEF SessionRec
  <1>6. r.inc \in Nat
    BY <1>5 DEF SessionRec
  <1>7. session' = [session EXCEPT ![hooks[h].s] = r] /\ idle' = [idle EXCEPT ![hooks[h].s] = r.inc]
    BY <1>1, <1>3, <1>5
  <1>8. r.inc = session[hooks[h].s].inc
    BY <1>1, <1>5
  <1> QED
    BY <1>5, <1>6, <1>7, <1>8, RestStops

LEMMA RestTurnEnds ==
  ASSUME NEW H, NEW N, NEW R, MailInv(H), RestInv(H, N), NEW h \in H, mail(H, N, R)!StopBegins(h) \/ mail(H, N, R)!MarkIdle(h)
  PROVE  RestInv(H, N)'
  <1>1. PICK a : a = hooks[h]
    OBVIOUS
  <1>2. a.at = "stop" \/ a.at = "markIdle"
    BY <1>1 DEF mail!StopBegins, mail!MarkIdle, mail!At
  <1>3. a # NoHook /\ Fits(a) /\ a.at # "none"
    BY <1>1, <1>2, NotFree DEF RestInv, FitInv
  <1>4. a.verb = "stop"
    <2>1. CASE a.at = "stop"
      BY <1>3, <2>1 DEF Fits
    <2>2. CASE a.at = "markIdle"
      BY <1>3, <2>2 DEF Fits
    <2> QED
      BY <1>2, <2>1, <2>2
  <1>5. \/ /\ a.at = "stop" /\ UNCHANGED <<inbox, delivered, sender, session, idle>>
           /\ hooks' = [hooks EXCEPT ![h].at = "write", ![h].msgs = mail(H, N, R)!BoundDrain(mail(H, N, R)!Owed(h))]
        \/ /\ session' = [session EXCEPT ![a.s].turn = "prompt"]
           /\ idle' = IF session[a.s].live THEN [idle EXCEPT ![a.s] = session[a.s].inc] ELSE idle
           /\ inbox' = mail(H, N, R)!Excusing(mail(H, N, R)!Owed(h)) /\ hooks' = [hooks EXCEPT ![h] = NoHook]
           /\ UNCHANGED <<delivered, sender>>
    BY <1>1 DEF mail!StopBegins, mail!MarkIdle, mail!At, mail!Ends, mail!Free, mail!mail, NoHook
  <1>6. CASE /\ a.at = "stop" /\ UNCHANGED <<inbox, delivered, sender, session, idle>>
             /\ hooks' = [hooks EXCEPT ![h].at = "write", ![h].msgs = mail(H, N, R)!BoundDrain(mail(H, N, R)!Owed(h))]
    <2>1. hooks[h].at \in {"drain", "inbox", "stop"}
      BY <1>1, <1>6
    <2> QED
      BY <1>6, <2>1, RestBegins
  <1>7. CASE /\ session' = [session EXCEPT ![a.s].turn = "prompt"]
             /\ idle' = IF session[a.s].live THEN [idle EXCEPT ![a.s] = session[a.s].inc] ELSE idle
             /\ inbox' = mail(H, N, R)!Excusing(mail(H, N, R)!Owed(h)) /\ hooks' = [hooks EXCEPT ![h] = NoHook]
             /\ UNCHANGED <<delivered, sender>>
    BY <1>1, <1>3, <1>4, <1>7, RestRests
  <1> QED
    BY <1>5, <1>6, <1>7

LEMMA RestTakes ==
  ASSUME NEW H, NEW N, NEW R, MailInv(H), RestInv(H, N), NEW h \in H, mail(H, N, R)!DrainBegins(h)
  PROVE  RestInv(H, N)'
  <1>1. hooks[h].at \in {"drain", "inbox", "stop"} /\ UNCHANGED <<inbox, delivered, sender, session, idle>>
    BY DEF mail!DrainBegins, mail!mail
  <1>2. PICK S : hooks' = [hooks EXCEPT ![h].at = "write", ![h].msgs = S]
    BY DEF mail!DrainBegins
  <1> QED
    BY <1>1, <1>2, RestBegins

LEMMA RestLosesWrite ==
  ASSUME NEW H, NEW N, NEW R, MailInv(H), RestInv(H, N), NEW h \in H, mail(H, N, R)!WriteFails(h)
  PROVE  RestInv(H, N)'
  <1>1. hooks[h].at \notin {"none", "hello"} /\ UNCHANGED <<delivered, sender, session, idle>>
    BY DEF mail!WriteFails
  <1>2. \/ hooks' = [hooks EXCEPT ![h] = NoHook]
        \/ hooks[h].verb = "stop" /\ hooks' = [hooks EXCEPT ![h].at = "markIdle"]
    BY DEF mail!WriteFails, mail!Goto, mail!Ends, mail!Free, NoHook
  <1>3. /\ inbox' = inbox \/ inbox' = mail(H, N, R)!Excusing(mail(H, N, R)!Owed(h))
        /\ hooks[h].verb = "hello" => inbox' = mail(H, N, R)!Excusing(mail(H, N, R)!Owed(h))
    BY DEF mail!WriteFails
  <1> QED
    BY <1>1, <1>2, <1>3, RestFails

(* A hook that dies: a Stop leaves its session at rest and unreported, and *)
(* a SessionStart that has not reached the row had no digest to give.      *)
LEMMA RestDies ==
  ASSUME NEW H, NEW N, NEW R, MailInv(H), RestInv(H, N), NEW h \in H, mail(H, N, R)!Killed(h)
  PROVE  RestInv(H, N)'
  <1>1. PICK a, s : a = hooks[h] /\ s = a.s
    OBVIOUS
  <1>2. a # NoHook /\ Fits(a) /\ HookOf(a)
    BY <1>1 DEF mail!Killed, mail!Free, NoHook, RestInv, FitInv, MailInv, HooksInv
  <1>3. a.at # "none"
    BY <1>2 DEF HookOf
  <1>4. s \in Session
    BY <1>1, <1>2 DEF Fits
  <1>5. /\ hooks' = [hooks EXCEPT ![h] = NoHook] /\ UNCHANGED <<delivered, sender, idle>>
        /\ inbox' = IF a.verb \in {"stop", "hello"} THEN mail(H, N, R)!Excusing(mail(H, N, R)!Owed(h)) ELSE inbox
    BY <1>1 DEF mail!Killed, mail!Ends, mail!Free, NoHook
  <1>6. CASE a.verb = "stop"
    <2>1. PICK q, q2, r : q = session[s] /\ q2 = [q EXCEPT !.turn = "prompt"] /\ r = [q2 EXCEPT !.unreported = TRUE]
      OBVIOUS
    <2>2. q \in SessionRec /\ q.live
      <3>1. q.live
        BY <1>1, <1>2, <1>6, <2>1 DEF Fits
      <3> QED
        BY <1>4, <2>1, <3>1 DEF RestInv, RestTypeOK
    <2>3. r \in SessionRec /\ r.live /\ r.inc = q.inc /\ r.unreported
      BY <2>1, <2>2 DEF SessionRec
    <2>4. session' = [session EXCEPT ![hooks[h].s] = r]
      BY <1>1, <1>6, <2>1 DEF mail!Killed
    <2>5. PICK i \in Nat : idle' = [idle EXCEPT ![hooks[h].s] = i]
      <3>1. RestTypeOK(N) /\ idle' = idle
        BY <1>5 DEF RestInv
      <3>2. idle' = [idle EXCEPT ![s] = idle[s]] /\ idle[s] \in Nat
        BY <1>4, <3>1, IdleStays
      <3> QED
        BY <1>1, <3>2
    <2>6. inbox' = mail(H, N, R)!Excusing(mail(H, N, R)!Owed(h))
      BY <1>5, <1>6
    <2>7. r.inc = session[hooks[h].s].inc /\ hooks[h].at # "none" /\ hooks[h].verb = "stop"
      BY <1>1, <1>3, <1>6, <2>1, <2>3
    <2>8. hooks' = [hooks EXCEPT ![h] = NoHook] /\ UNCHANGED <<delivered, sender>>
      BY <1>5
    <2> QED
      BY <2>3, <2>4, <2>5, <2>6, <2>7, <2>8, RestStops
  <1>7. CASE a.verb # "stop" /\ a.at # "hello"
    <2>1. session' = session
      BY <1>1, <1>7 DEF mail!Killed
    <2>2. hooks[h].at \notin {"none", "hello"}
      BY <1>1, <1>3, <1>7
    <2>3. hooks[h].verb = "hello" => inbox' = mail(H, N, R)!Excusing(mail(H, N, R)!Owed(h))
      BY <1>1, <1>5
    <2>4. inbox' = inbox \/ inbox' = mail(H, N, R)!Excusing(mail(H, N, R)!Owed(h))
      BY <1>5
    <2> QED
      BY <1>5, <2>1, <2>2, <2>3, <2>4, RestFails
  <1>8. CASE a.verb # "stop" /\ a.at = "hello"
    <2>1. UNCHANGED <<session, idle>>
      BY <1>1, <1>5, <1>8 DEF mail!Killed
    <2>2. OnlyOf(s) /\ Doing(s) /\ (AtRest(s)' => AtRest(s))
      BY <2>1, StillOnly DEF RestInv
    <2>3. Wanes
      BY <1>5, KeptWanes, Excuses DEF MailInv
    <2>4. \A m : ~Digests(hooks[h], m, s)
      BY <1>1, <1>8 DEF Digests
    <2>5. Fits(NoHook)'
      BY DEF Fits
    <2> QED
      BY <1>1, <1>2, <1>5, <2>2, <2>3, <2>4, <2>5, RestHook
  <1> QED
    BY <1>6, <1>7, <1>8


LEMMA RestInit ==
  ASSUME NEW H, NEW N, NEW R, mail(H, N, R)!Init
  PROVE  RestInv(H, N)
  <1>1. PICK r : r = [live |-> TRUE, inc |-> 1, fresh |-> FALSE, turn |-> "prompt",
                      continued |-> FALSE, unreported |-> FALSE, greeted |-> FALSE, muted |-> FALSE]
    OBVIOUS
  <1>2. /\ inbox = <<>> /\ hooks = [h \in H |-> NoHook] /\ session = [s \in Session |-> r]
        /\ idle = [s \in Session |-> 0] /\ sender = [m \in 1..N |-> [at |-> "none"]]
    BY <1>1 DEF mail!Init, mail!Free, NoHook
  <1>3. r \in SessionRec /\ ~r.fresh
    BY <1>1 DEF SessionRec
  <1>4. \A m \in 1..N : sender[m] = [at |-> "none"] /\ sender[m].at = "none"
    BY <1>2
  <1>5. RestTypeOK(N)
    <2>1. [at |-> "none"] \in Seeking
      BY DEF Seeking
    <2>2. session \in [Session -> SessionRec] /\ idle \in [Session -> Nat]
      BY <1>2, <1>3
    <2> QED
      BY <1>2, <2>1, <2>2 DEF RestTypeOK
  <1>6. \A h \in H : hooks[h] = NoHook
    BY <1>2
  <1>7. FitInv(H) /\ StopInv(H)
    BY <1>6 DEF FitInv, StopInv, Fits, Stops
  <1>8. QuietInv
    BY <1>2, <1>3 DEF QuietInv
  <1>9. LooksInv(N)
    BY <1>4 DEF LooksInv, Looks
  <1>10. SentInv(N) /\ ComingInv(H)
    <2>1. DOMAIN inbox = {}
      BY <1>2
    <2> QED
      BY <1>4, <2>1 DEF SentInv, ComingInv
  <1> QED
    BY <1>5, <1>7, <1>8, <1>9, <1>10 DEF RestInv

LEMMA RestStands ==
  ASSUME NEW H, NEW N, RestInv(H, N), UNCHANGED <<inbox, delivered, session, idle, hooks, sender>>
  PROVE  RestInv(H, N)'
  <1>1. LooksInv(N)' /\ SentInv(N)'
    BY DEF RestInv, LooksInv, SentInv, Looks, AtRest, Known
  <1>2. sender' \in [1..N -> Seeking \cup Naming \cup Decided]
    BY DEF RestInv, RestTypeOK
  <1>3. ASSUME NEW m \in DOMAIN inbox', Waits(m)', AtRest(inbox'[m].to)
        PROVE  m \in DOMAIN inbox /\ inbox[m].to = inbox'[m].to /\ Waits(m)
    BY <1>3 DEF Waits
  <1> QED
    BY <1>1, <1>2, <1>3, RestSends

LEMMA RestStep ==
  ASSUME NEW H, NEW N, NEW R, MailInv(H), RestInv(H, N), mail(H, N, R)!Next
  PROVE  RestInv(H, N)'
  <1>1. CASE \E m \in 1..N : mail(H, N, R)!Sending(m)
    <2>1. PICK m \in 1..N : mail(H, N, R)!Sending(m)
      BY <1>1
    <2>2. CASE mail(H, N, R)!NameWake(m)
      BY <2>2, RestNames
    <2>3. CASE mail(H, N, R)!SendDirect(m) \/ mail(H, N, R)!SendBroadcast(m)
      BY <2>3, RestInserts
    <2>4. CASE \E s \in Session : mail(H, N, R)!Observe(m, s)
      BY <2>4, RestObserves
    <2> QED
      BY <2>1, <2>2, <2>3, <2>4 DEF mail!Sending
  <1>2. CASE \E m \in DOMAIN inbox : mail(H, N, R)!Ages(m) \/ mail(H, N, R)!SweepInbox(m)
    BY <1>2, RestInbox
  <1>3. CASE \E s \in Session : mail(H, N, R)!Harness(s)
    BY <1>3, RestHarness
  <1>4. CASE \E h \in H : mail(H, N, R)!Hooks(h)
    <2>1. PICK h \in H : mail(H, N, R)!Hooks(h)
      BY <1>4
    <2>2. CASE mail(H, N, R)!BeatRow(h)
      BY <2>2, RestBeats
    <2>3. CASE mail(H, N, R)!BusyClear(h)
      BY <2>3, RestClears
    <2>4. CASE mail(H, N, R)!Look(h)
      BY <2>4, RestLooks
    <2>5. CASE mail(H, N, R)!DrainBegins(h)
      BY <2>5, RestTakes
    <2>6. CASE mail(H, N, R)!StopBegins(h) \/ mail(H, N, R)!MarkIdle(h)
      BY <2>6, RestTurnEnds
    <2>7. CASE mail(H, N, R)!Write(h)
      BY <2>7, RestWrites
    <2>8. CASE mail(H, N, R)!WriteFails(h)
      BY <2>8, RestLosesWrite
    <2>9. CASE mail(H, N, R)!MarkDelivered(h)
      BY <2>9, RestMarks
    <2>10. CASE mail(H, N, R)!HelloRow(h)
      BY <2>10, RestGreets
    <2>11. CASE mail(H, N, R)!HelloLook(h)
      BY <2>11, RestDigests
    <2>12. CASE mail(H, N, R)!Killed(h)
      BY <2>12, RestDies
    <2> QED
      BY <2>1, <2>2, <2>3, <2>4, <2>5, <2>6, <2>7, <2>8, <2>9, <2>10, <2>11, <2>12 DEF mail!Hooks
  <1> QED
    BY <1>1, <1>2, <1>3, <1>4 DEF mail!Next, mail!Sent

RestParts ==
  /\ part = "mail" => RestInv({"hook"}, 2)
  /\ part = "mailAnew" => RestInv(Two, 1)

LEMMA RestPartsStep == ASSUME MailParts, RestParts, [Next]_vars PROVE RestParts'
  <1>1. CASE part = "mail" /\ part' = part /\ mail({"hook"}, 2, 1)!Next
    <2>1. RestInv({"hook"}, 2)'
      BY <1>1, RestStep DEF MailParts, RestParts
    <2> QED
      BY <1>1, <2>1 DEF RestParts
  <1>2. CASE part = "mailAnew" /\ part' = part /\ mail(Two, 1, 2)!Next
    <2>1. RestInv(Two, 1)'
      BY <1>2, RestStep DEF MailParts, RestParts
    <2> QED
      BY <1>2, <2>1 DEF RestParts
  <1>3. CASE part' = part /\ part \notin {"mail", "mailAnew"}
    BY <1>3 DEF RestParts
  <1>4. CASE UNCHANGED vars
    <2>1. UNCHANGED <<part, inbox, delivered, session, idle, hooks, sender>>
      BY <1>4 DEF vars, onlyMail
    <2>2. \A H, N : RestInv(H, N) => RestInv(H, N)'
      BY <2>1, RestStands
    <2> QED
      BY <2>1, <2>2 DEF RestParts
  <1>5. Next => \/ part = "mail" /\ part' = part /\ mail({"hook"}, 2, 1)!Next
                \/ part = "mailAnew" /\ part' = part /\ mail(Two, 1, 2)!Next
                \/ part' = part /\ part \notin {"mail", "mailAnew"}
    BY DEF Next, MailNext, MailAnewNext, AlertNext, AlertRoomsNext, ReadNext, ConciergeNext
  <1> QED
    BY <1>1, <1>2, <1>3, <1>4, <1>5

(* The inductive invariant of the wake: what a hook says of its session,   *)
(* what a sender will find, and the mail that has a digest before it.      *)
THEOREM RestInvariant == Spec => []RestParts
  <1>1. Init => RestParts
    <2>1. CASE part = "mail" /\ mail({"hook"}, 2, 1)!Init
      <3>1. RestInv({"hook"}, 2)
        BY <2>1, RestInit
      <3> QED
        BY <2>1, <3>1 DEF RestParts
    <2>2. CASE part = "mailAnew" /\ mail(Two, 1, 2)!Init
      <3>1. RestInv(Two, 1)
        BY <2>2, RestInit
      <3> QED
        BY <2>2, <3>1 DEF RestParts
    <2>3. CASE part \notin {"mail", "mailAnew"}
      BY <2>3 DEF RestParts
    <2>4. Init => \/ part = "mail" /\ mail({"hook"}, 2, 1)!Init
                  \/ part = "mailAnew" /\ mail(Two, 1, 2)!Init
                  \/ part \notin {"mail", "mailAnew"}
      BY DEF Init
    <2> QED
      BY <2>1, <2>2, <2>3, <2>4
  <1> QED
    BY <1>1, MailInvariant, RestPartsStep, PTL DEF Spec

LEMMA Finds ==
  ASSUME NEW H, NEW N, NEW R, RestInv(H, N)
  PROVE  mail(H, N, R)!MailFindsTheResting
  <1> SUFFICES ASSUME NEW m \in DOMAIN inbox, mail(H, N, R)!Stranded(m), ~sender[m].wakes, inbox[m].excused = "no"
               PROVE  FALSE
    BY DEF mail!MailFindsTheResting, mail!Sent
  <1>1. PICK s : s = inbox[m].to
    OBVIOUS
  <1>2. Waits(m) /\ AtRest(s) /\ \A h \in H : hooks[h].s # s
    BY <1>1 DEF mail!Stranded, mail!Broadcast, mail!Of, Waits, AtRest
  <1>3. Coming(H, m)
    BY <1>1, <1>2 DEF RestInv, ComingInv
  <1> QED
    BY <1>1, <1>2, <1>3 DEF Coming, Digests

(* Mail to a session that rests at its prompt with no hook of it running   *)
(* has a wake named for it, or one of the excuses the code gives (wake.go, *)
(* idleAfterSend): of any sessions and messages, and of any hooks at once. *)
THEOREM MailStaysFindable == Spec => []MailFindsTheResting
  <1>1. RestParts => MailFindsTheResting
    BY Finds DEF RestParts, MailFindsTheResting
  <1> QED
    BY <1>1, RestInvariant, PTL

-----------------------------------------------------------------------------
(***************************************************************************)
(* The concierge.  The lines on the wire lead from the members the client  *)
(* knows to those the server has, room by room, and the events of the line *)
(* being handled from who the daemon takes for present to those members.   *)
(***************************************************************************)
People == Two \cup {concierge!me}
Words == Text \cup Two \cup {NoText}

Lines ==
  [cmd : {"JOIN", "353", "PART", "KICK", "QUIT", "NICK", "PRIVMSG"},
   room : Room, who : SUBSET People, text : Words]
Signals ==
  [kind : {"present", "absent", "joined", "left", "chat"},
   room : Room, who : SUBSET People, text : Words]
SayCalls == [kind : {"say"}, at : {"record", "send"}, room : Room, text : Text, conn : Nat]
StatusCalls == [kind : {"status"}, at : {"away"}, room : {""}, text : Text, conn : Nat]

Loops ==
  [at : {"dial", "status", "reapply", "join", "events"}, status : Text \cup {NoText}, rest : SUBSET Room]
Rows == [row : {"sent", "echo"}, text : Words]

TrackTypeOK ==
  /\ occupants \in [Room -> SUBSET People] /\ members \in [Room -> SUBSET People]
  /\ seen \in [Room -> SUBSET People] /\ joined \subseteq Room
  /\ up \in BOOLEAN /\ made \in Nat /\ conn \in Nat
  /\ wire \in Seq(Lines) /\ events \in Seq(Signals)
  /\ run \in Loops
  /\ status \in Text \cup {NoText}
  /\ calls \subseteq SayCalls \cup StatusCalls
  /\ journal \in Seq(Rows)

(* Who a line is about. *)
LineOk(l) ==
  /\ l.cmd \in {"JOIN", "PART", "KICK"} => \E n \in People : l.who = {n}
  /\ l.cmd \in {"QUIT", "NICK"} => \E n \in Two : l.who = {n}
  /\ l.cmd = "NICK" => l.text \in Two

LinesInv == \A i \in DOMAIN wire : LineOk(wire[i])

(* What stands at a step of the main loop: a daemon that does not take     *)
(* events yet has none, and has a room to join that it is not in.          *)
PlaceInv ==
  /\ ~up => \A r \in Room : concierge!me \notin occupants[r]
  /\ run.at = "dial" => ~up
  /\ run.at # "dial" => conn = made
  /\ run.at # "events" => events = <<>> /\ joined = {} /\ seen = concierge!Nothing
  /\ run.at \in {"status", "reapply", "join"} =>
       members = concierge!Nothing /\ \A r \in run.rest : concierge!me \notin occupants[r]

(* Members s of room r, after line l.                                      *)
Lands(l, r, s) ==
  CASE l.cmd \in {"JOIN", "353"} -> IF l.room = r THEN s \cup l.who ELSE s
    [] l.cmd \in {"PART", "KICK"} -> IF l.room # r THEN s ELSE IF l.who = {concierge!me} THEN {} ELSE s \ l.who
    [] l.cmd = "QUIT" -> s \ l.who
    [] l.cmd = "NICK" -> IF l.who \cap s = {} THEN s ELSE (s \ l.who) \cup {l.text}
    [] OTHER -> s

NamesOf(l, r) == l.cmd = "353" /\ l.room = r /\ concierge!me \in l.who
JoinsMe(l) == l.cmd = "JOIN" /\ l.who = {concierge!me}

(* The names of a room come right after our own join, and that to a room   *)
(* nobody was known of.                                                    *)
Fitting(w, i, r, s) ==
  w[i].room = r =>
    /\ w[i].cmd = "353" => concierge!me \in s
    /\ JoinsMe(w[i]) => s = {} /\ i + 1 \in DOMAIN w /\ NamesOf(w[i + 1], r)

Follows(w, r, s, t) ==
  \E h \in [1..(Len(w) + 1) -> SUBSET People] :
    /\ h[1] = s /\ h[Len(w) + 1] = t
    /\ \A i \in 1..Len(w) : h[i + 1] = Lands(w[i], r, h[i]) /\ Fitting(w, i, r, h[i])

Truth(r) == IF concierge!me \in occupants[r] THEN occupants[r] ELSE {}

WireInv == up => \A r \in Room : Follows(wire, r, members[r], Truth(r))

(* Who is present in room r of those s, after event e.                     *)
Heeds(e, r, s) ==
  IF e.room # r THEN s
  ELSE CASE e.kind = "present" -> s \cup e.who
         [] e.kind = "absent" -> s \ e.who
         [] e.kind = "left" -> {}
         [] OTHER -> s

Leads(ev, r, s, t) ==
  \E h \in [1..(Len(ev) + 1) -> SUBSET People] :
    /\ h[1] = s /\ h[Len(ev) + 1] = t
    /\ \A i \in 1..Len(ev) : h[i + 1] = Heeds(ev[i], r, h[i])

(* A room is entered or left by the last event of a line.                  *)
Turning(e, r) == e.room = r /\ e.kind \in {"joined", "left"}
RoomKnown(r) ==
  /\ (\A i \in DOMAIN events : ~Turning(events[i], r)) => (r \in joined <=> concierge!me \in members[r])
  /\ \A i \in DOMAIN events : Turning(events[i], r) =>
       i = Len(events) /\ (events[i].kind = "joined" <=> concierge!me \in members[r])

(* Of those s the daemon will have as present: the members, or nobody yet, *)
(* with our own join handled and the names the next line.                  *)
Mirrors(r, s) ==
  \/ s = members[r]
  \/ members[r] = {concierge!me} /\ s = {} /\ wire # <<>> /\ NamesOf(wire[1], r)

MirrorInv ==
  up => \A r \in Room : RoomKnown(r) /\ \E s \in SUBSET People : Leads(events, r, seen[r], s) /\ Mirrors(r, s)

(* What is on its way has the row of its intent.                           *)
Intended(t) == \E j \in DOMAIN journal : journal[j] = [row |-> "sent", text |-> t]
IntentInv ==
  /\ \A k \in calls : k.kind = "say" /\ k.at = "send" => Intended(k.text)
  /\ \A i \in DOMAIN wire : wire[i].cmd = "PRIVMSG" => Intended(wire[i].text)
  /\ \A i \in DOMAIN events : events[i].kind = "chat" => Intended(events[i].text)
  /\ concierge!IntentBeforeEcho

ConciergeInv == TrackTypeOK /\ LinesInv /\ PlaceInv /\ WireInv /\ MirrorInv /\ IntentInv

LEMMA Own == concierge!me \notin Two /\ concierge!me \in People
  BY RoomsAndPeople DEF concierge!PeopleAssumption, People

LEMMA LandsIn ==
  ASSUME NEW l \in Lines, LineOk(l), NEW r, NEW s \in SUBSET People
  PROVE  Lands(l, r, s) \in SUBSET People
  BY DEF Lines, LineOk, Lands, People

LEMMA FollowsNone ==
  ASSUME NEW r, NEW s \in SUBSET People, NEW t
  PROVE  Follows(<<>>, r, s, t) <=> s = t
  <1>1. Follows(<<>>, r, s, t) => s = t
    BY DEF Follows
  <1>2. ASSUME s = t PROVE Follows(<<>>, r, s, t)
    <2> DEFINE h == [i \in 1..1 |-> s]
    <2>1. h \in [1..1 -> SUBSET People] /\ h[1] = s /\ h[1] = t
      BY <1>2
    <2>2. Len(<<>>) = 0
      OBVIOUS
    <2> HIDE DEF h
    <2> QED
      BY <2>1, <2>2 DEF Follows
  <1> QED
    BY <1>1, <1>2

LEMMA FollowsTail ==
  ASSUME NEW w \in Seq(Lines), w # <<>>, NEW r, NEW s \in SUBSET People, NEW t, Follows(w, r, s, t)
  PROVE  Fitting(w, 1, r, s) /\ Follows(Tail(w), r, Lands(w[1], r, s), t)
  <1>1. PICK h \in [1..(Len(w) + 1) -> SUBSET People] :
          /\ h[1] = s /\ h[Len(w) + 1] = t
          /\ \A i \in 1..Len(w) : h[i + 1] = Lands(w[i], r, h[i]) /\ Fitting(w, i, r, h[i])
    BY DEF Follows
  <1>2. Len(w) \in Nat \ {0} /\ Len(Tail(w)) = Len(w) - 1 /\ \A i \in 1..Len(Tail(w)) : Tail(w)[i] = w[i + 1]
    OBVIOUS
  <1>3. DOMAIN w = 1..Len(w) /\ DOMAIN Tail(w) = 1..(Len(w) - 1)
    BY <1>2
  <1>4. Fitting(w, 1, r, s) /\ h[2] = Lands(w[1], r, s)
    BY <1>1, <1>2
  <1> DEFINE g == [i \in 1..Len(w) |-> h[i + 1]]
  <1>5. g \in [1..(Len(Tail(w)) + 1) -> SUBSET People] /\ g[1] = Lands(w[1], r, s) /\ g[Len(Tail(w)) + 1] = t
    BY <1>1, <1>2, <1>4
  <1>6. ASSUME NEW i \in 1..Len(Tail(w)) PROVE g[i + 1] = Lands(Tail(w)[i], r, g[i]) /\ Fitting(Tail(w), i, r, g[i])
    <2>1. i + 1 \in 1..Len(w) /\ g[i] = h[i + 1] /\ g[i + 1] = h[i + 2] /\ Tail(w)[i] = w[i + 1]
      BY <1>2
    <2>2. h[i + 2] = Lands(w[i + 1], r, h[i + 1]) /\ Fitting(w, i + 1, r, h[i + 1])
      <3>1. (i + 1) + 1 = i + 2
        OBVIOUS
      <3> QED
        BY <1>1, <2>1, <3>1
    <2>3. i + 2 \in DOMAIN w => i + 1 \in DOMAIN Tail(w) /\ Tail(w)[i + 1] = w[i + 2]
      BY <1>2, <1>3
    <2>4. (i + 1) + 1 = i + 2
      OBVIOUS
    <2> QED
      BY <2>1, <2>2, <2>3, <2>4 DEF Fitting
  <1> HIDE DEF g
  <1> QED
    BY <1>4, <1>5, <1>6 DEF Follows

LEMMA FollowsLine ==
  ASSUME NEW w \in Seq(Lines), NEW l \in Lines, LineOk(l), l.cmd # "353", ~JoinsMe(l),
         NEW r, NEW s, NEW t, Follows(w, r, s, t)
  PROVE  Follows(Append(w, l), r, s, Lands(l, r, t))
  <1>1. PICK h \in [1..(Len(w) + 1) -> SUBSET People] :
          /\ h[1] = s /\ h[Len(w) + 1] = t
          /\ \A i \in 1..Len(w) : h[i + 1] = Lands(w[i], r, h[i]) /\ Fitting(w, i, r, h[i])
    BY DEF Follows
  <1> DEFINE v == Append(w, l)
  <1>2. Len(w) \in Nat /\ Len(v) = Len(w) + 1 /\ v[Len(w) + 1] = l /\ \A i \in 1..Len(w) : v[i] = w[i]
    OBVIOUS
  <1>3. DOMAIN w = 1..Len(w) /\ DOMAIN v = 1..(Len(w) + 1)
    BY <1>2
  <1>4. Lands(l, r, t) \in SUBSET People
    <2>1. t \in SUBSET People
      BY <1>1, <1>2
    <2> QED
      BY <2>1, LandsIn
  <1> DEFINE g == [i \in 1..(Len(w) + 2) |-> IF i <= Len(w) + 1 THEN h[i] ELSE Lands(l, r, t)]
  <1>5. g \in [1..(Len(v) + 1) -> SUBSET People] /\ g[1] = s /\ g[Len(v) + 1] = Lands(l, r, t)
    <2> HIDE DEF v
    <2> QED
      BY <1>1, <1>2, <1>4
  <1>6. ASSUME NEW i \in 1..Len(v) PROVE g[i + 1] = Lands(v[i], r, g[i]) /\ Fitting(v, i, r, g[i])
    <2>1. CASE i \in 1..Len(w)
      <3>1. g[i] = h[i] /\ g[i + 1] = h[i + 1] /\ v[i] = w[i]
        <4> HIDE DEF v
        <4> QED
          BY <1>2, <2>1
      <3>2. h[i + 1] = Lands(w[i], r, h[i]) /\ Fitting(w, i, r, h[i])
        BY <1>1, <2>1
      <3>3. i + 1 \in DOMAIN w => i + 1 \in DOMAIN v /\ v[i + 1] = w[i + 1]
        <4> HIDE DEF v
        <4> QED
          BY <1>2, <1>3
      <3> HIDE DEF v, g
      <3> QED
        BY <3>1, <3>2, <3>3 DEF Fitting
    <2>2. CASE i = Len(w) + 1
      <3>1. g[i] = t /\ g[i + 1] = Lands(l, r, t) /\ v[i] = l
        <4> HIDE DEF v
        <4> QED
          BY <1>1, <1>2, <2>2
      <3> HIDE DEF v, g
      <3> QED
        BY <3>1 DEF Fitting
    <2> HIDE DEF v, g
    <2> QED
      BY <2>1, <2>2, <1>2
  <1> HIDE DEF v, g
  <1>7. Follows(v, r, s, Lands(l, r, t))
    BY <1>5, <1>6 DEF Follows
  <1> QED
    BY <1>7 DEF v

LEMMA FollowsJoin ==
  ASSUME NEW w \in Seq(Lines), NEW q \in Room, NEW names \in SUBSET People, concierge!me \in names,
         NEW j \in Lines, JoinsMe(j), j.room = q,
         NEW n \in Lines, n.cmd = "353", n.room = q, n.who = names,
         NEW r, NEW s, NEW t, Follows(w, r, s, t), r = q => t = {}
  PROVE  Follows(w \o <<j, n>>, r, s, IF r = q THEN names ELSE t)
  <1>1. PICK h \in [1..(Len(w) + 1) -> SUBSET People] :
          /\ h[1] = s /\ h[Len(w) + 1] = t
          /\ \A i \in 1..Len(w) : h[i + 1] = Lands(w[i], r, h[i]) /\ Fitting(w, i, r, h[i])
    BY DEF Follows
  <1> DEFINE v == w \o <<j, n>>
             mid == IF r = q THEN {concierge!me} ELSE t
             end == IF r = q THEN names ELSE t
  <1>2. /\ Len(w) \in Nat /\ Len(v) = Len(w) + 2
        /\ v[Len(w) + 1] = j /\ v[Len(w) + 2] = n /\ \A i \in 1..Len(w) : v[i] = w[i]
    OBVIOUS
  <1>3. DOMAIN w = 1..Len(w) /\ DOMAIN v = 1..(Len(w) + 2)
    BY <1>2
  <1>4. t \in SUBSET People /\ mid \in SUBSET People /\ end \in SUBSET People
    BY <1>1, <1>2, Own
  <1>5. Lands(j, r, t) = mid /\ Lands(n, r, mid) = end
    <2>1. j.cmd = "JOIN" /\ j.who = {concierge!me}
      BY DEF JoinsMe
    <2>2. r = q => t \cup {concierge!me} = {concierge!me} /\ {concierge!me} \cup names = names
      OBVIOUS
    <2> QED
      BY <2>1, <2>2 DEF Lands
  <1>6. NamesOf(n, q)
    BY DEF NamesOf
  <1> DEFINE g == [i \in 1..(Len(w) + 3) |-> IF i <= Len(w) + 1 THEN h[i] ELSE IF i = Len(w) + 2 THEN mid ELSE end]
  <1>7. g \in [1..(Len(v) + 1) -> SUBSET People] /\ g[1] = s /\ g[Len(v) + 1] = end
    <2> HIDE DEF v, mid, end
    <2> QED
      BY <1>1, <1>2, <1>4
  <1>8. ASSUME NEW i \in 1..Len(v) PROVE g[i + 1] = Lands(v[i], r, g[i]) /\ Fitting(v, i, r, g[i])
    <2>1. CASE i \in 1..Len(w)
      <3>1. g[i] = h[i] /\ g[i + 1] = h[i + 1] /\ v[i] = w[i]
        <4> HIDE DEF v, mid, end
        <4> QED
          BY <1>2, <2>1
      <3>2. h[i + 1] = Lands(w[i], r, h[i]) /\ Fitting(w, i, r, h[i])
        BY <1>1, <2>1
      <3>3. i + 1 \in DOMAIN w => i + 1 \in DOMAIN v /\ v[i + 1] = w[i + 1]
        <4> HIDE DEF v
        <4> QED
          BY <1>2, <1>3
      <3> HIDE DEF v, g
      <3> QED
        BY <3>1, <3>2, <3>3 DEF Fitting
    <2>2. CASE i = Len(w) + 1
      <3>1. g[i] = t /\ g[i + 1] = mid /\ v[i] = j /\ v[i + 1] = n /\ i + 1 \in DOMAIN v
        <4>1. i + 1 = Len(w) + 2
          BY <2>2
        <4> HIDE DEF v, mid, end
        <4> QED
          BY <1>1, <1>2, <1>3, <2>2, <4>1
      <3>2. Fitting(v, i, r, t)
        <4> HIDE DEF v, g, mid, end
        <4> QED
          BY <3>1, <1>6 DEF Fitting, JoinsMe
      <3> HIDE DEF v, g, mid, end
      <3> QED
        BY <3>1, <3>2, <1>5
    <2>3. CASE i = Len(w) + 2
      <3>1. g[i] = mid /\ g[i + 1] = end /\ v[i] = n
        <4>1. i + 1 = Len(w) + 3 /\ i # Len(w) + 1
          BY <2>3
        <4> HIDE DEF v, mid, end
        <4> QED
          BY <1>2, <2>3, <4>1
      <3>2. Fitting(v, i, r, mid)
        <4>1. r = q => concierge!me \in mid
          OBVIOUS
        <4> HIDE DEF v, g, mid, end
        <4> QED
          BY <3>1, <4>1 DEF Fitting, JoinsMe
      <3> HIDE DEF v, g, mid, end
      <3> QED
        BY <3>1, <3>2, <1>5
    <2> HIDE DEF v, g
    <2> QED
      BY <2>1, <2>2, <2>3, <1>2
  <1> HIDE DEF v, g, mid
  <1>9. Follows(v, r, s, end)
    <2> HIDE DEF end
    <2> QED
      BY <1>7, <1>8 DEF Follows
  <1> QED
    BY <1>9 DEF v

LEMMA LeadsNone ==
  ASSUME NEW r, NEW s \in SUBSET People, NEW t
  PROVE  Leads(<<>>, r, s, t) <=> s = t
  <1>1. Leads(<<>>, r, s, t) => s = t
    BY DEF Leads
  <1>2. ASSUME s = t PROVE Leads(<<>>, r, s, t)
    <2> DEFINE h == [i \in 1..1 |-> s]
    <2>1. h \in [1..1 -> SUBSET People] /\ h[1] = s /\ h[1] = t
      BY <1>2
    <2>2. Len(<<>>) = 0
      OBVIOUS
    <2> HIDE DEF h
    <2> QED
      BY <2>1, <2>2 DEF Leads
  <1> QED
    BY <1>1, <1>2

LEMMA LeadsTail ==
  ASSUME NEW ev \in Seq(Signals), ev # <<>>, NEW r, NEW s \in SUBSET People, NEW t, Leads(ev, r, s, t)
  PROVE  Leads(Tail(ev), r, Heeds(ev[1], r, s), t)
  <1>1. PICK h \in [1..(Len(ev) + 1) -> SUBSET People] :
          /\ h[1] = s /\ h[Len(ev) + 1] = t
          /\ \A i \in 1..Len(ev) : h[i + 1] = Heeds(ev[i], r, h[i])
    BY DEF Leads
  <1>2. Len(ev) \in Nat \ {0} /\ Len(Tail(ev)) = Len(ev) - 1 /\ \A i \in 1..Len(Tail(ev)) : Tail(ev)[i] = ev[i + 1]
    OBVIOUS
  <1>3. h[2] = Heeds(ev[1], r, s)
    BY <1>1, <1>2
  <1> DEFINE g == [i \in 1..Len(ev) |-> h[i + 1]]
  <1>4. g \in [1..(Len(Tail(ev)) + 1) -> SUBSET People] /\ g[1] = Heeds(ev[1], r, s) /\ g[Len(Tail(ev)) + 1] = t
    BY <1>1, <1>2, <1>3
  <1>5. ASSUME NEW i \in 1..Len(Tail(ev)) PROVE g[i + 1] = Heeds(Tail(ev)[i], r, g[i])
    <2>1. i + 1 \in 1..Len(ev) /\ g[i] = h[i + 1] /\ g[i + 1] = h[i + 2] /\ Tail(ev)[i] = ev[i + 1] /\ (i + 1) + 1 = i + 2
      BY <1>2
    <2> QED
      BY <1>1, <2>1
  <1> HIDE DEF g
  <1> QED
    BY <1>4, <1>5 DEF Leads

LEMMA LeadsOne ==
  ASSUME NEW e, NEW r, NEW s \in SUBSET People, Heeds(e, r, s) \in SUBSET People
  PROVE  Leads(<<e>>, r, s, Heeds(e, r, s))
  <1> DEFINE h == [i \in 1..2 |-> IF i = 1 THEN s ELSE Heeds(e, r, s)]
  <1>1. h \in [1..2 -> SUBSET People] /\ h[1] = s /\ h[2] = Heeds(e, r, s)
    OBVIOUS
  <1>2. Len(<<e>>) = 1 /\ <<e>>[1] = e
    OBVIOUS
  <1> HIDE DEF h
  <1>3. \A i \in 1..1 : h[i + 1] = Heeds(<<e>>[i], r, h[i])
    BY <1>1, <1>2
  <1>4. Len(<<e>>) + 1 = 2
    BY <1>2
  <1> QED
    BY <1>1, <1>2, <1>3, <1>4 DEF Leads

LEMMA LeadsTwo ==
  ASSUME NEW e, NEW f, NEW r, NEW s \in SUBSET People, NEW m \in SUBSET People, m = Heeds(e, r, s),
         Heeds(f, r, m) \in SUBSET People
  PROVE  Leads(<<e, f>>, r, s, Heeds(f, r, m))
  <1> DEFINE h == [i \in 1..3 |-> IF i = 1 THEN s ELSE IF i = 2 THEN m ELSE Heeds(f, r, m)]
  <1>1. h \in [1..3 -> SUBSET People] /\ h[1] = s /\ h[2] = m /\ h[3] = Heeds(f, r, m)
    OBVIOUS
  <1>2. Len(<<e, f>>) = 2 /\ <<e, f>>[1] = e /\ <<e, f>>[2] = f
    OBVIOUS
  <1> HIDE DEF h
  <1>3. \A i \in 1..2 : h[i + 1] = Heeds(<<e, f>>[i], r, h[i])
    BY <1>1, <1>2
  <1>4. Len(<<e, f>>) + 1 = 3
    BY <1>2
  <1> QED
    BY <1>1, <1>2, <1>3, <1>4 DEF Leads

(* Orders of a set: all of it, and none of it twice.                       *)
Channels(n) == {r \in Room : n \in members[r]}
OrderOf(in, C) ==
  /\ in \in Seq(C) /\ DOMAIN in = 1..Len(in) /\ Len(in) \in Nat
  /\ \A i, j \in 1..Len(in) : i # j => in[i] # in[j]
  /\ \A r \in C : \E i \in 1..Len(in) : in[i] = r

LEMMA SameCardinal ==
  ASSUME NEW S PROVE concierge!Cardinality(S) = Cardinality(S) /\ concierge!IsFiniteSet(S) = IsFiniteSet(S)
  BY DEF concierge!Cardinality, Cardinality, concierge!IsFiniteSet, IsFiniteSet

LEMMA SeqOf ==
  ASSUME NEW S, NEW n \in Nat, NEW f \in [1..n -> S]
  PROVE  f \in Seq(S) /\ Len(f) = n /\ DOMAIN f = 1..n
  OBVIOUS

LEMMA Halves ==
  ASSUME NEW k \in Nat
  PROVE  /\ k % 2 = 1 => 2 * ((k + 1) \div 2) = k + 1 /\ (k + 1) \div 2 \in Nat
         /\ k % 2 # 1 => 2 * (k \div 2) = k /\ k \div 2 \in Nat
  OBVIOUS

LEMMA ChannelsInOrder ==
  ASSUME NEW n, NEW in \in concierge!ChannelsOf(n)
  PROVE  OrderOf(in, Channels(n))
  <1> DEFINE C == Channels(n)
             k == Cardinality(C)
  <1>1. IsFiniteSet(C)
    <2>1. C \subseteq Room /\ IsFiniteSet(Room)
      BY RoomsAndPeople, SameCardinal DEF concierge!PeopleAssumption, Channels
    <2> QED
      BY <2>1, FS_Subset
  <1>2. k \in Nat
    BY <1>1, FS_CardinalityType
  <1>3. in \in [1..k -> C] /\ \A i, j \in 1..k : i # j => in[i] # in[j]
    <2>1. concierge!Cardinality(C) = k
      BY SameCardinal
    <2>2. in \in concierge!SetToSeqs(C)
      BY DEF concierge!ChannelsOf, Channels
    <2> HIDE DEF C, k
    <2> QED
      BY <2>1, <2>2 DEF concierge!SetToSeqs
  <1>4. in \in Injection(1..k, C)
    BY <1>3 DEF Injection, IsInjective
  <1>5. IsFiniteSet(1..k) /\ Cardinality(1..k) = k
    BY <1>2, FS_Interval
  <1>6. in \in Surjection(1..k, C)
    <2> HIDE DEF C, k
    <2>1. Cardinality(1..k) = Cardinality(C)
      BY <1>5 DEF k
    <2> QED
      BY <1>1, <1>4, <2>1, FS_Injection
  <1>7. \A r \in C : \E i \in 1..k : in[i] = r
    <2> HIDE DEF C, k
    <2> QED
      BY <1>6 DEF Surjection
  <1>8. in \in Seq(C) /\ Len(in) = k
    <2> HIDE DEF C, k
    <2> QED
      BY <1>2, <1>3
  <1> HIDE DEF C, k
  <1> QED
    BY <1>2, <1>3, <1>7, <1>8 DEF OrderOf, C

LEMMA SignalsAre ==
  ASSUME NEW r \in Room, NEW n \in People
  PROVE  concierge!Present(r, {n}) \in Signals /\ concierge!Absent(r, {n}) \in Signals
  BY DEF concierge!Present, concierge!Absent, concierge!Event, Signals, Words

LEMMA QuitLeads ==
  ASSUME NEW C \in SUBSET Room, NEW n \in Two, NEW in, OrderOf(in, C),
         NEW S, NEW ev \in [1..Len(in) -> S], \A i \in 1..Len(in) : ev[i] = concierge!Absent(in[i], {n})
  PROVE  /\ ev \in Seq(Signals)
         /\ \A i \in DOMAIN ev : ev[i].kind = "absent"
         /\ \A r \in Room, s \in SUBSET People : (r \notin C => n \notin s) => Leads(ev, r, s, s \ {n})
  <1> DEFINE L == Len(in)
  <1>1. L \in Nat /\ DOMAIN in = 1..L /\ \A i \in 1..L : in[i] \in Room
    BY DEF OrderOf
  <1>0. ev \in [1..L -> S] /\ \A i \in 1..L : ev[i] = concierge!Absent(in[i], {n})
    OBVIOUS
  <1> HIDE DEF L
  <1>2. n \in People
    BY DEF People
  <1>3. ev \in [1..L -> Signals]
    <2>1. \A i \in 1..L : ev[i] \in Signals
      BY <1>0, <1>1, <1>2, SignalsAre
    <2> QED
      BY <1>0, <2>1
  <1>4. ev \in Seq(Signals) /\ Len(ev) = L /\ DOMAIN ev = 1..L
    BY <1>1, <1>3, SeqOf
  <1>5. \A i \in 1..L : ev[i].kind = "absent" /\ ev[i].room = in[i] /\ ev[i].who = {n}
    BY <1>0, <1>1 DEF concierge!Absent, concierge!Event
  <1>6. ASSUME NEW r \in Room, NEW s \in SUBSET People, r \notin C => n \notin s
        PROVE  Leads(ev, r, s, s \ {n})
    <2> DEFINE Past(k) == \E i \in 1..L : in[i] = r /\ i < k
               h == [k \in 1..(L + 1) |-> IF Past(k) THEN s \ {n} ELSE s]
    <2>1. h \in [1..(Len(ev) + 1) -> SUBSET People]
      BY <1>4
    <2>2. h[1] = s
      BY <1>1
    <2>3. h[Len(ev) + 1] = s \ {n}
      <3>1. CASE r \in C
        <4>1. PICK i \in 1..L : in[i] = r
          BY <3>1 DEF OrderOf, L
        <4>2. Past(L + 1)
          BY <4>1, <1>1
        <4> HIDE DEF Past
        <4> QED
          BY <4>2, <1>1, <1>4
      <3>2. CASE r \notin C
        <4>1. s = s \ {n}
          BY <3>2, <1>6
        <4> HIDE DEF Past
        <4> QED
          BY <4>1, <1>1, <1>4
      <3> QED
        BY <3>1, <3>2
    <2>4. ASSUME NEW k \in 1..Len(ev) PROVE h[k + 1] = Heeds(ev[k], r, h[k])
      <3>1. k \in 1..L /\ k + 1 \in 1..(L + 1) /\ k \in 1..(L + 1)
        BY <1>1, <1>4
      <3>2. h[k] = (IF Past(k) THEN s \ {n} ELSE s) /\ h[k + 1] = (IF Past(k + 1) THEN s \ {n} ELSE s)
        <4> HIDE DEF Past
        <4> QED
          BY <3>1
      <3>3. CASE in[k] = r
        <4>1. Past(k + 1)
          BY <3>1, <3>3
        <4>2. Heeds(ev[k], r, h[k]) = h[k] \ {n}
          BY <1>5, <3>1, <3>3 DEF Heeds
        <4>3. (s \ {n}) \ {n} = s \ {n}
          OBVIOUS
        <4> HIDE DEF Past, h
        <4> QED
          BY <3>2, <4>1, <4>2, <4>3
      <3>4. CASE in[k] # r
        <4>1. Past(k + 1) <=> Past(k)
          BY <1>1, <3>1, <3>4
        <4>2. Heeds(ev[k], r, h[k]) = h[k]
          BY <1>5, <3>1, <3>4 DEF Heeds
        <4> HIDE DEF Past, h
        <4> QED
          BY <3>2, <4>1, <4>2
      <3> QED
        BY <3>3, <3>4
    <2> HIDE DEF h
    <2> QED
      BY <2>1, <2>2, <2>3, <2>4 DEF Leads
  <1> QED
    BY <1>4, <1>5, <1>6

(* Out under the old name and in under the new one, room by room.          *)
Renaming(ev, in, n, new) ==
  \A i \in 1..(2 * Len(in)) :
    ev[i] = IF i % 2 = 1 THEN concierge!Absent(in[(i + 1) \div 2], {n})
            ELSE concierge!Present(in[i \div 2], {new})

LEMMA NickLeads ==
  ASSUME NEW C \in SUBSET Room, NEW n \in Two, NEW new \in Two, NEW in, OrderOf(in, C),
         NEW S, NEW ev \in [1..(2 * Len(in)) -> S],
         Renaming(ev, in, n, new)
  PROVE  /\ ev \in Seq(Signals)
         /\ \A i \in DOMAIN ev : ev[i].kind \in {"absent", "present"}
         /\ \A r \in Room, s \in SUBSET People :
              Leads(ev, r, s, IF r \in C THEN (s \ {n}) \cup {new} ELSE s)
  <1> DEFINE L == Len(in)
  <1>1. L \in Nat /\ DOMAIN in = 1..L /\ \A i \in 1..L : in[i] \in Room /\ in[i] \in C
    BY DEF OrderOf
  <1> HIDE DEF L
  <1>2. n \in People /\ new \in People
    BY DEF People
  <1>3. ASSUME NEW k \in 1..(2 * L)
        PROVE  \/ \E i \in 1..L : k = 2 * i - 1 /\ ev[k] = concierge!Absent(in[i], {n})
               \/ \E i \in 1..L : k = 2 * i /\ ev[k] = concierge!Present(in[i], {new})
    <2>1. ev[k] = IF k % 2 = 1 THEN concierge!Absent(in[(k + 1) \div 2], {n}) ELSE concierge!Present(in[k \div 2], {new})
      BY DEF L, Renaming
    <2>2. CASE k % 2 = 1
      <3>1. k \in Nat /\ (k + 1) \div 2 \in Nat /\ 2 * ((k + 1) \div 2) = k + 1
        BY <1>1, <2>2, Halves
      <3>2. PICK i \in Nat : i = (k + 1) \div 2
        BY <3>1
      <3>3. i \in 1..L /\ k = 2 * i - 1
        BY <1>1, <3>1, <3>2
      <3> QED
        BY <2>1, <2>2, <3>2, <3>3
    <2>3. CASE k % 2 # 1
      <3>1. k \in Nat /\ k \div 2 \in Nat /\ 2 * (k \div 2) = k
        BY <1>1, <2>3, Halves
      <3>2. PICK i \in Nat : i = k \div 2
        BY <3>1
      <3>3. i \in 1..L /\ k = 2 * i
        BY <1>1, <3>1, <3>2
      <3> QED
        BY <2>1, <2>3, <3>2, <3>3
    <2> QED
      BY <2>2, <2>3
  <1>4. ev \in [1..(2 * L) -> Signals]
    <2>1. ASSUME NEW k \in 1..(2 * L) PROVE ev[k] \in Signals
      <3>1. \A i \in 1..L : concierge!Absent(in[i], {n}) \in Signals /\ concierge!Present(in[i], {new}) \in Signals
        BY <1>1, <1>2, SignalsAre
      <3> QED
        BY <1>3, <3>1
    <2>2. ev \in [1..(2 * L) -> S]
      BY DEF L
    <2> QED
      BY <2>1, <2>2
  <1>5. ev \in Seq(Signals) /\ Len(ev) = 2 * L /\ DOMAIN ev = 1..(2 * L)
    <2>1. 2 * L \in Nat
      BY <1>1
    <2> QED
      BY <2>1, <1>4, SeqOf
  <1>6. ASSUME NEW k \in 1..(2 * L)
        PROVE  ev[k].kind \in {"absent", "present"} /\ \E i \in 1..L : ev[k].room = in[i]
    <2>1. CASE \E i \in 1..L : k = 2 * i - 1 /\ ev[k] = concierge!Absent(in[i], {n})
      <3>1. PICK i \in 1..L : ev[k] = concierge!Absent(in[i], {n})
        BY <2>1
      <3> QED
        BY <3>1 DEF concierge!Absent, concierge!Event
    <2>2. CASE \E i \in 1..L : k = 2 * i /\ ev[k] = concierge!Present(in[i], {new})
      <3>1. PICK i \in 1..L : ev[k] = concierge!Present(in[i], {new})
        BY <2>2
      <3> QED
        BY <3>1 DEF concierge!Present, concierge!Event
    <2> QED
      BY <1>3, <2>1, <2>2
  <1>7. ASSUME NEW r \in Room, NEW s \in SUBSET People, r \notin C
        PROVE  Leads(ev, r, s, s)
    <2> DEFINE h == [k \in 1..(2 * L + 1) |-> s]
    <2>1. h \in [1..(Len(ev) + 1) -> SUBSET People] /\ h[1] = s /\ h[Len(ev) + 1] = s
      BY <1>1, <1>5
    <2>2. ASSUME NEW k \in 1..Len(ev) PROVE h[k + 1] = Heeds(ev[k], r, h[k])
      <3>1. ev[k].room # r
        BY <1>1, <1>5, <1>6, <1>7
      <3>2. h[k + 1] = s /\ h[k] = s
        BY <1>1, <1>5
      <3> QED
        BY <3>1, <3>2 DEF Heeds
    <2> HIDE DEF h
    <2> QED
      BY <2>1, <2>2 DEF Leads
  <1>8. ASSUME NEW r \in Room, NEW s \in SUBSET People, r \in C
        PROVE  Leads(ev, r, s, (s \ {n}) \cup {new})
    <2>1. PICK i \in 1..L : in[i] = r
      BY <1>8 DEF OrderOf, L
    <2>2. \A j \in 1..L : in[j] = r => j = i
      BY <2>1 DEF OrderOf, L
    <2> DEFINE gone == s \ {n}
               end == (s \ {n}) \cup {new}
               h == [k \in 1..(2 * L + 1) |-> IF k < 2 * i THEN s ELSE IF k = 2 * i THEN gone ELSE end]
    <2>3. gone \in SUBSET People /\ end \in SUBSET People /\ i \in Nat /\ 1 <= i /\ i <= L
      BY <1>1, <1>2, <2>1
    <2>4. h \in [1..(Len(ev) + 1) -> SUBSET People] /\ h[1] = s /\ h[Len(ev) + 1] = end
      <3> HIDE DEF gone, end
      <3> QED
        BY <1>1, <1>5, <2>3
    <2>5. ASSUME NEW k \in 1..Len(ev) PROVE h[k + 1] = Heeds(ev[k], r, h[k])
      <3>1. k \in 1..(2 * L) /\ k \in 1..(2 * L + 1) /\ k + 1 \in 1..(2 * L + 1) /\ k \in Nat
        BY <1>1, <1>5
      <3>2. /\ h[k] = (IF k < 2 * i THEN s ELSE IF k = 2 * i THEN gone ELSE end)
            /\ h[k + 1] = (IF k + 1 < 2 * i THEN s ELSE IF k + 1 = 2 * i THEN gone ELSE end)
        <4> HIDE DEF gone, end
        <4> QED
          BY <3>1
      <3>3. CASE \E j \in 1..L : k = 2 * j - 1 /\ ev[k] = concierge!Absent(in[j], {n})
        <4>1. PICK j \in 1..L : k = 2 * j - 1 /\ ev[k] = concierge!Absent(in[j], {n})
          BY <3>3
        <4>2. j \in Nat
          BY <1>1
        <4>3. Heeds(ev[k], r, h[k]) = IF in[j] = r THEN h[k] \ {n} ELSE h[k]
          <5>1. ev[k].kind = "absent" /\ ev[k].room = in[j] /\ ev[k].who = {n}
            BY <4>1 DEF concierge!Absent, concierge!Event
          <5> HIDE DEF h
          <5> QED
            BY <5>1 DEF Heeds
        <4>4. CASE in[j] = r
          <5>1. k + 1 = 2 * i /\ k < 2 * i
            <6>1. j = i
              BY <2>2, <4>4
            <6> QED
              BY <2>3, <4>1, <6>1
          <5>2. h[k] = s /\ h[k + 1] = gone
            <6>1. ~(k + 1 < 2 * i)
              BY <5>1, <2>3
            <6> HIDE DEF h, gone, end
            <6> QED
              BY <3>2, <5>1, <6>1
          <5>3. Heeds(ev[k], r, h[k]) = h[k] \ {n}
            BY <4>3, <4>4
          <5> HIDE DEF h
          <5> QED
            BY <5>2, <5>3
        <4>5. CASE in[j] # r
          <5>1. j < i \/ j > i
            BY <2>1, <2>3, <4>2, <4>5
          <5>2. CASE j < i
            <6>1. k < 2 * i /\ k + 1 < 2 * i
              BY <4>1, <4>2, <2>3, <5>2
            <6> HIDE DEF h, gone, end
            <6> QED
              BY <3>2, <4>3, <4>5, <6>1
          <5>3. CASE j > i
            <6>1. ~(k < 2 * i) /\ k # 2 * i /\ ~(k + 1 < 2 * i) /\ k + 1 # 2 * i
              BY <4>1, <4>2, <2>3, <5>3
            <6> HIDE DEF h, gone, end
            <6> QED
              BY <3>2, <4>3, <4>5, <6>1
          <5> QED
            BY <5>1, <5>2, <5>3
        <4> QED
          BY <4>4, <4>5
      <3>4. CASE \E j \in 1..L : k = 2 * j /\ ev[k] = concierge!Present(in[j], {new})
        <4>1. PICK j \in 1..L : k = 2 * j /\ ev[k] = concierge!Present(in[j], {new})
          BY <3>4
        <4>2. j \in Nat
          BY <1>1
        <4>3. Heeds(ev[k], r, h[k]) = IF in[j] = r THEN h[k] \cup {new} ELSE h[k]
          <5>1. ev[k].kind = "present" /\ ev[k].room = in[j] /\ ev[k].who = {new}
            BY <4>1 DEF concierge!Present, concierge!Event
          <5> HIDE DEF h
          <5> QED
            BY <5>1 DEF Heeds
        <4>4. CASE in[j] = r
          <5>1. k = 2 * i /\ ~(k < 2 * i) /\ ~(k + 1 < 2 * i) /\ k + 1 # 2 * i
            <6>1. j = i
              BY <2>2, <4>4
            <6> QED
              BY <2>3, <4>1, <6>1
          <5> HIDE DEF h
          <5> QED
            BY <3>2, <4>3, <4>4, <5>1
        <4>5. CASE in[j] # r
          <5>1. j < i \/ j > i
            BY <2>1, <2>3, <4>2, <4>5
          <5>2. CASE j < i
            <6>1. k < 2 * i /\ k + 1 < 2 * i
              BY <4>1, <4>2, <2>3, <5>2
            <6> HIDE DEF h, gone, end
            <6> QED
              BY <3>2, <4>3, <4>5, <6>1
          <5>3. CASE j > i
            <6>1. ~(k < 2 * i) /\ k # 2 * i /\ ~(k + 1 < 2 * i) /\ k + 1 # 2 * i
              BY <4>1, <4>2, <2>3, <5>3
            <6> HIDE DEF h, gone, end
            <6> QED
              BY <3>2, <4>3, <4>5, <6>1
          <5> QED
            BY <5>1, <5>2, <5>3
        <4> QED
          BY <4>4, <4>5
      <3> QED
        BY <1>3, <3>1, <3>3, <3>4
    <2> HIDE DEF h
    <2> QED
      BY <2>4, <2>5 DEF Leads
  <1> QED
    BY <1>5, <1>6, <1>7, <1>8

LEMMA ConciergeStands == ASSUME ConciergeInv, UNCHANGED onlyConcierge PROVE ConciergeInv'
  BY DEF ConciergeInv, onlyConcierge, TrackTypeOK, LinesInv, PlaceInv, WireInv, MirrorInv, IntentInv,
         RoomKnown, Mirrors, Truth, Intended, concierge!IntentBeforeEcho

LEMMA TrackKept ==
  ASSUME LinesInv, WireInv, MirrorInv, UNCHANGED <<occupants, up, wire, members, events, joined, seen>>
  PROVE  LinesInv' /\ WireInv' /\ MirrorInv'
  BY DEF LinesInv, WireInv, MirrorInv, RoomKnown, Mirrors, Truth

LEMMA IntentKept ==
  ASSUME IntentInv, UNCHANGED <<wire, events, journal>>, \A k \in calls' : k.kind = "say" /\ k.at = "send" => k \in calls
  PROVE  IntentInv'
  BY DEF IntentInv, Intended, concierge!IntentBeforeEcho

LEMMA RunMoves ==
  ASSUME TrackTypeOK, NEW a \in {"dial", "status", "reapply", "join", "events"}
  PROVE  /\ [run EXCEPT !.at = a] = [at |-> a, status |-> run.status, rest |-> run.rest]
         /\ [at |-> a, status |-> run.status, rest |-> run.rest] \in Loops
  BY DEF TrackTypeOK, Loops

LEMMA NothingIs == concierge!Nothing \in [Room -> SUBSET People] /\ \A r \in Room : concierge!Nothing[r] = {}
  BY DEF concierge!Nothing

LEMMA TrackInit == ASSUME concierge!Init PROVE ConciergeInv
  <1>1. TrackTypeOK
    <2>1. occupants \in [Room -> SUBSET People]
      BY DEF concierge!Init, People
    <2>2. run \in Loops
      BY DEF concierge!Init, concierge!Dialing, Loops
    <2>3. <<>> \in Seq(Lines) /\ <<>> \in Seq(Signals) /\ <<>> \in Seq(Rows)
      OBVIOUS
    <2> QED
      BY <2>1, <2>2, <2>3, NothingIs DEF concierge!Init, TrackTypeOK
  <1>2. LinesInv /\ WireInv /\ MirrorInv /\ IntentInv
    BY DEF concierge!Init, LinesInv, WireInv, MirrorInv, IntentInv, concierge!IntentBeforeEcho
  <1>3. PlaceInv
    BY Own DEF concierge!Init, concierge!Dialing, PlaceInv
  <1> QED
    BY <1>1, <1>2, <1>3 DEF ConciergeInv

LEMMA TrackDial == ASSUME ConciergeInv, concierge!Dial PROVE ConciergeInv'
  <1>1. /\ TrackTypeOK /\ PlaceInv /\ IntentInv
        /\ run.at = "dial" /\ made' = made + 1 /\ up' = TRUE /\ wire' = <<>> /\ conn' = made'
        /\ run' = [run EXCEPT !.at = "status"] /\ members' = concierge!Nothing /\ events' = <<>>
        /\ UNCHANGED <<occupants, joined, seen, status, calls, journal>>
    BY DEF concierge!Dial, ConciergeInv
  <1>2. run' = [at |-> "status", status |-> run.status, rest |-> run.rest] /\ run' \in Loops
    BY <1>1, RunMoves
  <1>3. TrackTypeOK'
    <2>1. <<>> \in Seq(Lines) /\ <<>> \in Seq(Signals) /\ made + 1 \in Nat
      BY <1>1 DEF TrackTypeOK
    <2> QED
      BY <1>1, <1>2, <2>1, NothingIs DEF TrackTypeOK
  <1>4. (\A r \in Room : concierge!me \notin occupants[r]) /\ joined = {} /\ seen = concierge!Nothing
    BY <1>1 DEF PlaceInv
  <1>5. PlaceInv'
    <2>1. run'.at = "status" /\ run'.rest = run.rest /\ run.rest \subseteq Room
      BY <1>1, <1>2 DEF TrackTypeOK, Loops
    <2> QED
      BY <1>1, <1>4, <2>1 DEF PlaceInv
  <1>6. ASSUME NEW r \in Room PROVE Follows(<<>>, r, {}, {}) /\ Leads(<<>>, r, {}, {})
    BY FollowsNone, LeadsNone
  <1>7. WireInv'
    <2>1. \A r \in Room : members'[r] = {} /\ Truth(r)' = {}
      BY <1>1, <1>4, NothingIs DEF Truth
    <2> QED
      BY <1>1, <1>6, <2>1 DEF WireInv
  <1>8. MirrorInv'
    <2>1. \A r \in Room : members'[r] = {} /\ seen'[r] = {} /\ r \notin joined'
      BY <1>1, <1>4, NothingIs
    <2>2. \A r \in Room : RoomKnown(r)' /\ Mirrors(r, {})'
      BY <1>1, <2>1 DEF RoomKnown, Mirrors
    <2>3. \A r \in Room : Leads(events', r, seen'[r], {})
      BY <1>1, <1>6, <2>1
    <2> QED
      BY <2>2, <2>3 DEF MirrorInv
  <1>9. LinesInv' /\ IntentInv'
    BY <1>1 DEF LinesInv, IntentInv, Intended, concierge!IntentBeforeEcho
  <1> QED
    BY <1>3, <1>5, <1>7, <1>8, <1>9 DEF ConciergeInv

LEMMA TrackStatusRead == ASSUME ConciergeInv, concierge!ReadStatus \/ concierge!Reapply PROVE ConciergeInv'
  <1>1. /\ TrackTypeOK /\ LinesInv /\ PlaceInv /\ WireInv /\ MirrorInv /\ IntentInv
        /\ UNCHANGED <<occupants, up, wire, members, events, made, conn, joined, seen, status, calls, journal>>
    BY DEF concierge!ReadStatus, concierge!Reapply, concierge!client, concierge!daemon, concierge!server, ConciergeInv
  <1>2. run.at \in {"status", "reapply"} /\ \E a \in {"join", "reapply"}, s \in Text \cup {NoText} :
          run' = [at |-> a, status |-> s, rest |-> run.rest]
    <2>1. CASE concierge!ReadStatus
      <3>1. PICK a \in {"join", "reapply"} : run' = [run EXCEPT !.at = a, !.status = status]
        BY <2>1 DEF concierge!ReadStatus
      <3> QED
        BY <1>1, <2>1, <3>1 DEF concierge!ReadStatus, TrackTypeOK, Loops
    <2>2. CASE concierge!Reapply
      <3>1. run' = [run EXCEPT !.at = "join", !.status = NoText]
        BY <2>2 DEF concierge!Reapply
      <3> QED
        BY <1>1, <2>2, <3>1 DEF concierge!Reapply, TrackTypeOK, Loops
    <2> QED
      BY <2>1, <2>2
  <1>3. TrackTypeOK' /\ PlaceInv'
    <2>1. PICK a \in {"join", "reapply"}, s \in Text \cup {NoText} : run' = [at |-> a, status |-> s, rest |-> run.rest]
      BY <1>2
    <2>2. run' \in Loops
      BY <1>1, <2>1 DEF TrackTypeOK, Loops
    <2>3. run'.at = a /\ run'.rest = run.rest
      BY <2>1
    <2> QED
      BY <1>1, <1>2, <2>2, <2>3 DEF TrackTypeOK, PlaceInv
  <1>4. LinesInv' /\ WireInv' /\ MirrorInv' /\ IntentInv'
    BY <1>1, TrackKept, IntentKept
  <1> QED
    BY <1>3, <1>4 DEF ConciergeInv

LEMMA TrackDisconnected == ASSUME ConciergeInv, concierge!Disconnected PROVE ConciergeInv'
  <1>1. /\ TrackTypeOK /\ LinesInv /\ PlaceInv /\ IntentInv
        /\ ~up /\ events = <<>> /\ run' = concierge!Dialing /\ conn' = 0 /\ joined' = {} /\ seen' = concierge!Nothing
        /\ UNCHANGED <<occupants, up, wire, members, events, made, status, calls, journal>>
    BY DEF concierge!Disconnected, concierge!client, concierge!server, ConciergeInv
  <1>2. run' = [at |-> "dial", status |-> NoText, rest |-> Room]
    BY <1>1 DEF concierge!Dialing
  <1>3. TrackTypeOK'
    <2>1. run' \in Loops
      BY <1>2 DEF Loops
    <2> QED
      BY <1>1, <2>1, NothingIs DEF TrackTypeOK
  <1>4. PlaceInv'
    BY <1>1, <1>2 DEF PlaceInv
  <1>5. LinesInv' /\ WireInv' /\ MirrorInv'
    BY <1>1 DEF LinesInv, WireInv, MirrorInv
  <1>6. IntentInv'
    BY <1>1, IntentKept
  <1> QED
    BY <1>3, <1>4, <1>5, <1>6 DEF ConciergeInv

LEMMA TrackDrops == ASSUME ConciergeInv, concierge!Drops PROVE ConciergeInv'
  <1>1. /\ TrackTypeOK /\ LinesInv /\ PlaceInv /\ IntentInv
        /\ up' = FALSE /\ occupants' = [r \in Room |-> occupants[r] \ {concierge!me}]
        /\ UNCHANGED <<members, events, run, made, conn, joined, seen, status, calls, journal>>
    BY DEF concierge!Drops, concierge!client, concierge!daemon, ConciergeInv
  <1>2. PICK n \in 0..Len(wire) : wire' = SubSeq(wire, 1, n)
    BY DEF concierge!Drops
  <1>3. wire' \in Seq(Lines) /\ \A i \in DOMAIN wire' : i \in DOMAIN wire /\ wire'[i] = wire[i]
    <2>1. wire \in Seq(Lines) /\ n \in Nat /\ n <= Len(wire)
      BY <1>1, <1>2 DEF TrackTypeOK
    <2>2. Len(wire') = n /\ wire' \in Seq(Lines) /\ \A i \in 1..n : wire'[i] = wire[i]
      BY <1>2, <2>1
    <2> QED
      BY <2>1, <2>2
  <1>4. occupants' \in [Room -> SUBSET People] /\ \A r \in Room : concierge!me \notin occupants'[r]
    BY <1>1 DEF TrackTypeOK
  <1>5. TrackTypeOK'
    BY <1>1, <1>3, <1>4 DEF TrackTypeOK
  <1>6. PlaceInv'
    <2>1. run.rest \subseteq Room
      BY <1>1 DEF TrackTypeOK, Loops
    <2> QED
      BY <1>1, <1>4, <2>1 DEF PlaceInv
  <1>7. LinesInv' /\ WireInv' /\ MirrorInv'
    BY <1>1, <1>3 DEF LinesInv, WireInv, MirrorInv
  <1>8. IntentInv'
    BY <1>1, <1>3 DEF IntentInv, Intended, concierge!IntentBeforeEcho
  <1> QED
    BY <1>5, <1>6, <1>7, <1>8 DEF ConciergeInv

(* A line of the server's, of something that changes the members as it     *)
(* tells: what led to the members leads to those after it.                 *)
LEMMA WireGains ==
  ASSUME TrackTypeOK, LinesInv, WireInv, MirrorInv,
         NEW l \in Lines, LineOk(l), l.cmd # "353", ~JoinsMe(l),
         wire' = Append(wire, l), UNCHANGED <<up, members, events, joined, seen>>,
         up => \A r \in Room : Truth(r)' = Lands(l, r, Truth(r))
  PROVE  wire' \in Seq(Lines) /\ LinesInv' /\ WireInv' /\ MirrorInv'
  <1>1. wire \in Seq(Lines) /\ members \in [Room -> SUBSET People]
    BY DEF TrackTypeOK
  <1>2. /\ wire' \in Seq(Lines) /\ Len(wire') = Len(wire) + 1 /\ Len(wire) \in Nat
        /\ wire'[Len(wire) + 1] = l /\ \A i \in 1..Len(wire) : wire'[i] = wire[i]
    BY <1>1
  <1>3. DOMAIN wire' = 1..(Len(wire) + 1) /\ DOMAIN wire = 1..Len(wire)
    BY <1>1, <1>2
  <1>4. LinesInv'
    BY <1>2, <1>3 DEF LinesInv
  <1>5. WireInv'
    <2>1. ASSUME up, NEW r \in Room PROVE Follows(wire', r, members[r], Truth(r)')
      <3>1. Follows(wire, r, members[r], Truth(r))
        BY <2>1 DEF WireInv
      <3>2. Follows(Append(wire, l), r, members[r], Lands(l, r, Truth(r)))
        BY <1>1, <3>1, FollowsLine
      <3> QED
        BY <2>1, <3>2
    <2> QED
      BY <2>1 DEF WireInv
  <1>6. MirrorInv'
    <2>1. ASSUME NEW r \in Room, NEW s, Mirrors(r, s) PROVE Mirrors(r, s)'
      <3>1. wire # <<>> => wire' # <<>> /\ wire'[1] = wire[1]
        BY <1>1, <1>2
      <3> QED
        BY <2>1, <3>1 DEF Mirrors
    <2>2. \A r \in Room : RoomKnown(r) => RoomKnown(r)'
      BY DEF RoomKnown
    <2> QED
      BY <2>1, <2>2 DEF MirrorInv
  <1> QED
    BY <1>2, <1>4, <1>5, <1>6

LEMMA ServerTells ==
  ASSUME ConciergeInv, concierge!Others,
         occupants' \in [Room -> SUBSET People],
         \A r \in Room : concierge!me \in occupants'[r] => concierge!me \in occupants[r],
         NEW l \in Lines, LineOk(l), l.cmd \notin {"353", "PRIVMSG"}, ~JoinsMe(l),
         \/ wire' = Append(wire, l) /\ \A r \in Room : Truth(r)' = Lands(l, r, Truth(r))
         \/ wire' = wire /\ (up => \A r \in Room : Truth(r)' = Truth(r))
  PROVE  ConciergeInv'
  <1>1. /\ TrackTypeOK /\ LinesInv /\ PlaceInv /\ WireInv /\ MirrorInv /\ IntentInv
        /\ UNCHANGED <<members, events, run, made, up, conn, joined, seen, status, calls, journal>>
    BY DEF concierge!Others, concierge!client, concierge!daemon, ConciergeInv
  <1>2. wire' \in Seq(Lines) /\ LinesInv' /\ WireInv' /\ MirrorInv'
    <2>1. CASE wire' = Append(wire, l) /\ \A r \in Room : Truth(r)' = Lands(l, r, Truth(r))
      BY <1>1, <2>1, WireGains
    <2>2. CASE wire' = wire /\ (up => \A r \in Room : Truth(r)' = Truth(r))
      BY <1>1, <2>2 DEF TrackTypeOK, LinesInv, WireInv, MirrorInv, RoomKnown, Mirrors
    <2> QED
      BY <2>1, <2>2
  <1>3. TrackTypeOK'
    BY <1>1, <1>2 DEF TrackTypeOK
  <1>4. PlaceInv'
    <2>1. run.rest \subseteq Room
      BY <1>1 DEF TrackTypeOK, Loops
    <2> QED
      BY <1>1, <2>1 DEF PlaceInv
  <1>5. IntentInv'
    <2>1. \A i \in DOMAIN wire' : wire'[i].cmd = "PRIVMSG" => Intended(wire'[i].text)
      <3>1. CASE wire' = Append(wire, l)
        <4>1. /\ wire \in Seq(Lines) /\ Len(wire) \in Nat
              /\ DOMAIN wire' = 1..(Len(wire) + 1) /\ DOMAIN wire = 1..Len(wire)
              /\ wire'[Len(wire) + 1] = l /\ \A i \in 1..Len(wire) : wire'[i] = wire[i]
          BY <1>1, <3>1 DEF TrackTypeOK
        <4> QED
          BY <1>1, <4>1 DEF IntentInv
      <3>2. CASE wire' = wire
        BY <1>1, <3>2 DEF IntentInv
      <3> QED
        BY <3>1, <3>2
    <2> QED
      BY <1>1, <2>1 DEF IntentInv, Intended, concierge!IntentBeforeEcho
  <1> QED
    BY <1>2, <1>3, <1>4, <1>5 DEF ConciergeInv

LEMMA LineIs ==
  ASSUME NEW c \in {"JOIN", "353", "PART", "KICK", "QUIT", "NICK", "PRIVMSG"}, NEW r \in Room,
         NEW s \in SUBSET People, NEW x \in Words
  PROVE  concierge!LineOf(c, r, s, x) \in Lines
  BY DEF concierge!LineOf, Lines

LEMMA LineHas ==
  ASSUME NEW c, NEW r, NEW s, NEW x, NEW l, l = concierge!LineOf(c, r, s, x)
  PROVE  l.cmd = c /\ l.room = r /\ l.who = s /\ l.text = x
  BY DEF concierge!LineOf

LEMMA TrackOtherJoins ==
  ASSUME ConciergeInv, NEW q \in Room, NEW n \in Two, concierge!OtherJoins(q, n)
  PROVE  ConciergeInv'
  <1> DEFINE l == concierge!LineOf("JOIN", q, {n}, NoText)
  <1>1. /\ concierge!Others /\ occupants' = [occupants EXCEPT ![q] = @ \cup {n}]
        /\ wire' = IF up /\ concierge!me \in occupants[q] THEN Append(wire, l) ELSE wire
    BY DEF concierge!OtherJoins, concierge!Tells, concierge!Shared, concierge!Line
  <1>2. occupants \in [Room -> SUBSET People] /\ n \in People /\ n # concierge!me
    BY Own DEF ConciergeInv, TrackTypeOK, People
  <1>3. l \in Lines
    BY <1>2, LineIs DEF Words
  <1>4. l.cmd = "JOIN" /\ l.room = q /\ l.who = {n}
    BY LineHas
  <1> HIDE DEF l
  <1>5. LineOk(l) /\ ~JoinsMe(l) /\ l.cmd \notin {"353", "PRIVMSG"}
    BY <1>2, <1>4 DEF LineOk, JoinsMe
  <1>6. occupants' \in [Room -> SUBSET People] /\ \A r \in Room : occupants'[r] = IF r = q THEN occupants[r] \cup {n} ELSE occupants[r]
    BY <1>1, <1>2
  <1>7. \A r \in Room : concierge!me \in occupants'[r] <=> concierge!me \in occupants[r]
    BY <1>2, <1>6
  <1>8. concierge!me \in occupants[q] => \A r \in Room : Truth(r)' = Lands(l, r, Truth(r))
    BY <1>4, <1>6, <1>7 DEF Truth, Lands
  <1>9. concierge!me \notin occupants[q] => \A r \in Room : Truth(r)' = Truth(r)
    BY <1>6, <1>7 DEF Truth
  <1> QED
    BY <1>1, <1>3, <1>5, <1>6, <1>7, <1>8, <1>9, ServerTells

LEMMA TrackLeaves ==
  ASSUME ConciergeInv, NEW q \in Room, NEW n \in People, NEW c \in {"PART", "KICK"}, concierge!Leaves(q, n, c)
  PROVE  ConciergeInv'
  <1> DEFINE l == concierge!LineOf(c, q, {n}, NoText)
  <1>1. /\ concierge!Others /\ occupants' = [occupants EXCEPT ![q] = @ \ {n}] /\ n \in occupants[q]
        /\ wire' = IF up /\ concierge!me \in occupants[q] THEN Append(wire, l) ELSE wire
    BY DEF concierge!Leaves, concierge!Tells, concierge!Shared, concierge!Line
  <1>2. occupants \in [Room -> SUBSET People]
    BY DEF ConciergeInv, TrackTypeOK
  <1>3. l \in Lines
    BY LineIs DEF Words
  <1>4. l.cmd = c /\ l.room = q /\ l.who = {n}
    BY LineHas
  <1> HIDE DEF l
  <1>5. LineOk(l) /\ ~JoinsMe(l) /\ l.cmd \notin {"353", "PRIVMSG"}
    BY <1>4 DEF LineOk, JoinsMe
  <1>6. occupants' \in [Room -> SUBSET People] /\ \A r \in Room : occupants'[r] = IF r = q THEN occupants[r] \ {n} ELSE occupants[r]
    BY <1>1, <1>2
  <1>7. \A r \in Room : concierge!me \in occupants'[r] => concierge!me \in occupants[r]
    BY <1>6
  <1>8. ASSUME concierge!me \in occupants[q], NEW r \in Room PROVE Truth(r)' = Lands(l, r, Truth(r))
    <2>1. CASE r # q
      BY <1>4, <1>6, <2>1 DEF Truth, Lands
    <2>2. CASE r = q /\ n = concierge!me
      <3>1. Lands(l, r, Truth(r)) = {}
        BY <1>4, <2>2 DEF Lands
      <3> QED
        BY <1>6, <2>2, <3>1 DEF Truth
    <2>3. CASE r = q /\ n # concierge!me
      <3>1. Lands(l, r, Truth(r)) = Truth(r) \ {n}
        <4>1. {n} # {concierge!me}
          BY <2>3
        <4> QED
          BY <1>4, <2>3, <4>1 DEF Lands
      <3> QED
        BY <1>6, <1>8, <2>3, <3>1 DEF Truth
    <2> QED
      BY <2>1, <2>2, <2>3
  <1>9. concierge!me \notin occupants[q] => \A r \in Room : Truth(r)' = Truth(r)
    BY <1>6 DEF Truth
  <1> QED
    BY <1>1, <1>3, <1>5, <1>6, <1>7, <1>8, <1>9, ServerTells

LEMMA TrackQuits ==
  ASSUME ConciergeInv, NEW n \in Two, concierge!Quits(n)
  PROVE  ConciergeInv'
  <1> DEFINE rooms == {r \in Room : n \in occupants[r]}
             q == CHOOSE r \in rooms : TRUE
             l == concierge!LineOf("QUIT", q, {n}, NoText)
  <1>1. /\ concierge!Others /\ occupants' = [r \in Room |-> occupants[r] \ {n}] /\ rooms # {}
        /\ wire' = IF up /\ (\E r \in rooms : concierge!me \in occupants[r]) THEN Append(wire, l) ELSE wire
    BY DEF concierge!Quits, concierge!Tells, concierge!Shared, concierge!Line
  <1>2. occupants \in [Room -> SUBSET People] /\ n \in People /\ n # concierge!me
    BY Own DEF ConciergeInv, TrackTypeOK, People
  <1>3. q \in Room
    BY <1>1
  <1>4. \A r \in Room : r \in rooms <=> n \in occupants[r]
    OBVIOUS
  <1> HIDE DEF rooms, q
  <1>5. l \in Lines
    BY <1>2, <1>3, LineIs DEF Words
  <1>6. l.cmd = "QUIT" /\ l.who = {n}
    BY LineHas
  <1> HIDE DEF l
  <1>7. LineOk(l) /\ ~JoinsMe(l) /\ l.cmd \notin {"353", "PRIVMSG"}
    BY <1>6 DEF LineOk, JoinsMe
  <1>8. occupants' \in [Room -> SUBSET People] /\ \A r \in Room : occupants'[r] = occupants[r] \ {n}
    BY <1>1, <1>2
  <1>9. \A r \in Room : concierge!me \in occupants'[r] <=> concierge!me \in occupants[r]
    BY <1>2, <1>8
  <1>10. \A r \in Room : Truth(r)' = Lands(l, r, Truth(r))
    <2>1. \A r \in Room : Lands(l, r, Truth(r)) = Truth(r) \ {n}
      BY <1>6 DEF Lands
    <2> QED
      BY <1>8, <1>9, <2>1 DEF Truth
  <1>11. ASSUME ~\E r \in rooms : concierge!me \in occupants[r] PROVE \A r \in Room : Truth(r)' = Truth(r)
    <2>1. \A r \in Room : concierge!me \in occupants[r] => n \notin occupants[r]
      BY <1>4, <1>11
    <2> QED
      BY <1>8, <1>9, <2>1 DEF Truth
  <1> QED
    BY <1>1, <1>5, <1>7, <1>8, <1>9, <1>10, <1>11, ServerTells

LEMMA TrackRenames ==
  ASSUME ConciergeInv, NEW n \in Two, NEW new \in Two, concierge!Renames(n, new)
  PROVE  ConciergeInv'
  <1> DEFINE rooms == {r \in Room : n \in occupants[r]}
             q == CHOOSE r \in rooms : TRUE
             l == concierge!LineOf("NICK", q, {n}, new)
  <1>1. /\ concierge!Others /\ rooms # {}
        /\ occupants' = [r \in Room |-> IF r \in rooms THEN (occupants[r] \ {n}) \cup {new} ELSE occupants[r]]
        /\ wire' = IF up /\ (\E r \in rooms : concierge!me \in occupants[r]) THEN Append(wire, l) ELSE wire
    BY DEF concierge!Renames, concierge!Tells, concierge!Shared
  <1>2. occupants \in [Room -> SUBSET People] /\ n \in People /\ n # concierge!me /\ new \in People /\ new # concierge!me
    BY Own DEF ConciergeInv, TrackTypeOK, People
  <1>3. q \in Room
    BY <1>1
  <1>4. \A r \in Room : r \in rooms <=> n \in occupants[r]
    OBVIOUS
  <1> HIDE DEF rooms, q
  <1>5. l \in Lines
    BY <1>2, <1>3, LineIs DEF Words
  <1>6. l.cmd = "NICK" /\ l.who = {n} /\ l.text = new
    BY LineHas
  <1> HIDE DEF l
  <1>7. LineOk(l) /\ ~JoinsMe(l) /\ l.cmd \notin {"353", "PRIVMSG"}
    BY <1>6 DEF LineOk, JoinsMe
  <1>8. /\ occupants' \in [Room -> SUBSET People]
        /\ \A r \in Room : occupants'[r] = IF n \in occupants[r] THEN (occupants[r] \ {n}) \cup {new} ELSE occupants[r]
    BY <1>1, <1>2, <1>4
  <1>9. \A r \in Room : concierge!me \in occupants'[r] <=> concierge!me \in occupants[r]
    BY <1>2, <1>8
  <1>10. \A r \in Room : Truth(r)' = Lands(l, r, Truth(r))
    <2>1. \A r \in Room : Lands(l, r, Truth(r)) = IF n \in Truth(r) THEN (Truth(r) \ {n}) \cup {new} ELSE Truth(r)
      BY <1>6 DEF Lands
    <2> QED
      BY <1>8, <1>9, <2>1 DEF Truth
  <1>11. ASSUME ~\E r \in rooms : concierge!me \in occupants[r] PROVE \A r \in Room : Truth(r)' = Truth(r)
    <2>1. \A r \in Room : concierge!me \in occupants[r] => n \notin occupants[r]
      BY <1>4, <1>11
    <2> QED
      BY <1>8, <1>9, <2>1 DEF Truth
  <1> QED
    BY <1>1, <1>5, <1>7, <1>8, <1>9, <1>10, <1>11, ServerTells

LEMMA TrackJoinRoom ==
  ASSUME ConciergeInv, NEW q \in Room, concierge!JoinRoom(q)
  PROVE  ConciergeInv'
  <1> DEFINE j == concierge!LineOf("JOIN", q, {concierge!me}, NoText)
             n == concierge!LineOf("353", q, occupants'[q], NoText)
             gone == IF run.rest = {q} THEN "events" ELSE "join"
  <1>1. /\ TrackTypeOK /\ LinesInv /\ PlaceInv /\ WireInv /\ MirrorInv /\ IntentInv
        /\ run.at = "join" /\ q \in run.rest
        /\ run' = [run EXCEPT !.rest = run.rest \ {q}, !.at = gone]
        /\ UNCHANGED <<members, events, up, made, conn, joined, seen, status, calls, journal>>
    BY DEF concierge!JoinRoom, concierge!client, concierge!daemon, ConciergeInv
  <1>2. \/ /\ up /\ occupants' = [occupants EXCEPT ![q] = @ \cup {concierge!me}]
           /\ wire' = wire \o <<j, n>>
        \/ ~up /\ occupants' = occupants /\ wire' = wire
    <2>1. concierge!Reaches(conn) <=> up
      BY <1>1 DEF concierge!Reaches, PlaceInv
    <2> QED
      BY <2>1 DEF concierge!JoinRoom, concierge!Line
  <1>3. gone \in {"events", "join"}
    OBVIOUS
  <1>4. run' \in Loops /\ run'.at = gone /\ run'.rest = run.rest \ {q} /\ run.rest \subseteq Room
    <2> HIDE DEF gone
    <2>1. run' = [at |-> gone, status |-> run.status, rest |-> run.rest \ {q}]
      BY <1>1 DEF TrackTypeOK, Loops
    <2> QED
      BY <1>1, <1>3, <2>1 DEF TrackTypeOK, Loops
  <1>5. /\ members = concierge!Nothing /\ events = <<>> /\ joined = {} /\ seen = concierge!Nothing
        /\ conn = made /\ concierge!me \notin occupants[q]
    BY <1>1 DEF PlaceInv
  <1>6. MirrorInv'
    <2>1. events' = <<>>
      BY <1>1, <1>5
    <2>3. ASSUME NEW r \in Room PROVE Leads(<<>>, r, {}, {})
      BY LeadsNone
    <2>4. \A r \in Room : members'[r] = {} /\ seen'[r] = {} /\ r \notin joined'
      BY <1>1, <1>5, NothingIs
    <2>5. \A r \in Room : RoomKnown(r)' /\ Mirrors(r, {})'
      BY <2>1, <2>4 DEF RoomKnown, Mirrors
    <2>6. \A r \in Room : Leads(events', r, seen'[r], {})
      BY <2>1, <2>3, <2>4
    <2> QED
      BY <2>5, <2>6 DEF MirrorInv
  <1>7. CASE ~up
    <2>1. UNCHANGED <<occupants, wire>>
      BY <1>2, <1>7
    <2> HIDE DEF gone
    <2>2. TrackTypeOK'
      BY <1>1, <1>4, <2>1 DEF TrackTypeOK
    <2>3. PlaceInv'
      BY <1>1, <1>3, <1>4, <1>5, <1>7, <2>1 DEF PlaceInv
    <2>4. LinesInv' /\ WireInv'
      BY <1>1, <2>1, TrackKept
    <2>5. IntentInv'
      BY <1>1, <2>1, IntentKept
    <2> QED
      BY <1>6, <2>2, <2>3, <2>4, <2>5 DEF ConciergeInv
  <1>8. CASE up
    <2>1. occupants' = [occupants EXCEPT ![q] = @ \cup {concierge!me}] /\ wire' = wire \o <<j, n>>
      BY <1>2, <1>8
    <2>2. /\ occupants \in [Room -> SUBSET People] /\ wire \in Seq(Lines)
          /\ members \in [Room -> SUBSET People]
      BY <1>1 DEF TrackTypeOK
    <2>3. /\ occupants' \in [Room -> SUBSET People]
          /\ \A r \in Room : occupants'[r] = IF r = q THEN occupants[r] \cup {concierge!me} ELSE occupants[r]
      BY <2>1, <2>2, Own
    <2>4. PICK names \in SUBSET People : names = occupants'[q] /\ concierge!me \in names
      BY <2>3, Own
    <2>5. j \in Lines /\ n \in Lines
      BY <2>3, LineIs, Own DEF Words
    <2>6. /\ j.cmd = "JOIN" /\ j.room = q /\ j.who = {concierge!me}
          /\ n.cmd = "353" /\ n.room = q /\ n.who = names
      BY <2>4, LineHas
    <2> HIDE DEF j, n, gone
    <2>7. /\ wire' \in Seq(Lines) /\ Len(wire) \in Nat /\ DOMAIN wire = 1..Len(wire) /\ DOMAIN wire' = 1..(Len(wire) + 2)
          /\ wire'[Len(wire) + 1] = j /\ wire'[Len(wire) + 2] = n /\ \A i \in 1..Len(wire) : wire'[i] = wire[i]
      BY <2>1, <2>2, <2>5
    <2>8. \A i \in DOMAIN wire' : i \in DOMAIN wire \/ i = Len(wire) + 1 \/ i = Len(wire) + 2
      BY <2>7
    <2>9. TrackTypeOK'
      BY <1>1, <1>4, <2>3, <2>7 DEF TrackTypeOK
    <2>10. LinesInv'
      <3>1. LineOk(j) /\ LineOk(n)
        BY <2>6, Own DEF LineOk
      <3> QED
        BY <1>1, <2>7, <2>8, <3>1 DEF LinesInv
    <2>11. PlaceInv'
      <3>1. \A r \in run'.rest : concierge!me \notin occupants'[r]
        <4>1. \A r \in run.rest : concierge!me \notin occupants[r]
          BY <1>1 DEF PlaceInv
        <4> QED
          BY <1>4, <2>3, <4>1
      <3> QED
        BY <1>1, <1>3, <1>4, <1>5, <1>8, <3>1 DEF PlaceInv
    <2>12. WireInv'
      <3>1. ASSUME NEW r \in Room PROVE Follows(wire', r, members[r], Truth(r)')
        <4>1. Follows(wire, r, members[r], Truth(r))
          BY <1>1, <1>8 DEF WireInv
        <4>2. r = q => Truth(r) = {}
          BY <1>5 DEF Truth
        <4>3. Truth(r)' = IF r = q THEN names ELSE Truth(r)
          BY <2>3, <2>4 DEF Truth
        <4>4. JoinsMe(j)
          BY <2>6 DEF JoinsMe
        <4>5. Follows(wire \o <<j, n>>, r, members[r], IF r = q THEN names ELSE Truth(r))
          BY <2>2, <2>4, <2>5, <2>6, <4>1, <4>2, <4>4, FollowsJoin
        <4> QED
          BY <2>1, <4>3, <4>5
      <3> QED
        BY <1>1, <3>1 DEF WireInv
    <2>13. IntentInv'
      <3>1. \A i \in DOMAIN wire' : wire'[i].cmd = "PRIVMSG" => Intended(wire'[i].text)
        BY <1>1, <2>6, <2>7, <2>8 DEF IntentInv
      <3> QED
        BY <1>1, <3>1 DEF IntentInv, Intended, concierge!IntentBeforeEcho
    <2> QED
      BY <1>6, <2>9, <2>10, <2>11, <2>12, <2>13 DEF ConciergeInv
  <1> QED
    BY <1>7, <1>8

LEMMA JournalGains ==
  ASSUME TrackTypeOK, IntentInv, NEW row, NEW x, row \in {"sent", "echo"}, x \in Words, row = "echo" => Intended(x),
         journal' = concierge!Journalled(row, x)
  PROVE  /\ journal' \in Seq(Rows) /\ concierge!IntentBeforeEcho'
         /\ \A t : Intended(t) => Intended(t)'
         /\ row = "sent" => Intended(x)'
  <1> DEFINE w == [row |-> row, text |-> x]
  <1>1. journal \in Seq(Rows) /\ w \in Rows /\ journal' = Append(journal, w)
    BY DEF TrackTypeOK, Rows, concierge!Journalled
  <1>2. w.row = row /\ w.text = x
    OBVIOUS
  <1>3. row = "sent" => w = [row |-> "sent", text |-> x]
    OBVIOUS
  <1> HIDE DEF w
  <1>4. /\ journal' \in Seq(Rows) /\ Len(journal) \in Nat
        /\ DOMAIN journal' = 1..(Len(journal) + 1) /\ DOMAIN journal = 1..Len(journal)
        /\ journal'[Len(journal) + 1] = w /\ \A i \in 1..Len(journal) : journal'[i] = journal[i]
    BY <1>1
  <1>5. \A t : Intended(t) => Intended(t)'
    BY <1>4 DEF Intended
  <1>6. row = "sent" => Intended(x)'
    <2>1. Len(journal) + 1 \in DOMAIN journal'
      BY <1>4
    <2> QED
      BY <1>3, <1>4, <2>1 DEF Intended
  <1>7. concierge!IntentBeforeEcho'
    <2>1. ASSUME NEW i \in DOMAIN journal', journal'[i].row = "echo"
          PROVE  \E k \in 1..(i - 1) : journal'[k] = [row |-> "sent", text |-> journal'[i].text]
      <3>1. CASE i \in 1..Len(journal)
        <4>1. journal'[i] = journal[i]
          BY <1>4, <3>1
        <4>2. PICK k \in 1..(i - 1) : journal[k] = [row |-> "sent", text |-> journal[i].text]
          BY <1>4, <2>1, <3>1, <4>1 DEF IntentInv, concierge!IntentBeforeEcho
        <4>3. journal'[k] = journal[k]
          BY <1>4, <3>1
        <4> QED
          BY <4>1, <4>2, <4>3
      <3>2. CASE i = Len(journal) + 1
        <4>1. journal'[i] = w /\ Intended(x) /\ i - 1 = Len(journal)
          BY <1>2, <1>4, <2>1, <3>2
        <4>2. PICK k \in DOMAIN journal : journal[k] = [row |-> "sent", text |-> x]
          BY <4>1 DEF Intended
        <4>3. k \in 1..(i - 1) /\ journal'[k] = journal[k]
          BY <1>4, <4>1
        <4> QED
          BY <1>2, <4>1, <4>2, <4>3
      <3> QED
        BY <1>4, <3>1, <3>2
    <2> QED
      BY <2>1 DEF concierge!IntentBeforeEcho
  <1> QED
    BY <1>4, <1>5, <1>6, <1>7

LEMMA TrackSayBegins ==
  ASSUME ConciergeInv, NEW r \in Room, NEW t \in Text, concierge!SayBegins(r, t)
  PROVE  ConciergeInv'
  <1> DEFINE k == concierge!Call("say", "record", r, t, conn)
  <1>1. /\ TrackTypeOK /\ LinesInv /\ PlaceInv /\ WireInv /\ MirrorInv /\ IntentInv
        /\ calls' = calls \cup {k}
        /\ UNCHANGED <<occupants, up, wire, members, events, run, made, conn, joined, seen, status, journal>>
    BY DEF concierge!SayBegins, concierge!RecordsFirst, concierge!client, concierge!server, ConciergeInv
  <1>2. k.at = "record" /\ k \in SayCalls
    BY <1>1 DEF concierge!Call, SayCalls, TrackTypeOK
  <1> HIDE DEF k
  <1>3. TrackTypeOK' /\ PlaceInv'
    BY <1>1, <1>2 DEF TrackTypeOK, PlaceInv
  <1> QED
    BY <1>1, <1>2, <1>3, TrackKept, IntentKept DEF ConciergeInv

LEMMA TrackSayRecords ==
  ASSUME ConciergeInv, NEW k \in calls, concierge!SayRecords(k)
  PROVE  ConciergeInv'
  <1> DEFINE sends == concierge!Call("say", "send", k.room, k.text, k.conn)
  <1>1. /\ TrackTypeOK /\ LinesInv /\ PlaceInv /\ WireInv /\ MirrorInv /\ IntentInv
        /\ k.kind = "say" /\ journal' = concierge!Journalled("sent", k.text)
        /\ calls' = (calls \ {k}) \cup {[k EXCEPT !.at = "send"]}
        /\ UNCHANGED <<occupants, up, wire, members, events, run, made, conn, joined, seen, status>>
    BY DEF concierge!SayRecords, concierge!RecordsFirst, concierge!client, concierge!server, ConciergeInv
  <1>2. k \in SayCalls
    BY <1>1 DEF TrackTypeOK, StatusCalls
  <1>3. [k EXCEPT !.at = "send"] = sends /\ sends \in SayCalls /\ sends.text = k.text /\ k.text \in Text
    BY <1>2 DEF SayCalls, concierge!Call
  <1> HIDE DEF sends
  <1>4. /\ journal' \in Seq(Rows) /\ concierge!IntentBeforeEcho'
        /\ \A t : Intended(t) => Intended(t)'
        /\ Intended(k.text)'
    BY <1>1, <1>3, JournalGains DEF Words
  <1>5. TrackTypeOK' /\ PlaceInv'
    BY <1>1, <1>3, <1>4 DEF TrackTypeOK, PlaceInv
  <1>6. IntentInv'
    BY <1>1, <1>3, <1>4 DEF IntentInv
  <1> QED
    BY <1>1, <1>5, <1>6, TrackKept DEF ConciergeInv

LEMMA TrackSaySends ==
  ASSUME ConciergeInv, NEW k \in calls, concierge!SaySends(k)
  PROVE  ConciergeInv'
  <1> DEFINE l == concierge!LineOf("PRIVMSG", k.room, {concierge!me}, k.text)
  <1>1. /\ TrackTypeOK /\ LinesInv /\ PlaceInv /\ WireInv /\ MirrorInv /\ IntentInv
        /\ k.kind = "say" /\ k.at = "send" /\ calls' \subseteq calls
        /\ wire' = Append(wire, l) \/ wire' = wire
        /\ UNCHANGED <<occupants, up, members, events, run, made, conn, joined, seen, status, journal>>
    BY DEF concierge!SaySends, concierge!RecordsFirst, concierge!client, concierge!server, ConciergeInv
  <1>2. k.room \in Room /\ k.text \in Text
    BY <1>1 DEF TrackTypeOK, StatusCalls, SayCalls
  <1>3. l \in Lines
    BY <1>2, LineIs, Own DEF Words
  <1>4. l.cmd = "PRIVMSG" /\ l.text = k.text
    BY LineHas
  <1> HIDE DEF l
  <1>5. LineOk(l) /\ ~JoinsMe(l)
    BY <1>4 DEF LineOk, JoinsMe
  <1>6. \A r \in Room : Truth(r)' = Truth(r) /\ Lands(l, r, Truth(r)) = Truth(r)
    BY <1>1, <1>4 DEF Truth, Lands
  <1>7. wire' \in Seq(Lines) /\ LinesInv' /\ WireInv' /\ MirrorInv'
    <2>1. CASE wire' = Append(wire, l)
      <3>1. l.cmd # "353"
        BY <1>4
      <3> QED
        BY <1>1, <1>3, <1>5, <1>6, <2>1, <3>1, WireGains
    <2>2. CASE wire' = wire
      BY <1>1, <2>2, TrackKept DEF TrackTypeOK
    <2> QED
      BY <1>1, <2>1, <2>2
  <1>8. TrackTypeOK' /\ PlaceInv'
    BY <1>1, <1>7 DEF TrackTypeOK, PlaceInv
  <1>9. Intended(k.text)
    BY <1>1 DEF IntentInv
  <1>10. IntentInv'
    <2>1. \A i \in DOMAIN wire' : wire'[i].cmd = "PRIVMSG" => Intended(wire'[i].text)
      <3>1. CASE wire' = Append(wire, l)
        <4>1. /\ wire \in Seq(Lines) /\ Len(wire) \in Nat
              /\ DOMAIN wire' = 1..(Len(wire) + 1) /\ DOMAIN wire = 1..Len(wire)
              /\ wire'[Len(wire) + 1] = l /\ \A i \in 1..Len(wire) : wire'[i] = wire[i]
          BY <1>1, <3>1 DEF TrackTypeOK
        <4> QED
          BY <1>1, <1>4, <1>9, <4>1 DEF IntentInv
      <3>2. CASE wire' = wire
        BY <1>1, <3>2 DEF IntentInv
      <3> QED
        BY <1>1, <3>1, <3>2
    <2> QED
      BY <1>1, <2>1 DEF IntentInv, Intended, concierge!IntentBeforeEcho
  <1> QED
    BY <1>7, <1>8, <1>10 DEF ConciergeInv

LEMMA TrackStatusBegins ==
  ASSUME ConciergeInv, NEW t \in Text, concierge!StatusBegins(t)
  PROVE  ConciergeInv'
  <1> DEFINE k == concierge!Call("status", "away", "", t, conn)
  <1>1. /\ TrackTypeOK /\ LinesInv /\ PlaceInv /\ WireInv /\ MirrorInv /\ IntentInv
        /\ status' = t /\ calls' \subseteq calls \cup {k}
        /\ UNCHANGED <<occupants, up, wire, members, events, run, made, conn, joined, seen, journal>>
    BY DEF concierge!StatusBegins, concierge!client, concierge!server, ConciergeInv
  <1>2. k.kind = "status" /\ k \in StatusCalls
    BY <1>1 DEF concierge!Call, StatusCalls, TrackTypeOK
  <1> HIDE DEF k
  <1>3. TrackTypeOK' /\ PlaceInv'
    BY <1>1, <1>2 DEF TrackTypeOK, PlaceInv
  <1> QED
    BY <1>1, <1>2, <1>3, TrackKept, IntentKept DEF ConciergeInv

LEMMA TrackStatusSets ==
  ASSUME ConciergeInv, NEW k \in calls, concierge!StatusSets(k)
  PROVE  ConciergeInv'
  <1>1. /\ TrackTypeOK /\ LinesInv /\ PlaceInv /\ WireInv /\ MirrorInv /\ IntentInv
        /\ calls' \subseteq calls
        /\ UNCHANGED <<occupants, up, wire, members, events, run, made, conn, joined, seen, status, journal>>
    BY DEF concierge!StatusSets, concierge!client, ConciergeInv
  <1>2. TrackTypeOK' /\ PlaceInv'
    BY <1>1 DEF TrackTypeOK, PlaceInv
  <1> QED
    BY <1>1, <1>2, TrackKept, IntentKept DEF ConciergeInv

(* The line the client reads, while the daemon has no event left.          *)
LEMMA LineRead ==
  ASSUME ConciergeInv, concierge!ClientReads
  PROVE  /\ events = <<>> /\ wire # <<>> /\ Head(wire) = wire[1] /\ wire[1] \in Lines /\ LineOk(wire[1])
         /\ wire' \in Seq(Lines) /\ LinesInv' /\ wire' = Tail(wire)
         /\ \A i \in DOMAIN wire' : i + 1 \in DOMAIN wire /\ wire'[i] = wire[i + 1]
         /\ run.at = "events"
         /\ UNCHANGED <<occupants, up, run, made, conn, joined, seen, status, calls, journal>>
         /\ up => \A r \in Room :
              /\ r \in joined <=> concierge!me \in members[r]
              /\ Mirrors(r, seen[r])
              /\ Fitting(wire, 1, r, members[r])
              /\ Follows(wire', r, Lands(wire[1], r, members[r]), Truth(r))
  <1>1. /\ TrackTypeOK /\ LinesInv /\ WireInv /\ MirrorInv
        /\ events = <<>> /\ wire # <<>> /\ run.at = "events" /\ wire' = Tail(wire)
        /\ UNCHANGED <<occupants, up, run, made, conn, joined, seen, status, calls, journal>>
    BY DEF concierge!ClientReads, concierge!daemon, concierge!server, ConciergeInv
  <1>2. wire \in Seq(Lines) /\ members \in [Room -> SUBSET People] /\ seen \in [Room -> SUBSET People]
    BY <1>1 DEF TrackTypeOK
  <1>3. /\ Len(wire) \in Nat \ {0} /\ DOMAIN wire = 1..Len(wire) /\ Head(wire) = wire[1] /\ wire[1] \in Lines
        /\ wire' \in Seq(Lines) /\ DOMAIN wire' = 1..(Len(wire) - 1) /\ \A i \in 1..(Len(wire) - 1) : wire'[i] = wire[i + 1]
    BY <1>1, <1>2
  <1>4. \A i \in DOMAIN wire' : i + 1 \in DOMAIN wire /\ wire'[i] = wire[i + 1]
    BY <1>3
  <1>5. LineOk(wire[1]) /\ LinesInv'
    BY <1>1, <1>3, <1>4 DEF LinesInv
  <1>6. ASSUME up, NEW r \in Room
        PROVE  /\ r \in joined <=> concierge!me \in members[r]
               /\ Mirrors(r, seen[r])
               /\ Fitting(wire, 1, r, members[r])
               /\ Follows(wire', r, Lands(wire[1], r, members[r]), Truth(r))
    <2>1. RoomKnown(r) /\ \E s \in SUBSET People : Leads(<<>>, r, seen[r], s) /\ Mirrors(r, s)
      BY <1>1, <1>6 DEF MirrorInv
    <2>2. r \in joined <=> concierge!me \in members[r]
      BY <1>1, <2>1 DEF RoomKnown
    <2>3. Mirrors(r, seen[r])
      BY <1>2, <2>1, LeadsNone
    <2>4. Follows(wire, r, members[r], Truth(r)) /\ members[r] \in SUBSET People
      BY <1>1, <1>2, <1>6 DEF WireInv
    <2> QED
      BY <1>1, <1>2, <2>2, <2>3, <2>4, FollowsTail
  <1> QED
    BY <1>1, <1>3, <1>4, <1>5, <1>6

(* What a handler of the client owes: the members after the line, and      *)
(* events that tell the daemon.                                            *)
Tidings(l) ==
  /\ members' \in [Room -> SUBSET People] /\ events' \in Seq(Signals)
  /\ \A r \in Room : members'[r] = Lands(l, r, members[r])
  /\ up => \A r \in Room : RoomKnown(r)' /\ \E s \in SUBSET People : Leads(events', r, seen[r], s) /\ Mirrors(r, s)'
  /\ \A i \in DOMAIN events' : events'[i].kind = "chat" => Intended(events'[i].text)

LEMMA LineTold ==
  ASSUME ConciergeInv, concierge!ClientReads, Tidings(wire[1])
  PROVE  ConciergeInv'
  <1>1. /\ TrackTypeOK /\ PlaceInv /\ IntentInv
        /\ wire' \in Seq(Lines) /\ LinesInv' /\ \A i \in DOMAIN wire' : i + 1 \in DOMAIN wire /\ wire'[i] = wire[i + 1]
        /\ run.at = "events"
        /\ UNCHANGED <<occupants, up, run, made, conn, joined, seen, status, calls, journal>>
    BY LineRead DEF ConciergeInv
  <1>2. up => \A r \in Room : Follows(wire', r, Lands(wire[1], r, members[r]), Truth(r))
    BY LineRead
  <1>3. TrackTypeOK'
    BY <1>1 DEF TrackTypeOK, Tidings
  <1>4. PlaceInv'
    BY <1>1 DEF PlaceInv
  <1>5. WireInv'
    <2>1. \A r \in Room : Truth(r)' = Truth(r)
      BY <1>1 DEF Truth
    <2> QED
      BY <1>1, <1>2, <2>1 DEF WireInv, Tidings
  <1>6. MirrorInv'
    BY <1>1 DEF MirrorInv, Tidings
  <1>7. IntentInv'
    <2>1. \A i \in DOMAIN events' : events'[i].kind = "chat" => Intended(events'[i].text)
      BY DEF Tidings
    <2> QED
      BY <1>1, <2>1 DEF IntentInv, Intended, concierge!IntentBeforeEcho
  <1> QED
    BY <1>1, <1>3, <1>4, <1>5, <1>6, <1>7 DEF ConciergeInv

LEMMA SignalIs ==
  ASSUME NEW e, NEW k \in {"present", "absent", "joined", "left", "chat"}, NEW r \in Room,
         NEW s \in SUBSET People, NEW x \in Words, e = concierge!Event(k, r, s, x)
  PROVE  e \in Signals /\ e.kind = k /\ e.room = r /\ e.who = s /\ e.text = x
  BY DEF concierge!Event, Signals

LEMMA OneSignal ==
  ASSUME NEW e \in Signals
  PROVE  <<e>> \in Seq(Signals) /\ Len(<<e>>) = 1 /\ DOMAIN <<e>> = {1} /\ <<e>>[1] = e
  OBVIOUS

LEMMA TwoSignals ==
  ASSUME NEW e \in Signals, NEW f \in Signals
  PROVE  <<e, f>> \in Seq(Signals) /\ Len(<<e, f>>) = 2 /\ DOMAIN <<e, f>> = 1..2 /\ <<e, f>>[1] = e /\ <<e, f>>[2] = f
  OBVIOUS

LEMMA MembersAre ==
  ASSUME TrackTypeOK, LineOk(wire[1]), wire[1] \in Lines
  PROVE  \A r \in Room : Lands(wire[1], r, members[r]) \in SUBSET People /\ members[r] \in SUBSET People /\ seen[r] \in SUBSET People
  BY LandsIn DEF TrackTypeOK

(* A line that is not one of names finds the daemon up to date.            *)
LEMMA UpToDate ==
  ASSUME ConciergeInv, concierge!ClientReads, up, wire[1].cmd # "353"
  PROVE  \A r \in Room : seen[r] = members[r]
  BY LineRead DEF Mirrors, NamesOf

LEMMA ReadsJoin ==
  ASSUME ConciergeInv, concierge!ClientReads, concierge!HandleJoin(wire[1])
  PROVE  Tidings(wire[1])
  <1> DEFINE l == wire[1]
  <1>1. TrackTypeOK /\ l \in Lines /\ LineOk(l) /\ wire # <<>> /\ UNCHANGED <<joined, seen>>
        /\ \A i \in DOMAIN wire' : i + 1 \in DOMAIN wire /\ wire'[i] = wire[i + 1]
    BY LineRead DEF ConciergeInv
  <1>2. /\ l.cmd = "JOIN" /\ members' = [members EXCEPT ![l.room] = @ \cup l.who]
        /\ events' = <<IF l.who = {concierge!me} THEN concierge!Event("joined", l.room, {}, NoText)
                       ELSE concierge!Event("present", l.room, l.who, NoText)>>
    BY DEF concierge!HandleJoin, concierge!Kept, concierge!Present
  <1>3. PICK n \in People : l.who = {n}
    BY <1>1, <1>2 DEF LineOk
  <1>4. l.room \in Room /\ l.who \in SUBSET People
    BY <1>1 DEF Lines
  <1>5. members \in [Room -> SUBSET People]
    BY <1>1 DEF TrackTypeOK
  <1>6. /\ members' \in [Room -> SUBSET People]
        /\ \A r \in Room : members'[r] = Lands(l, r, members[r])
        /\ \A r \in Room : members'[r] = IF r = l.room THEN members[r] \cup {n} ELSE members[r]
    BY <1>2, <1>3, <1>4, <1>5 DEF Lands
  <1>7. CASE n = concierge!me
    <2>1. PICK e : e = concierge!Event("joined", l.room, {}, NoText)
      OBVIOUS
    <2>2. e \in Signals /\ e.kind = "joined" /\ e.room = l.room /\ e.who = {}
      BY <1>4, <2>1, SignalIs DEF Words
    <2>3. events' = <<e>>
      BY <1>2, <1>3, <1>7, <2>1
    <2>4. /\ events' \in Seq(Signals) /\ Len(events') = 1 /\ DOMAIN events' = {1} /\ events'[1] = e
      BY <2>2, <2>3, OneSignal
    <2>5. ASSUME up, NEW r \in Room
          PROVE  RoomKnown(r)' /\ \E s \in SUBSET People : Leads(events', r, seen[r], s) /\ Mirrors(r, s)'
      <3>1. /\ r \in joined <=> concierge!me \in members[r]
            /\ Fitting(wire, 1, r, members[r]) /\ seen[r] = members[r] /\ seen[r] \in SUBSET People
        BY <1>1, <1>2, <2>5, LineRead, UpToDate, MembersAre
      <3>2. Heeds(e, r, seen[r]) = seen[r]
        BY <2>2 DEF Heeds
      <3>3. Leads(events', r, seen[r], seen[r])
        BY <2>3, <3>1, <3>2, LeadsOne
      <3>4. RoomKnown(r)'
        <4>1. CASE r = l.room
          <5>1. concierge!me \in members'[r]
            BY <1>6, <1>7, <4>1
          <5> QED
            BY <2>2, <2>4, <4>1, <5>1 DEF RoomKnown, Turning
        <4>2. CASE r # l.room
          <5>1. members'[r] = members[r] /\ ~Turning(e, r)
            BY <1>6, <2>2, <4>2 DEF Turning
          <5> QED
            BY <1>1, <2>4, <3>1, <5>1 DEF RoomKnown
        <4> QED
          BY <4>1, <4>2
      <3>5. Mirrors(r, seen[r])'
        <4>1. CASE r = l.room
          <5>1. members[r] = {} /\ 2 \in DOMAIN wire /\ NamesOf(wire[2], r)
            <6>1. JoinsMe(l) /\ l.room = r
              BY <1>2, <1>3, <1>7, <4>1 DEF JoinsMe
            <6>2. 1 + 1 = 2
              OBVIOUS
            <6> HIDE DEF l
            <6> QED
              BY <3>1, <6>1, <6>2 DEF Fitting, l
          <5>2. wire' # <<>> /\ wire'[1] = wire[2]
            <6>1. wire \in Seq(Lines) /\ wire' = Tail(wire)
              BY LineRead, <1>1 DEF TrackTypeOK
            <6>2. Len(wire) \in Nat /\ 2 <= Len(wire)
              <7>1. DOMAIN wire = 1..Len(wire) /\ Len(wire) \in Nat
                BY <6>1
              <7>2. 2 \in DOMAIN wire
                BY <5>1
              <7> QED
                BY <7>1, <7>2
            <6>3. Len(wire') = Len(wire) - 1 /\ wire' \in Seq(Lines) /\ 1 \in DOMAIN wire'
              BY <6>1, <6>2
            <6>4. wire' # <<>>
              BY <6>3
            <6>5. wire'[1] = wire[1 + 1] /\ 1 + 1 = 2
              BY <1>1, <6>3
            <6> HIDE DEF l
            <6> QED
              BY <6>4, <6>5
          <5>3. members'[r] = {concierge!me} /\ seen[r] = {}
            BY <1>6, <1>7, <3>1, <4>1, <5>1
          <5> QED
            BY <1>1, <5>1, <5>2, <5>3 DEF Mirrors
        <4>2. CASE r # l.room
          BY <1>1, <1>6, <3>1, <4>2 DEF Mirrors
        <4> QED
          BY <4>1, <4>2
      <3> QED
        BY <1>1, <3>1, <3>3, <3>4, <3>5
    <2> QED
      BY <1>6, <2>2, <2>4, <2>5 DEF Tidings
  <1>8. CASE n # concierge!me
    <2>1. PICK e : e = concierge!Event("present", l.room, {n}, NoText)
      OBVIOUS
    <2>2. e \in Signals /\ e.kind = "present" /\ e.room = l.room /\ e.who = {n}
      BY <1>4, <2>1, SignalIs DEF Words
    <2>3. events' = <<e>>
      <3>1. {n} # {concierge!me}
        BY <1>8
      <3> QED
        BY <1>2, <1>3, <2>1, <3>1
    <2>4. /\ events' \in Seq(Signals) /\ Len(events') = 1 /\ DOMAIN events' = {1} /\ events'[1] = e
      BY <2>2, <2>3, OneSignal
    <2>5. ASSUME up, NEW r \in Room
          PROVE  RoomKnown(r)' /\ \E s \in SUBSET People : Leads(events', r, seen[r], s) /\ Mirrors(r, s)'
      <3>1. /\ r \in joined <=> concierge!me \in members[r]
            /\ seen[r] = members[r] /\ seen[r] \in SUBSET People
        BY <1>1, <1>2, <2>5, LineRead, UpToDate, MembersAre
      <3>2. Heeds(e, r, seen[r]) = members'[r] /\ members'[r] \in SUBSET People
        BY <1>6, <2>2, <3>1 DEF Heeds
      <3>3. Leads(events', r, seen[r], members'[r])
        BY <2>3, <3>1, <3>2, LeadsOne
      <3>4. RoomKnown(r)'
        <4>1. concierge!me \in members'[r] <=> concierge!me \in members[r]
          BY <1>6, <1>8
        <4> QED
          BY <1>1, <2>2, <2>4, <3>1, <4>1 DEF RoomKnown, Turning
      <3>5. Mirrors(r, members[r])'
        BY DEF Mirrors
      <3> QED
        BY <3>2, <3>3, <3>4, <3>5
    <2> QED
      BY <1>6, <2>2, <2>4, <2>5 DEF Tidings
  <1> QED
    BY <1>7, <1>8

LEMMA ReadsNames ==
  ASSUME ConciergeInv, concierge!ClientReads, concierge!HandleNames(wire[1])
  PROVE  Tidings(wire[1])
  <1> DEFINE l == wire[1]
  <1>1. TrackTypeOK /\ l \in Lines /\ LineOk(l) /\ UNCHANGED <<joined, seen>>
    BY LineRead DEF ConciergeInv
  <1>2. /\ l.cmd = "353" /\ members' = [members EXCEPT ![l.room] = @ \cup l.who]
        /\ events' = <<concierge!Event("present", l.room, l.who, NoText)>>
    BY DEF concierge!HandleNames, concierge!Present
  <1>3. l.room \in Room /\ l.who \in SUBSET People
    BY <1>1 DEF Lines
  <1>4. members \in [Room -> SUBSET People]
    BY <1>1 DEF TrackTypeOK
  <1>5. /\ members' \in [Room -> SUBSET People]
        /\ \A r \in Room : members'[r] = Lands(l, r, members[r])
        /\ \A r \in Room : members'[r] = IF r = l.room THEN members[r] \cup l.who ELSE members[r]
    BY <1>2, <1>3, <1>4 DEF Lands
  <1>6. PICK e : e = concierge!Event("present", l.room, l.who, NoText)
    OBVIOUS
  <1>7. e \in Signals /\ e.kind = "present" /\ e.room = l.room /\ e.who = l.who
    BY <1>3, <1>6, SignalIs DEF Words
  <1>8. events' = <<e>>
    BY <1>2, <1>6
  <1>9. /\ events' \in Seq(Signals) /\ Len(events') = 1 /\ DOMAIN events' = {1} /\ events'[1] = e
    BY <1>7, <1>8, OneSignal
  <1>10. ASSUME up, NEW r \in Room
         PROVE  RoomKnown(r)' /\ \E s \in SUBSET People : Leads(events', r, seen[r], s) /\ Mirrors(r, s)'
    <2>1. /\ r \in joined <=> concierge!me \in members[r]
          /\ Fitting(wire, 1, r, members[r]) /\ Mirrors(r, seen[r]) /\ seen[r] \in SUBSET People
      BY <1>1, <1>10, LineRead, MembersAre
    <2>2. Heeds(e, r, seen[r]) = members'[r] /\ members'[r] \in SUBSET People
      <3>1. CASE r # l.room
        <4>1. seen[r] = members[r]
          BY <2>1, <3>1 DEF Mirrors, NamesOf
        <4> QED
          BY <1>5, <1>7, <3>1, <4>1 DEF Heeds
      <3>2. CASE r = l.room
        <4>1. Heeds(e, r, seen[r]) = seen[r] \cup l.who
          BY <1>7, <3>2 DEF Heeds
        <4>2. seen[r] = members[r] \/ (members[r] = {concierge!me} /\ seen[r] = {} /\ concierge!me \in l.who)
          BY <2>1 DEF Mirrors, NamesOf
        <4> QED
          BY <1>5, <3>2, <4>1, <4>2
      <3> QED
        BY <3>1, <3>2
    <2>3. Leads(events', r, seen[r], members'[r])
      BY <1>8, <2>1, <2>2, LeadsOne
    <2>4. RoomKnown(r)'
      <3>1. concierge!me \in members'[r] <=> concierge!me \in members[r]
        BY <1>2, <1>5, <2>1 DEF Fitting
      <3> QED
        BY <1>1, <1>7, <1>9, <2>1, <3>1 DEF RoomKnown, Turning
    <2>5. Mirrors(r, members[r])'
      BY DEF Mirrors
    <2> QED
      BY <2>2, <2>3, <2>4, <2>5
  <1> QED
    BY <1>5, <1>7, <1>9, <1>10 DEF Tidings

LEMMA ReadsLeave ==
  ASSUME ConciergeInv, concierge!ClientReads, concierge!HandleLeave(wire[1])
  PROVE  Tidings(wire[1])
  <1> DEFINE l == wire[1]
  <1>1. TrackTypeOK /\ l \in Lines /\ LineOk(l) /\ UNCHANGED <<joined, seen>>
    BY LineRead DEF ConciergeInv
  <1>2. l.cmd \in {"PART", "KICK"}
    BY DEF concierge!HandleLeave
  <1>3. PICK n \in People : l.who = {n}
    BY <1>1, <1>2 DEF LineOk
  <1>4. l.room \in Room /\ l.who \in SUBSET People
    BY <1>1 DEF Lines
  <1>5. members \in [Room -> SUBSET People]
    BY <1>1 DEF TrackTypeOK
  <1>6. PICK e : e = concierge!Event("absent", l.room, {n}, NoText)
    OBVIOUS
  <1>7. e \in Signals /\ e.kind = "absent" /\ e.room = l.room /\ e.who = {n}
    BY <1>4, <1>6, SignalIs DEF Words
  <1>8. CASE n = concierge!me
    <2>1. PICK f : f = concierge!Event("left", l.room, {}, NoText)
      OBVIOUS
    <2>2. f \in Signals /\ f.kind = "left" /\ f.room = l.room
      BY <1>4, <2>1, SignalIs DEF Words
    <2>3. members' = [members EXCEPT ![l.room] = {}] /\ events' = <<e, f>>
      BY <1>3, <1>6, <1>8, <2>1 DEF concierge!HandleLeave, concierge!Absent
    <2>4. /\ members' \in [Room -> SUBSET People]
          /\ \A r \in Room : members'[r] = IF r = l.room THEN {} ELSE members[r]
      BY <1>4, <1>5, <2>3
    <2>5. \A r \in Room : members'[r] = Lands(l, r, members[r])
      BY <1>2, <1>3, <1>8, <2>4 DEF Lands
    <2>6. events' \in Seq(Signals) /\ Len(events') = 2 /\ DOMAIN events' = 1..2 /\ events'[1] = e /\ events'[2] = f
      BY <1>7, <2>2, <2>3, TwoSignals
    <2>7. ASSUME NEW i \in DOMAIN events' PROVE i = 1 \/ i = 2
      BY <2>6
    <2>8. ASSUME up, NEW r \in Room
          PROVE  RoomKnown(r)' /\ \E s \in SUBSET People : Leads(events', r, seen[r], s) /\ Mirrors(r, s)'
      <3>1. /\ r \in joined <=> concierge!me \in members[r]
            /\ seen[r] = members[r] /\ seen[r] \in SUBSET People
        BY <1>1, <1>2, <2>8, LineRead, UpToDate, MembersAre
      <3>2. PICK m \in SUBSET People : m = Heeds(e, r, seen[r])
        BY <1>7, <3>1 DEF Heeds
      <3>3. Heeds(f, r, m) = members'[r] /\ members'[r] \in SUBSET People
        BY <1>7, <2>2, <2>4, <3>1, <3>2 DEF Heeds
      <3>4. Leads(events', r, seen[r], members'[r])
        BY <2>3, <3>1, <3>2, <3>3, LeadsTwo
      <3>5. RoomKnown(r)'
        <4>1. ~Turning(e, r) /\ (Turning(f, r) <=> r = l.room)
          BY <1>7, <2>2 DEF Turning
        <4>2. CASE r = l.room
          <5>1. concierge!me \notin members'[r]
            BY <2>4, <4>2
          <5> QED
            BY <2>2, <2>6, <2>7, <4>1, <4>2, <5>1 DEF RoomKnown
        <4>3. CASE r # l.room
          <5>1. members'[r] = members[r]
            BY <2>4, <4>3
          <5> QED
            BY <1>1, <2>6, <2>7, <3>1, <4>1, <4>3, <5>1 DEF RoomKnown
        <4> QED
          BY <4>2, <4>3
      <3>6. Mirrors(r, members[r])'
        BY DEF Mirrors
      <3> QED
        BY <3>3, <3>4, <3>5, <3>6
    <2> QED
      BY <1>7, <2>2, <2>4, <2>5, <2>6, <2>7, <2>8 DEF Tidings
  <1>9. CASE n # concierge!me
    <2>1. {n} # {concierge!me}
      BY <1>9
    <2>2. members' = [members EXCEPT ![l.room] = @ \ {n}] /\ events' = <<e>>
      BY <1>3, <1>6, <2>1 DEF concierge!HandleLeave, concierge!Absent
    <2>3. /\ members' \in [Room -> SUBSET People]
          /\ \A r \in Room : members'[r] = IF r = l.room THEN members[r] \ {n} ELSE members[r]
      BY <1>4, <1>5, <2>2
    <2>4. \A r \in Room : members'[r] = Lands(l, r, members[r])
      BY <1>2, <1>3, <2>1, <2>3 DEF Lands
    <2>5. events' \in Seq(Signals) /\ Len(events') = 1 /\ DOMAIN events' = {1} /\ events'[1] = e
      BY <1>7, <2>2, OneSignal
    <2>6. ASSUME up, NEW r \in Room
          PROVE  RoomKnown(r)' /\ \E s \in SUBSET People : Leads(events', r, seen[r], s) /\ Mirrors(r, s)'
      <3>1. /\ r \in joined <=> concierge!me \in members[r]
            /\ seen[r] = members[r] /\ seen[r] \in SUBSET People
        BY <1>1, <1>2, <2>6, LineRead, UpToDate, MembersAre
      <3>2. Heeds(e, r, seen[r]) = members'[r] /\ members'[r] \in SUBSET People
        BY <1>7, <2>3, <3>1 DEF Heeds
      <3>3. Leads(events', r, seen[r], members'[r])
        BY <2>2, <3>1, <3>2, LeadsOne
      <3>4. RoomKnown(r)'
        <4>1. concierge!me \in members'[r] <=> concierge!me \in members[r]
          BY <1>9, <2>3
        <4> QED
          BY <1>1, <1>7, <2>5, <3>1, <4>1 DEF RoomKnown, Turning
      <3>5. Mirrors(r, members[r])'
        BY DEF Mirrors
      <3> QED
        BY <3>2, <3>3, <3>4, <3>5
    <2> QED
      BY <1>7, <2>3, <2>4, <2>5, <2>6 DEF Tidings
  <1> QED
    BY <1>8, <1>9

(* The events of a line about a person, whatever the order of the rooms.   *)
LEMMA PersonMoves ==
  ASSUME ConciergeInv, concierge!ClientReads, wire[1].cmd \in {"QUIT", "NICK"},
         events' \in Seq(Signals), \A i \in DOMAIN events' : events'[i].kind \in {"absent", "present"},
         members' \in [Room -> SUBSET People],
         \A r \in Room : members'[r] = Lands(wire[1], r, members[r]),
         \A r \in Room : concierge!me \in members'[r] <=> concierge!me \in members[r],
         \A r \in Room : Leads(events', r, members[r], members'[r])
  PROVE  Tidings(wire[1])
  <1>1. UNCHANGED <<joined, seen>>
    BY LineRead
  <1>2. ASSUME up, NEW r \in Room
        PROVE  RoomKnown(r)' /\ \E s \in SUBSET People : Leads(events', r, seen[r], s) /\ Mirrors(r, s)'
    <2>1. (r \in joined <=> concierge!me \in members[r]) /\ seen[r] = members[r]
      BY <1>2, LineRead, UpToDate
    <2>2. Leads(events', r, seen[r], members'[r]) /\ members'[r] \in SUBSET People
      BY <2>1
    <2>3. RoomKnown(r)'
      BY <1>1, <2>1 DEF RoomKnown, Turning
    <2>4. Mirrors(r, members[r])'
      BY DEF Mirrors
    <2> QED
      BY <2>2, <2>3, <2>4
  <1> QED
    BY <1>2 DEF Tidings

LEMMA ReadsQuit ==
  ASSUME ConciergeInv, concierge!ClientReads, concierge!HandleQuit(wire[1])
  PROVE  Tidings(wire[1])
  <1> DEFINE l == wire[1]
  <1>1. TrackTypeOK /\ l \in Lines /\ LineOk(l)
    BY LineRead DEF ConciergeInv
  <1>2. l.cmd = "QUIT" /\ members' = [r \in Room |-> members[r] \ l.who]
    BY DEF concierge!HandleQuit
  <1>3. PICK n \in Two : l.who = {n}
    BY <1>1, <1>2 DEF LineOk
  <1>4. PICK in \in concierge!ChannelsOf(n) : events' = [i \in DOMAIN in |-> concierge!Absent(in[i], {n})]
    BY <1>3 DEF concierge!HandleQuit
  <1>5. members \in [Room -> SUBSET People] /\ n \in People /\ n # concierge!me
    BY <1>1, Own DEF TrackTypeOK, People
  <1>6. /\ members' \in [Room -> SUBSET People]
        /\ \A r \in Room : members'[r] = members[r] \ {n}
    BY <1>2, <1>3, <1>5
  <1>7. \A r \in Room : members'[r] = Lands(l, r, members[r])
    BY <1>2, <1>3, <1>6 DEF Lands
  <1>8. OrderOf(in, Channels(n)) /\ Channels(n) \in SUBSET Room
    BY <1>4, ChannelsInOrder DEF Channels
  <1>9. /\ events' \in Seq(Signals)
        /\ \A i \in DOMAIN events' : events'[i].kind = "absent"
        /\ \A r \in Room, s \in SUBSET People : (r \notin Channels(n) => n \notin s) => Leads(events', r, s, s \ {n})
    <2>1. PICK C \in SUBSET Room : C = Channels(n)
      BY <1>8
    <2>2. PICK ev : ev = events'
      OBVIOUS
    <2>3. OrderOf(in, C)
      BY <1>8, <2>1
    <2> DEFINE S == {ev[i] : i \in 1..Len(in)}
    <2>4. ev \in [1..Len(in) -> S] /\ \A i \in 1..Len(in) : ev[i] = concierge!Absent(in[i], {n})
      <3>1. DOMAIN in = 1..Len(in)
        BY <2>3 DEF OrderOf
      <3> QED
        BY <1>4, <2>2, <3>1
    <2> HIDE DEF S
    <2>5. /\ ev \in Seq(Signals)
          /\ \A i \in DOMAIN ev : ev[i].kind = "absent"
          /\ \A r \in Room, s \in SUBSET People : (r \notin C => n \notin s) => Leads(ev, r, s, s \ {n})
      BY <2>3, <2>4, QuitLeads
    <2> QED
      BY <2>1, <2>2, <2>5
  <1>10. ASSUME NEW r \in Room PROVE Leads(events', r, members[r], members'[r])
    <2>1. (r \notin Channels(n) => n \notin members[r]) /\ members[r] \in SUBSET People
      BY <1>5 DEF Channels
    <2>2. Leads(events', r, members[r], members[r] \ {n})
      BY <1>9, <2>1
    <2> QED
      BY <1>6, <2>2
  <1>11. \A r \in Room : concierge!me \in members'[r] <=> concierge!me \in members[r]
    BY <1>5, <1>6
  <1> QED
    BY <1>2, <1>6, <1>7, <1>9, <1>10, <1>11, PersonMoves

LEMMA ReadsNick ==
  ASSUME ConciergeInv, concierge!ClientReads, concierge!HandleNick(wire[1])
  PROVE  Tidings(wire[1])
  <1> DEFINE l == wire[1]
  <1>1. TrackTypeOK /\ l \in Lines /\ LineOk(l)
    BY LineRead DEF ConciergeInv
  <1>2. l.cmd = "NICK"
    BY DEF concierge!HandleNick
  <1>3. PICK n \in Two : l.who = {n}
    BY <1>1, <1>2 DEF LineOk
  <1>4. PICK new \in Two : l.text = new
    BY <1>1, <1>2 DEF LineOk
  <1>5. PICK in \in concierge!ChannelsOf(n) :
          events' = [i \in 1..(2 * Len(in)) |->
            IF i % 2 = 1 THEN concierge!Absent(in[(i + 1) \div 2], {n}) ELSE concierge!Present(in[i \div 2], {new})]
    BY <1>3, <1>4 DEF concierge!HandleNick
  <1>6. members' = [r \in Room |-> IF n \in members[r] THEN (members[r] \ {n}) \cup {new} ELSE members[r]]
    BY <1>3, <1>4 DEF concierge!HandleNick
  <1>7. /\ members \in [Room -> SUBSET People] /\ n \in People /\ n # concierge!me
        /\ new \in People /\ new # concierge!me
    BY <1>1, Own DEF TrackTypeOK, People
  <1>8. /\ members' \in [Room -> SUBSET People]
        /\ \A r \in Room : members'[r] = IF n \in members[r] THEN (members[r] \ {n}) \cup {new} ELSE members[r]
    BY <1>6, <1>7
  <1>9. \A r \in Room : members'[r] = Lands(l, r, members[r])
    BY <1>2, <1>3, <1>4, <1>8 DEF Lands
  <1>10. OrderOf(in, Channels(n)) /\ Channels(n) \in SUBSET Room
    BY <1>5, ChannelsInOrder DEF Channels
  <1>11. /\ events' \in Seq(Signals)
         /\ \A i \in DOMAIN events' : events'[i].kind \in {"absent", "present"}
         /\ \A r \in Room, s \in SUBSET People :
              Leads(events', r, s, IF r \in Channels(n) THEN (s \ {n}) \cup {new} ELSE s)
    <2>1. PICK C \in SUBSET Room : C = Channels(n)
      BY <1>10
    <2>2. PICK ev : ev = events'
      OBVIOUS
    <2>3. OrderOf(in, C)
      BY <1>10, <2>1
    <2> DEFINE S == {ev[i] : i \in 1..(2 * Len(in))}
    <2>4. ev \in [1..(2 * Len(in)) -> S] /\ Renaming(ev, in, n, new)
      BY <1>5, <2>2 DEF Renaming
    <2> HIDE DEF S
    <2>5. /\ ev \in Seq(Signals)
          /\ \A i \in DOMAIN ev : ev[i].kind \in {"absent", "present"}
          /\ \A r \in Room, s \in SUBSET People :
               Leads(ev, r, s, IF r \in C THEN (s \ {n}) \cup {new} ELSE s)
      BY <2>3, <2>4, NickLeads
    <2> QED
      BY <2>1, <2>2, <2>5
  <1>12. ASSUME NEW r \in Room PROVE Leads(events', r, members[r], members'[r])
    <2>1. members'[r] = IF r \in Channels(n) THEN (members[r] \ {n}) \cup {new} ELSE members[r]
      BY <1>8 DEF Channels
    <2>2. members[r] \in SUBSET People
      BY <1>7
    <2> QED
      BY <1>11, <2>1, <2>2
  <1>13. \A r \in Room : concierge!me \in members'[r] <=> concierge!me \in members[r]
    BY <1>7, <1>8
  <1> QED
    BY <1>2, <1>8, <1>9, <1>11, <1>12, <1>13, PersonMoves

LEMMA ReadsPrivmsg ==
  ASSUME ConciergeInv, concierge!ClientReads, concierge!HandlePrivmsg(wire[1])
  PROVE  Tidings(wire[1])
  <1> DEFINE l == wire[1]
  <1>1. TrackTypeOK /\ IntentInv /\ l \in Lines /\ LineOk(l) /\ UNCHANGED <<joined, seen>>
    BY LineRead DEF ConciergeInv
  <1>2. l.cmd = "PRIVMSG" /\ members' = members /\ events' = <<concierge!Event("chat", l.room, l.who, l.text)>>
    BY DEF concierge!HandlePrivmsg
  <1>3. l.room \in Room /\ l.who \in SUBSET People /\ l.text \in Words
    BY <1>1 DEF Lines
  <1>4. PICK e : e = concierge!Event("chat", l.room, l.who, l.text)
    OBVIOUS
  <1>5. e \in Signals /\ e.kind = "chat" /\ e.text = l.text
    BY <1>3, <1>4, SignalIs
  <1>6. events' = <<e>>
    BY <1>2, <1>4
  <1>7. events' \in Seq(Signals) /\ DOMAIN events' = {1} /\ events'[1] = e
    BY <1>5, <1>6, OneSignal
  <1>8. members' \in [Room -> SUBSET People] /\ \A r \in Room : members'[r] = members[r] /\ members'[r] = Lands(l, r, members[r])
    BY <1>1, <1>2 DEF TrackTypeOK, Lands
  <1>9. ASSUME up, NEW r \in Room
        PROVE  RoomKnown(r)' /\ \E s \in SUBSET People : Leads(events', r, seen[r], s) /\ Mirrors(r, s)'
    <2>1. /\ r \in joined <=> concierge!me \in members[r]
          /\ seen[r] = members[r] /\ seen[r] \in SUBSET People
      BY <1>1, <1>2, <1>9, LineRead, UpToDate, MembersAre
    <2>2. Heeds(e, r, seen[r]) = members'[r] /\ members'[r] \in SUBSET People
      BY <1>5, <1>8, <2>1 DEF Heeds
    <2>3. Leads(events', r, seen[r], members'[r])
      BY <1>6, <2>1, <2>2, LeadsOne
    <2>4. RoomKnown(r)'
      BY <1>1, <1>5, <1>7, <1>8, <2>1 DEF RoomKnown, Turning
    <2>5. Mirrors(r, members[r])'
      BY DEF Mirrors
    <2> QED
      BY <2>2, <2>3, <2>4, <2>5
  <1>10. Intended(l.text)
    <2>1. 1 \in DOMAIN wire
      BY <1>1, LineRead DEF TrackTypeOK
    <2> QED
      BY <1>1, <1>2, <2>1 DEF IntentInv
  <1> QED
    BY <1>5, <1>7, <1>8, <1>9, <1>10 DEF Tidings

LEMMA TrackClientReads == ASSUME ConciergeInv, concierge!ClientReads PROVE ConciergeInv'
  <1>1. Head(wire) = wire[1]
    BY LineRead
  <1>2. \/ concierge!HandleJoin(wire[1]) \/ concierge!HandleNames(wire[1]) \/ concierge!HandleLeave(wire[1])
        \/ concierge!HandleQuit(wire[1]) \/ concierge!HandleNick(wire[1]) \/ concierge!HandlePrivmsg(wire[1])
    BY <1>1 DEF concierge!ClientReads
  <1>3. Tidings(wire[1])
    BY <1>2, ReadsJoin, ReadsNames, ReadsLeave, ReadsQuit, ReadsNick, ReadsPrivmsg
  <1> QED
    BY <1>3, LineTold

LEMMA TrackHandle == ASSUME ConciergeInv, concierge!Handle PROVE ConciergeInv'
  <1> DEFINE e == events[1]
  <1>1. /\ TrackTypeOK /\ LinesInv /\ PlaceInv /\ WireInv /\ MirrorInv /\ IntentInv
        /\ run.at = "events" /\ events # <<>> /\ events' = Tail(events)
        /\ UNCHANGED <<occupants, up, wire, members, run, made, conn, status, calls>>
    BY DEF concierge!Handle, concierge!server, ConciergeInv
  <1>2. events \in Seq(Signals)
    BY <1>1 DEF TrackTypeOK
  <1>3. /\ Head(events) = e /\ e \in Signals /\ Len(events) \in Nat \ {0} /\ DOMAIN events = 1..Len(events)
        /\ events' \in Seq(Signals) /\ Len(events') = Len(events) - 1 /\ DOMAIN events' = 1..(Len(events) - 1)
        /\ \A i \in 1..(Len(events) - 1) : events'[i] = events[i + 1]
    BY <1>1, <1>2
  <1>4. /\ joined' = concierge!JoinedAfter(e, joined) /\ seen' = concierge!SeenAfter(e, seen)
        /\ journal' = IF e.kind = "chat" THEN concierge!Journalled("echo", e.text) ELSE journal
    BY <1>3 DEF concierge!Handle
  <1> HIDE DEF e
  <1>5. e.kind \in {"present", "absent", "joined", "left", "chat"} /\ e.room \in Room /\ e.who \in SUBSET People /\ e.text \in Words
    BY <1>3 DEF Signals
  <1>6. seen \in [Room -> SUBSET People] /\ joined \subseteq Room
    BY <1>1 DEF TrackTypeOK
  <1>7. seen' \in [Room -> SUBSET People] /\ \A r \in Room : seen'[r] = Heeds(e, r, seen[r])
    <2>1. CASE e.kind = "present"
      <3>1. seen' = [seen EXCEPT ![e.room] = @ \cup e.who]
        BY <1>4, <2>1 DEF concierge!SeenAfter
      <3> QED
        BY <1>5, <1>6, <2>1, <3>1 DEF Heeds
    <2>2. CASE e.kind = "absent"
      <3>1. seen' = [seen EXCEPT ![e.room] = @ \ e.who]
        BY <1>4, <2>2 DEF concierge!SeenAfter
      <3> QED
        BY <1>5, <1>6, <2>2, <3>1 DEF Heeds
    <2>3. CASE e.kind = "left"
      <3>1. seen' = [seen EXCEPT ![e.room] = {}]
        BY <1>4, <2>3 DEF concierge!SeenAfter
      <3> QED
        BY <1>5, <1>6, <2>3, <3>1 DEF Heeds
    <2>4. CASE e.kind \in {"joined", "chat"}
      <3>1. seen' = seen
        BY <1>4, <2>4 DEF concierge!SeenAfter
      <3> QED
        BY <1>6, <2>4, <3>1 DEF Heeds
    <2> QED
      BY <1>5, <2>1, <2>2, <2>3, <2>4
  <1>8. /\ joined' \subseteq Room
        /\ \A r \in Room : ~Turning(e, r) => (r \in joined' <=> r \in joined)
        /\ \A r \in Room : Turning(e, r) => (r \in joined' <=> e.kind = "joined")
    BY <1>4, <1>5, <1>6 DEF concierge!JoinedAfter, Turning
  <1>9. /\ journal' \in Seq(Rows) /\ concierge!IntentBeforeEcho'
        /\ \A t : Intended(t) => Intended(t)'
    <2>1. CASE e.kind = "chat"
      <3>1. Intended(e.text)
        BY <1>1, <1>3, <2>1 DEF IntentInv, e
      <3> QED
        BY <1>1, <1>4, <1>5, <2>1, <3>1, JournalGains
    <2>2. CASE e.kind # "chat"
      BY <1>1, <1>4, <2>2 DEF TrackTypeOK, IntentInv, Intended, concierge!IntentBeforeEcho
    <2> QED
      BY <2>1, <2>2
  <1>10. TrackTypeOK'
    BY <1>1, <1>3, <1>7, <1>8, <1>9 DEF TrackTypeOK
  <1>11. PlaceInv'
    BY <1>1 DEF PlaceInv
  <1>12. LinesInv' /\ WireInv'
    BY <1>1 DEF LinesInv, WireInv, Truth
  <1>13. MirrorInv'
    <2>1. ASSUME up, NEW r \in Room
          PROVE  RoomKnown(r)' /\ \E s \in SUBSET People : Leads(events', r, seen'[r], s) /\ Mirrors(r, s)'
      <3>1. PICK s \in SUBSET People : Leads(events, r, seen[r], s) /\ Mirrors(r, s)
        BY <1>1, <2>1 DEF MirrorInv
      <3>2. Leads(events', r, seen'[r], s)
        <4>1. seen[r] \in SUBSET People
          BY <1>6
        <4>2. Leads(Tail(events), r, Heeds(events[1], r, seen[r]), s)
          BY <1>1, <1>2, <3>1, <4>1, LeadsTail
        <4> QED
          BY <1>1, <1>7, <4>2 DEF e
      <3>3. Mirrors(r, s)'
        BY <1>1, <3>1 DEF Mirrors
      <3>4. RoomKnown(r)
        BY <1>1, <2>1 DEF MirrorInv
      <3>5. RoomKnown(r)'
        <4>1. CASE Turning(e, r)
          <5>1. 1 \in DOMAIN events /\ Turning(events[1], r)
            BY <1>3, <4>1 DEF e
          <5>2. Len(events) = 1 /\ (e.kind = "joined" <=> concierge!me \in members[r])
            BY <3>4, <5>1 DEF RoomKnown, e
          <5>3. DOMAIN events' = {}
            BY <1>3, <5>2
          <5> QED
            BY <1>1, <1>8, <4>1, <5>2, <5>3 DEF RoomKnown
        <4>2. CASE ~Turning(e, r)
          <5>1. ASSUME NEW i \in DOMAIN events', Turning(events'[i], r)
                PROVE  i = Len(events') /\ (events'[i].kind = "joined" <=> concierge!me \in members'[r])
            <6>1. i + 1 \in DOMAIN events /\ events'[i] = events[i + 1]
              BY <1>3
            <6>2. i + 1 = Len(events) /\ (events[i + 1].kind = "joined" <=> concierge!me \in members[r])
              BY <3>4, <5>1, <6>1 DEF RoomKnown
            <6> QED
              BY <1>1, <1>3, <6>1, <6>2
          <5>2. ASSUME \A i \in DOMAIN events' : ~Turning(events'[i], r)
                PROVE  r \in joined' <=> concierge!me \in members'[r]
            <6>1. ASSUME NEW i \in DOMAIN events PROVE ~Turning(events[i], r)
              <7>1. CASE i = 1
                BY <4>2, <7>1 DEF e
              <7>2. CASE i # 1
                <8>1. i - 1 \in DOMAIN events' /\ (i - 1) + 1 = i
                  BY <1>3, <7>2
                <8>2. events'[i - 1] = events[i]
                  BY <1>3, <8>1
                <8> QED
                  BY <5>2, <8>1, <8>2
              <7> QED
                BY <7>1, <7>2
            <6>2. r \in joined <=> concierge!me \in members[r]
              BY <3>4, <6>1 DEF RoomKnown
            <6> QED
              BY <1>1, <1>8, <4>2, <6>2
          <5> QED
            BY <5>1, <5>2 DEF RoomKnown
        <4> QED
          BY <4>1, <4>2
      <3> QED
        BY <3>2, <3>3, <3>5
    <2> QED
      BY <1>1, <2>1 DEF MirrorInv
  <1>14. IntentInv'
    <2>1. \A i \in DOMAIN events' : i + 1 \in DOMAIN events /\ events'[i] = events[i + 1]
      BY <1>3
    <2>2. \A i \in DOMAIN events' : events'[i].kind = "chat" => Intended(events'[i].text)
      BY <1>1, <2>1 DEF IntentInv
    <2> QED
      BY <1>1, <1>9, <2>2 DEF IntentInv
  <1> QED
    BY <1>10, <1>11, <1>12, <1>13, <1>14 DEF ConciergeInv

LEMMA TrackStep == ASSUME ConciergeInv, concierge!Next PROVE ConciergeInv'
  <1>1. CASE concierge!Run
    BY <1>1, TrackDial, TrackStatusRead, TrackJoinRoom, TrackDisconnected DEF concierge!Run
  <1>2. CASE concierge!ClientReads \/ concierge!Handle \/ concierge!Drops
    BY <1>2, TrackClientReads, TrackHandle, TrackDrops
  <1>3. CASE \E t \in Text : concierge!StatusBegins(t) \/ \E r \in Room : concierge!SayBegins(r, t)
    BY <1>3, TrackStatusBegins, TrackSayBegins
  <1>4. CASE \E k \in calls : concierge!SayRecords(k) \/ concierge!SaySends(k) \/ concierge!StatusSets(k)
    BY <1>4, TrackSayRecords, TrackSaySends, TrackStatusSets
  <1>5. CASE \E r \in Room, n \in Two : concierge!OtherJoins(r, n)
    BY <1>5, TrackOtherJoins
  <1>6. CASE \E r \in Room, n \in Two \cup {concierge!me} : concierge!Leaves(r, n, "KICK")
    BY <1>6, TrackLeaves DEF People
  <1>7. CASE \E r \in Room, n \in Two : concierge!Leaves(r, n, "PART")
    BY <1>7, TrackLeaves DEF People
  <1>8. CASE \E n \in Two : concierge!Quits(n) \/ \E new \in Two : concierge!Renames(n, new)
    BY <1>8, TrackQuits, TrackRenames
  <1> QED
    BY <1>1, <1>2, <1>3, <1>4, <1>5, <1>6, <1>7, <1>8 DEF concierge!Next

ConciergePart == part = "concierge" => ConciergeInv

(* The inductive invariant of the rooms: what is on the wire leads from    *)
(* the members the client knows to the server's, what it has told leads to *)
(* the members it knows, and what comes back was recorded.                 *)
THEOREM ConciergeInvariant == Spec => []ConciergePart
  <1>1. Init => ConciergePart
    <2>1. ASSUME Init, part = "concierge" PROVE ConciergeInv
      BY <2>1, TrackInit DEF Init
    <2> QED
      BY <2>1 DEF ConciergePart
  <1>2. ConciergePart /\ [Next]_vars => ConciergePart'
    <2>1. CASE UNCHANGED vars
      BY <2>1, ConciergeStands DEF ConciergePart, vars
    <2>2. CASE ConciergeNext
      BY <2>2, TrackStep DEF ConciergePart, ConciergeNext
    <2>3. CASE MailNext \/ MailAnewNext \/ AlertNext \/ AlertRoomsNext \/ ReadNext
      BY <2>3 DEF ConciergePart, MailNext, MailAnewNext, AlertNext, AlertRoomsNext, ReadNext
    <2> QED
      BY <2>1, <2>2, <2>3 DEF Next
  <1> QED
    BY <1>1, <1>2, PTL DEF Spec

LEMMA TrackTells ==
  ASSUME ConciergeInv
  PROVE  concierge!RoomsAreTrue
  <1>1. TrackTypeOK /\ PlaceInv /\ WireInv /\ MirrorInv /\ concierge!IntentBeforeEcho
    BY DEF ConciergeInv, IntentInv
  <1>2. ASSUME up, wire = <<>>, events = <<>>, NEW r \in Room
        PROVE  (r \in joined <=> concierge!me \in occupants[r]) /\ seen[r] = Truth(r)
    <2>1. members[r] \in SUBSET People /\ seen[r] \in SUBSET People
      BY <1>1 DEF TrackTypeOK
    <2>2. members[r] = Truth(r)
      BY <1>1, <1>2, <2>1, FollowsNone DEF WireInv
    <2>3. RoomKnown(r) /\ \E s \in SUBSET People : Leads(<<>>, r, seen[r], s) /\ Mirrors(r, s)
      BY <1>1, <1>2 DEF MirrorInv
    <2>4. seen[r] = members[r]
      BY <1>2, <2>1, <2>3, LeadsNone DEF Mirrors
    <2>5. r \in joined <=> concierge!me \in members[r]
      BY <1>2, <2>3 DEF RoomKnown
    <2> QED
      BY <2>2, <2>4, <2>5 DEF Truth
  <1>3. concierge!WhoIsTrue
    <2>1. joined \subseteq Room
      BY <1>1 DEF TrackTypeOK
    <2> QED
      BY <1>2, <2>1 DEF concierge!WhoIsTrue, concierge!Who, Truth
  <1> QED
    BY <1>1, <1>3 DEF concierge!RoomsAreTrue

(* Who is in which room, once what the server sent is handled, is what the *)
(* server has, and the row of an intent is before the message's return: of *)
(* any rooms, people and texts, over reconnects, kicks, quits and renames. *)
THEOREM RoomsStayTrue == Spec => []RoomsAreTrue
  <1>1. ConciergePart => RoomsAreTrue
    BY TrackTells DEF ConciergePart, RoomsAreTrue
  <1> QED
    BY <1>1, ConciergeInvariant, PTL
=============================================================================
