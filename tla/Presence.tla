------------------------------ MODULE Presence ------------------------------
(***************************************************************************)
(* The buddies of the chat daemon (internal/buddylist/presence.go): one    *)
(* connection per session, dialed by goroutines of its own while the       *)
(* session is noted, forgotten and noted again, or falls silent.           *)
(*                                                                         *)
(* An entry is the *buddy the map points to: a session noted again after   *)
(* it was forgotten has another one.  A step is what happens under one     *)
(* hold of the lock, or one call on the wire.  Times are abstracted to     *)
(* what they decide: an entry is silent, a retry is due.                   *)
(***************************************************************************)
EXTENDS Integers, FiniteSets

CONSTANTS
  Session,
  Cap,          \* maxPresenceBuddies
  MaxEntries,   \* bounds the entries ever made
  MaxConns,     \* bounds the connections ever opened
  MaxFails      \* bounds the dials that fail

CapAssumption == Cap \in Nat \ {0}

VARIABLES
  buddies,    \* the map: the entry of each session, 0 if none
  entries,    \* every *buddy made
  conns,      \* every connection opened
  dials,      \* the dial goroutines
  manager,    \* what the manager loop still has to do of its pass
  closing,    \* connections a caller has taken to close
  running,    \* whether the context is live
  fails       \* dials that have failed

vars == <<buddies, entries, conns, dials, manager, closing, running, fails>>

Entry == 1..MaxEntries
NoJob == [close |-> {}, away |-> {}, dial |-> {}]
Made == DOMAIN entries
Opened == DOMAIN conns
Listed(e) == buddies[entries[e].session] = e

Init ==
  /\ buddies = [s \in Session |-> 0] /\ entries = <<>> /\ conns = <<>>
  /\ dials = {} /\ manager = NoJob /\ closing = {} /\ running = TRUE /\ fails = 0

-----------------------------------------------------------------------------
(* An entry of the map: what it has to say, what the connection was told,  *)
(* and whether a dial is under way.                                        *)
Buddy(s, text) == [session |-> s, conn |-> 0, dialing |-> FALSE, text |-> text,
                   applied |-> 0, silent |-> FALSE, due |-> TRUE]

(* Callers.  What an entry has to say changes with the claims it notes.    *)
Note(s) ==
  LET new == Cardinality(Made) + 1 IN
  /\ \E text \in 1..2 :
       \/ /\ buddies[s] # 0
          /\ entries' = [entries EXCEPT ![buddies[s]].text = text, ![buddies[s]].silent = FALSE]
          /\ UNCHANGED buddies
       \/ /\ buddies[s] = 0 /\ new \in Entry
          /\ Cardinality({t \in Session : buddies[t] # 0}) < Cap
          /\ entries' = [e \in Made \cup {new} |-> IF e = new THEN Buddy(s, text) ELSE entries[e]]
          /\ buddies' = [buddies EXCEPT ![s] = new]
  /\ UNCHANGED <<conns, dials, manager, closing, running, fails>>

(* Out of the map nothing of an entry is read again but whose it was: what *)
(* it had to say, and when it was due, are forgotten with its connection.  *)
Gone(b) == Buddy(b.session, 1)

(* The connection is taken under the lock and closed after it. *)
Taken(E) == {entries[e].conn : e \in E} \ {0}

Forget(s) ==
  /\ buddies[s] # 0
  /\ closing' = closing \cup Taken({buddies[s]})
  /\ entries' = [entries EXCEPT ![buddies[s]] = Gone(@)]
  /\ buddies' = [buddies EXCEPT ![s] = 0]
  /\ UNCHANGED <<conns, dials, manager, running, fails>>

Close(c) ==
  /\ c \in closing
  /\ closing' = closing \ {c}
  /\ conns' = [conns EXCEPT ![c].open = FALSE]
  /\ UNCHANGED <<buddies, entries, dials, manager, running, fails>>

(* Time passes. *)
FallsSilent(e) ==
  /\ Listed(e) /\ ~entries[e].silent
  /\ entries' = [entries EXCEPT ![e].silent = TRUE]
  /\ UNCHANGED <<buddies, conns, dials, manager, closing, running, fails>>

ComesDue(e) ==
  /\ Listed(e) /\ ~entries[e].due
  /\ entries' = [entries EXCEPT ![e].due = TRUE]
  /\ UNCHANGED <<buddies, conns, dials, manager, closing, running, fails>>

-----------------------------------------------------------------------------
(* The manager: one look at every buddy, then what follows from it.        *)
Reconcile ==
  LET listed == {e \in Made : Listed(e)}
      expired == {e \in listed : entries[e].silent}
      dialed == {e \in listed \ expired : entries[e].conn = 0 /\ ~entries[e].dialing /\ entries[e].due}
      aways == {e \in listed \ expired : entries[e].conn # 0 /\ entries[e].text # entries[e].applied}
  IN
  /\ running /\ manager = NoJob /\ expired \cup dialed \cup aways # {}
  /\ manager' = [close |-> Taken(expired), dial |-> dialed,
                 away |-> {[e |-> e, conn |-> entries[e].conn, text |-> entries[e].text, set |-> "no"] : e \in aways}]
  /\ entries' = [e \in Made |-> IF e \in expired THEN Gone(entries[e])
                                ELSE IF e \in dialed THEN [entries[e] EXCEPT !.dialing = TRUE]
                                ELSE entries[e]]
  /\ buddies' = [s \in Session |-> IF buddies[s] \in expired THEN 0 ELSE buddies[s]]
  /\ UNCHANGED <<conns, dials, closing, running, fails>>

CloseExpired(c) ==
  /\ c \in manager.close
  /\ manager' = [manager EXCEPT !.close = @ \ {c}]
  /\ conns' = [conns EXCEPT ![c].open = FALSE]
  /\ UNCHANGED <<buddies, entries, dials, closing, running, fails>>

Alive(c) == conns[c].open /\ conns[c].up

(* A write of our own side: on a connection the server has dropped it may  *)
(* succeed still.                                                          *)
SetAway(job) ==
  /\ manager.close = {} /\ job \in manager.away /\ job.set = "no"
  /\ \E written \in {Alive(job.conn), conns[job.conn].open} :
       /\ manager' = [manager EXCEPT !.away = (@ \ {job}) \cup
            {[job EXCEPT !.set = IF written THEN "done" ELSE "failed"]}]
       /\ conns' = IF written THEN [conns EXCEPT ![job.conn].away = job.text] ELSE conns
  /\ UNCHANGED <<buddies, entries, dials, closing, running, fails>>

(* Mutant: what the entry has to say by now counts as said. *)
TextByNow(job) == entries[job.e].text

TextSet(job) == job.text

(* A reconnect may have replaced the connection meanwhile. *)
OfThisConn(job) == entries[job.e].conn = job.conn

NoteApplied(job) ==
  /\ job \in manager.away /\ job.set # "no"
  /\ manager' = [manager EXCEPT !.away = @ \ {job}]
  /\ entries' = IF OfThisConn(job)
                THEN [entries EXCEPT ![job.e].applied = IF job.set = "done" THEN TextSet(job) ELSE 0]
                ELSE entries
  /\ UNCHANGED <<buddies, conns, dials, closing, running, fails>>

StartDial(e) ==
  /\ manager.close = {} /\ manager.away = {} /\ e \in manager.dial
  /\ manager' = [manager EXCEPT !.dial = @ \ {e}]
  /\ dials' = dials \cup {[e |-> e, at |-> "connect", conn |-> 0]}
  /\ UNCHANGED <<buddies, entries, conns, closing, running, fails>>

(* The daemon ends: closeAll replaces the map. *)
Shutdown ==
  /\ running /\ manager = NoJob
  /\ running' = FALSE
  /\ LET held == {e \in Made : Listed(e)} IN
     /\ closing' = closing \cup Taken(held)
     /\ entries' = [e \in Made |-> IF e \in held THEN Gone(entries[e]) ELSE entries[e]]
  /\ buddies' = [s \in Session |-> 0]
  /\ UNCHANGED <<conns, dials, manager, fails>>

-----------------------------------------------------------------------------
(* A dial, on a goroutine of its own.                                      *)
Connect(d) ==
  LET new == Cardinality(Opened) + 1 IN
  /\ d.at = "connect" /\ new <= MaxConns
  /\ conns' = [c \in Opened \cup {new} |->
                 IF c = new THEN [e |-> d.e, open |-> TRUE, up |-> TRUE, away |-> 0, drained |-> FALSE]
                 ELSE conns[c]]
  /\ dials' = (dials \ {d}) \cup {[d EXCEPT !.at = "publish", !.conn = new]}
  /\ UNCHANGED <<buddies, entries, manager, closing, running, fails>>

(* Mutant: a dial that failed is never tried again. *)
StillDialing(b) == [b EXCEPT !.due = FALSE]

Retriable(b) == [b EXCEPT !.dialing = FALSE, !.due = FALSE]

(* No free nick, no server, or a room it may not join: then the connection *)
(* is closed.                                                              *)
DialFails(d) ==
  /\ d.at \in {"connect", "publish"} /\ fails < MaxFails
  /\ fails' = fails + 1
  /\ dials' = dials \ {d}
  /\ entries' = [entries EXCEPT ![d.e] = Retriable(@)]
  /\ conns' = IF d.conn # 0 THEN [conns EXCEPT ![d.conn].open = FALSE] ELSE conns
  /\ UNCHANGED <<buddies, manager, closing, running>>

(* Mutant: any entry of the session will do. *)
SessionListed(e) == buddies[entries[e].session] # 0

(* Pointer identity: the map still holds this very entry. *)
StillListed(e) == Listed(e)

Publishes(b, c) == [b EXCEPT !.conn = c, !.dialing = FALSE, !.applied = 0]

Publish(d) ==
  /\ d.at = "publish"
  /\ IF StillListed(d.e)
     THEN /\ entries' = [entries EXCEPT ![d.e] = Publishes(@, d.conn)]
          /\ dials' = dials \ {d}
          /\ UNCHANGED conns
     ELSE /\ conns' = [conns EXCEPT ![d.conn].open = FALSE]
          /\ dials' = dials \ {d}
          /\ UNCHANGED entries
  /\ UNCHANGED <<buddies, manager, closing, running, fails>>

-----------------------------------------------------------------------------
(* The server drops a connection; its reader sees that, or our own close.  *)
ServerDrops(c) ==
  /\ Alive(c) /\ fails < MaxFails
  /\ fails' = fails + 1
  /\ conns' = [conns EXCEPT ![c].up = FALSE]
  /\ UNCHANGED <<buddies, entries, dials, manager, closing, running>>

InDial(c) == \E d \in dials : d.conn = c

Drain(c) ==
  LET e == conns[c].e IN
  /\ ~Alive(c) /\ ~conns[c].drained /\ ~InDial(c)
  /\ conns' = [conns EXCEPT ![c].drained = TRUE]
  /\ entries' = IF entries[e].conn = c
                THEN [entries EXCEPT ![e].conn = 0, ![e].applied = 0, ![e].due = FALSE]
                ELSE entries
  /\ UNCHANGED <<buddies, dials, manager, closing, running, fails>>

-----------------------------------------------------------------------------
Manage ==
  \/ Reconcile
  \/ \E c \in manager.close : CloseExpired(c)
  \/ \E job \in manager.away : SetAway(job) \/ NoteApplied(job)
  \/ \E e \in manager.dial : StartDial(e)

Dial == \E d \in dials : Connect(d) \/ Publish(d)

Next ==
  \/ \E s \in Session : Note(s) \/ Forget(s)
  \/ \E c \in Opened : Close(c) \/ ServerDrops(c) \/ Drain(c)
  \/ \E e \in Made : FallsSilent(e) \/ ComesDue(e)
  \/ Manage \/ Shutdown \/ Dial
  \/ \E d \in dials : DialFails(d)

Due == \E e \in Made : ComesDue(e)
Drains == \E c \in Opened : Drain(c)

(* The loop wakes at every tick, goroutines run, and time passes. *)
Spec == Init /\ [][Next]_vars /\ WF_vars(Manage) /\ WF_vars(Dial) /\ WF_vars(Due) /\ WF_vars(Drains)

-----------------------------------------------------------------------------
(* dial, forget, reconcile and closeAll: a connection to the server is     *)
(* that of an entry the map holds, or in the hands of somebody about to    *)
(* publish or close it, whenever a dial lands.                             *)
NoOrphans ==
  \A c \in Opened : Alive(c) =>
    \/ Listed(conns[c].e) /\ entries[conns[c].e].conn = c
    \/ InDial(c) \/ c \in closing \cup manager.close

(* reconcile: what an entry believes the room sees is what was last put on *)
(* the connection it holds ("the away text last put on the wire"), unless  *)
(* the manager is just changing it.                                        *)
AwayIsTrue ==
  \A e \in Made :
    (entries[e].conn # 0 /\ entries[e].applied # 0 /\ ~\E job \in manager.away : job.conn = entries[e].conn)
      => conns[entries[e].conn].away = entries[e].applied

(* What the manager does not know of, the server does not hold, and what   *)
(* the manager believes of a connection is so.                             *)
ConnectionsAreKnown == NoOrphans /\ AwayIsTrue

Wanted(s) == buddies[s] # 0 /\ running /\ Cardinality(Opened) < MaxConns
Online(s) == buddies[s] # 0 /\ entries[buddies[s]].conn # 0

(* A session that stays noted comes online, and comes back online after    *)
(* every failure, as long as connections can be had.                       *)
ComesOnline == \A s \in Session : <>[]Wanted(s) => []<>Online(s)
=============================================================================
