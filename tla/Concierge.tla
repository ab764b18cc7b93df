----------------------------- MODULE Concierge -----------------------------
(***************************************************************************)
(* The concierge: the chat daemon's own connection to the server           *)
(* (internal/buddylist/chatd.go) over the IRC client that tracks who is in *)
(* which room (internal/ircwire/client.go).                                *)
(*                                                                         *)
(* The server's lines reach the client in order; the client turns one line *)
(* into events, and the daemon handles one event after the other.  A write *)
(* takes effect at the server when it is made, on the connection it is     *)
(* made on.  A connection is its number, and 0 is none.                    *)
(***************************************************************************)
EXTENDS Integers, Sequences, FiniteSets, SequencesExt

CONSTANTS
  Room,
  Nick,        \* everybody else, by the names they may take
  Text,        \* what callers relay and set as status
  MaxConns,    \* bounds the connections ever made
  MaxChanges,  \* bounds what the others do
  NoText

me == "concierge"

PeopleAssumption == me \notin Nick /\ IsFiniteSet(Room)

VARIABLES
  occupants,  \* the server's truth: who is in each room
  changes,    \* how often that has changed
  up,         \* whether the server still has the connection
  wire,       \* lines on their way to the client
  members,    \* the client's membership map
  events,     \* events of the line being handled
  run,        \* the daemon's main loop
  made,       \* the number of the last connection made
  conn,       \* the daemon's connection
  joined,     \* its rooms with an id
  seen,       \* its members map: who is present in each room
  status,     \* the remembered status text
  away,       \* what the server shows
  calls,      \* the calls of Say and Status under way
  journal     \* the rows of what was relayed

vars == <<occupants, changes, up, wire, members, events, run, made, conn, joined, seen, status, away, calls, journal>>

client == <<members, events>>
daemon == <<conn, joined, seen, status, calls, journal>>
server == <<occupants, changes, up, away>>

Nothing == [r \in Room |-> {}]
Dialing == [at |-> "dial", status |-> NoText, rest |-> Room]

Init ==
  /\ occupants \in [Room -> {{}, Nick}] /\ changes = 0 /\ up = FALSE /\ wire = <<>> /\ away = NoText
  /\ members = Nothing /\ events = <<>>
  /\ run = Dialing /\ made = 0 /\ conn = 0 /\ joined = {} /\ seen = Nothing /\ status = NoText
  /\ calls = {} /\ journal = <<>>

-----------------------------------------------------------------------------
(* The main loop.                                                          *)
Dial ==
  /\ run.at = "dial" /\ made < MaxConns
  /\ made' = made + 1 /\ up' = TRUE /\ wire' = <<>> /\ away' = NoText
  /\ conn' = made' /\ run' = [run EXCEPT !.at = "status"]
  /\ members' = Nothing /\ events' = <<>>
  /\ UNCHANGED <<occupants, changes, joined, seen, status, calls, journal>>

ReadStatus ==
  /\ run.at = "status"
  /\ run' = [run EXCEPT !.at = IF status = NoText THEN "join" ELSE "reapply", !.status = status]
  /\ UNCHANGED <<client, daemon, server, wire, made>>

(* A write on connection c: it reaches the server if that still has it. *)
Reaches(c) == up /\ c = made

Reapply ==
  /\ run.at = "reapply"
  /\ away' = IF Reaches(conn) THEN run.status ELSE away
  /\ run' = [run EXCEPT !.at = "join", !.status = NoText]
  /\ UNCHANGED <<client, daemon, occupants, changes, up, wire, made>>

LineOf(cmd, r, who, text) == [cmd |-> cmd, room |-> r, who |-> who, text |-> text]
Line(cmd, r, who) == LineOf(cmd, r, who, NoText)

(* The server answers a join with the join and the names of the room. *)
JoinRoom(r) ==
  /\ run.at = "join" /\ r \in run.rest
  /\ run' = [run EXCEPT !.rest = @ \ {r}, !.at = IF run.rest = {r} THEN "events" ELSE "join"]
  /\ IF Reaches(conn)
     THEN /\ occupants' = [occupants EXCEPT ![r] = @ \cup {me}]
          /\ wire' = wire \o <<Line("JOIN", r, {me}), Line("353", r, occupants'[r])>>
     ELSE UNCHANGED <<occupants, wire>>
  /\ UNCHANGED <<client, daemon, changes, up, away, made>>

(* The read loop of the client has ended, and so have its events. *)
Disconnected ==
  /\ run.at = "events" /\ ~up /\ events = <<>> /\ wire = <<>>
  /\ run' = Dialing /\ conn' = 0 /\ joined' = {} /\ seen' = Nothing
  /\ UNCHANGED <<client, server, wire, made, status, calls, journal>>

-----------------------------------------------------------------------------
(* The client: one line becomes events.                                    *)
Event(kind, r, who, text) == [kind |-> kind, room |-> r, who |-> who, text |-> text]
Present(r, who) == Event("present", r, who, NoText)
Absent(r, who) == Event("absent", r, who, NoText)

(* The keys of a map, in whatever order they are read. *)
ChannelsOf(n) == SetToSeqs({r \in Room : n \in members[r]})

(* Mutant: only a room's list of names is kept. *)
NotKept(l) == members

Kept(l) == [members EXCEPT ![l.room] = @ \cup l.who]

HandleJoin(l) ==
  /\ l.cmd = "JOIN" /\ members' = Kept(l)
  /\ events' = <<IF l.who = {me} THEN Event("joined", l.room, {}, NoText) ELSE Present(l.room, l.who)>>

HandleNames(l) ==
  /\ l.cmd = "353"
  /\ members' = [members EXCEPT ![l.room] = @ \cup l.who]
  /\ events' = <<Present(l.room, l.who)>>

HandleLeave(l) ==
  /\ l.cmd \in {"PART", "KICK"}
  /\ IF l.who = {me}
     THEN members' = [members EXCEPT ![l.room] = {}] /\ events' = <<Absent(l.room, l.who), Event("left", l.room, {}, NoText)>>
     ELSE members' = [members EXCEPT ![l.room] = @ \ l.who] /\ events' = <<Absent(l.room, l.who)>>

HandleQuit(l) ==
  /\ l.cmd = "QUIT"
  /\ members' = [r \in Room |-> members[r] \ l.who]
  /\ \E n \in l.who : \E in \in ChannelsOf(n) : events' = [i \in DOMAIN in |-> Absent(in[i], l.who)]

HandleNick(l) ==
  /\ l.cmd = "NICK"
  /\ \E n \in l.who :
       /\ members' = [r \in Room |-> IF n \in members[r] THEN (members[r] \ {n}) \cup {l.text} ELSE members[r]]
       /\ \E in \in ChannelsOf(n) :
            events' = [i \in 1..(2 * Len(in)) |->
              IF i % 2 = 1 THEN Absent(in[(i + 1) \div 2], {n}) ELSE Present(in[i \div 2], {l.text})]

HandlePrivmsg(l) ==
  /\ l.cmd = "PRIVMSG"
  /\ events' = <<Event("chat", l.room, l.who, l.text)>> /\ UNCHANGED members

(* Nobody takes events while the daemon is still joining: the client waits *)
(* for the last event to be taken before it reads on.                      *)
ClientReads ==
  /\ events = <<>> /\ wire # <<>> /\ run.at = "events"
  /\ wire' = Tail(wire)
  /\ LET l == Head(wire) IN
     HandleJoin(l) \/ HandleNames(l) \/ HandleLeave(l) \/ HandleQuit(l) \/ HandleNick(l) \/ HandlePrivmsg(l)
  /\ UNCHANGED <<daemon, server, run, made>>

Journalled(row, text) == Append(journal, [row |-> row, text |-> text])

(* The daemon: one event. *)
JoinedAfter(e, rooms) ==
  CASE e.kind = "joined" -> rooms \cup {e.room} [] e.kind = "left" -> rooms \ {e.room} [] OTHER -> rooms

SeenAfter(e, s) ==
  CASE e.kind = "present" -> [s EXCEPT ![e.room] = @ \cup e.who]
    [] e.kind = "absent" -> [s EXCEPT ![e.room] = @ \ e.who]
    [] e.kind = "left" -> [s EXCEPT ![e.room] = {}]
    [] OTHER -> s

Handle ==
  /\ run.at = "events" /\ events # <<>>
  /\ events' = Tail(events)
  /\ LET e == Head(events) IN
     /\ joined' = JoinedAfter(e, joined)
     /\ seen' = SeenAfter(e, seen)
     /\ journal' = IF e.kind = "chat" THEN Journalled("echo", e.text) ELSE journal
  /\ UNCHANGED <<members, server, wire, run, made, conn, status, calls>>

-----------------------------------------------------------------------------
(* Callers on the socket.                                                  *)
Call(kind, at, r, t, c) == [kind |-> kind, at |-> at, room |-> r, text |-> t, conn |-> c]
NoCallOf(t) == \A k \in calls : k.text # t
Unsaid(t) == \A i \in DOMAIN journal : journal[i].text # t

(* Mutant: the row of what was sent is written when it was sent. *)
SendsFirst == "send"

RecordsFirst == "record"

(* Say fails while there is no connection or the room is not joined. *)
SayBegins(r, t) ==
  /\ conn # 0 /\ r \in joined /\ NoCallOf(t) /\ Unsaid(t)
  /\ calls' = calls \cup {Call("say", RecordsFirst, r, t, conn)}
  /\ UNCHANGED <<client, server, wire, run, made, conn, joined, seen, status, journal>>

SayRecords(k) ==
  /\ k \in calls /\ k.kind = "say" /\ k.at = "record"
  /\ journal' = Journalled("sent", k.text)
  /\ calls' = (calls \ {k}) \cup IF RecordsFirst = "record" THEN {[k EXCEPT !.at = "send"]} ELSE {}
  /\ UNCHANGED <<client, server, wire, run, made, conn, joined, seen, status>>

(* The server reflects a message to a room the sender is in. *)
SaySends(k) ==
  /\ k \in calls /\ k.kind = "say" /\ k.at = "send"
  /\ wire' = IF Reaches(k.conn) /\ me \in occupants[k.room]
             THEN Append(wire, LineOf("PRIVMSG", k.room, {me}, k.text)) ELSE wire
  /\ calls' = (calls \ {k}) \cup IF RecordsFirst = "send" THEN {[k EXCEPT !.at = "record"]} ELSE {}
  /\ UNCHANGED <<client, server, run, made, conn, joined, seen, status, journal>>

StatusBegins(t) ==
  /\ NoCallOf(t) /\ status # t
  /\ status' = t
  /\ calls' = IF conn = 0 THEN calls ELSE calls \cup {Call("status", "away", "", t, conn)}
  /\ UNCHANGED <<client, server, wire, run, made, conn, joined, seen, journal>>

StatusSets(k) ==
  /\ k \in calls /\ k.kind = "status"
  /\ away' = IF Reaches(k.conn) THEN k.text ELSE away
  /\ calls' = calls \ {k}
  /\ UNCHANGED <<client, wire, run, made, conn, joined, seen, status, journal, occupants, changes, up>>

-----------------------------------------------------------------------------
(* The server and everybody else.  Lines go out for the rooms we are in.   *)
Shared(rooms) == up /\ \E r \in rooms : me \in occupants[r]
Tells(rooms, l) == wire' = IF Shared(rooms) THEN Append(wire, l) ELSE wire
Changes == changes < MaxChanges /\ changes' = changes + 1
Others == UNCHANGED <<client, daemon, run, made, up, away>>

OtherJoins(r, n) ==
  /\ Changes /\ n \notin occupants[r]
  /\ occupants' = [occupants EXCEPT ![r] = @ \cup {n}]
  /\ Tells({r}, Line("JOIN", r, {n})) /\ Others

Leaves(r, n, cmd) ==
  /\ Changes /\ n \in occupants[r]
  /\ occupants' = [occupants EXCEPT ![r] = @ \ {n}]
  /\ Tells({r}, Line(cmd, r, {n})) /\ Others

Quits(n) ==
  LET rooms == {r \in Room : n \in occupants[r]} IN
  /\ Changes /\ rooms # {}
  /\ occupants' = [r \in Room |-> occupants[r] \ {n}]
  /\ Tells(rooms, Line("QUIT", CHOOSE r \in rooms : TRUE, {n}))
  /\ Others

Renames(n, new) ==
  LET rooms == {r \in Room : n \in occupants[r]} IN
  /\ Changes /\ rooms # {} /\ \A r \in Room : new \notin occupants[r]
  /\ occupants' = [r \in Room |-> IF r \in rooms THEN (occupants[r] \ {n}) \cup {new} ELSE occupants[r]]
  /\ Tells(rooms, LineOf("NICK", CHOOSE r \in rooms : TRUE, {n}, new))
  /\ Others

Drops ==
  /\ up /\ up' = FALSE /\ occupants' = [r \in Room |-> occupants[r] \ {me}]
  /\ \E n \in 0..Len(wire) : wire' = SubSeq(wire, 1, n)
  /\ UNCHANGED <<client, daemon, run, made, changes, away>>

Run == Dial \/ ReadStatus \/ Reapply \/ (\E r \in Room : JoinRoom(r)) \/ Disconnected

Next ==
  \/ Run \/ ClientReads \/ Handle \/ Drops
  \/ \E t \in Text : StatusBegins(t) \/ \E r \in Room : SayBegins(r, t)
  \/ \E k \in calls : SayRecords(k) \/ SaySends(k) \/ StatusSets(k)
  \/ \E r \in Room, n \in Nick : OtherJoins(r, n)
  \/ \E r \in Room, n \in Nick \cup {me} : Leaves(r, n, "KICK")
  \/ \E r \in Room, n \in Nick : Leaves(r, n, "PART")
  \/ \E n \in Nick : Quits(n) \/ \E new \in Nick : Renames(n, new)

Spec == Init /\ [][Next]_vars

-----------------------------------------------------------------------------
Who(r) == seen[r]

(* Who: once every line is handled, the daemon's rooms are those the       *)
(* server has it in and their members those the server has there, over     *)
(* joins, kicks, quits, renames and reconnects.                            *)
WhoIsTrue ==
  (run.at = "events" /\ up /\ wire = <<>> /\ events = <<>>) =>
    /\ joined = {r \in Room : me \in occupants[r]}
    /\ \A r \in Room : Who(r) = IF r \in joined THEN occupants[r] ELSE {}

(* Say: the row of the intent is on record before the message comes back,  *)
(* which is what tells a session's alerts that the message is its own.     *)
IntentBeforeEcho ==
  \A i \in DOMAIN journal : journal[i].row = "echo" =>
    \E j \in 1..(i - 1) : journal[j] = [row |-> "sent", text |-> journal[i].text]

(* The rooms, their members and the order of the journal's rows, as the    *)
(* daemon reports them, are those of the server.                           *)
RoomsAreTrue == WhoIsTrue /\ IntentBeforeEcho

-----------------------------------------------------------------------------
(* What the code says of itself and does not keep: no run checks it, and   *)
(* the README tells what breaks it.                                        *)

(* Status "sets (or with "" clears) the concierge's away text, remembering *)
(* it across reconnects": with no call under way, what the server shows is *)
(* what is remembered.                                                     *)
StatusIsShown ==
  (run.at = "events" /\ up /\ \A k \in calls : k.kind # "status") => away = status
=============================================================================
