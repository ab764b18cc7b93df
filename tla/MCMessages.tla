----------------------------- MODULE MCMessages -----------------------------
(* Messages from where they are kept to those they are for: the inbox and  *)
(* its hooks, the journal of the chat and its cursors, the connection the  *)
(* chat arrives on. A behaviour is of one of them, the part: each has      *)
(* tables of its own, and no step of one reads another's.                  *)
EXTENDS Naturals, TLC

CONSTANTS
  Two,                      \* hooks, alerts or reads at a time; people in a room
  Session, Bound,
  Room, MaxSeq, RowCap, PageSize,
  Text, NoText, MaxConns, MaxChanges

VARIABLES
  part,
  inbox, delivered, shown, again, session, idle, hooks, sender, alive, lock,
  rows, cut, horizon, alertCursor, readCursor, alerts, reads, emitted, rendered, passed,
  occupants, changes, up, wire, members, events, run, made, conn, joined,
  seen, status, away, calls, journal

mail(H, N, R) == INSTANCE Mail WITH Hook <- H, MaxMsg <- N, MaxRegs <- R
(* Of the rows of kinds K in the rooms R, alerts A and reads G at a time. *)
chat(R, K, A, G) == INSTANCE ChatJournal WITH Room <- R, Kind <- K, Alert <- A, Read <- G
concierge == INSTANCE Concierge WITH Nick <- Two

Kinds == {"presence", "named", "own"}

Symmetry == Permutations(Two)

ASSUME mail(Two, 1, 2)!BoundAssumption
ASSUME HookNames == mail(Two, 1, 2)!HookAssumption
ASSUME \A K \in {Kinds, {"named"}, {"presence"}} : chat(Room, K, Two, {})!KindAssumption
ASSUME RoomsAndPeople == concierge!PeopleAssumption
ASSUME JournalLimits == chat(Room, Kinds, Two, {})!LimitAssumption

-----------------------------------------------------------------------------
onlyMail == <<inbox, delivered, again, session, idle, hooks, sender, alive, lock>>
onlyChat == <<rows, cut, horizon, alertCursor, readCursor, alerts, reads, emitted, rendered, passed>>
onlyConcierge ==
  <<occupants, changes, up, wire, members, events, run, made, conn, joined, seen, status, away, calls, journal>>
vars == <<part, shown, onlyMail, onlyChat, onlyConcierge>>

NoMail ==
  /\ inbox = 0 /\ delivered = 0 /\ again = 0 /\ session = 0
  /\ idle = 0 /\ hooks = 0 /\ sender = 0 /\ alive = 0 /\ lock = 0
NoChat ==
  /\ rows = 0 /\ cut = 0 /\ horizon = 0 /\ alertCursor = 0 /\ readCursor = 0
  /\ alerts = 0 /\ reads = 0 /\ emitted = 0 /\ rendered = 0 /\ passed = 0
NoConcierge ==
  /\ occupants = 0 /\ changes = 0 /\ up = 0 /\ wire = 0 /\ members = 0
  /\ events = 0 /\ run = 0 /\ made = 0 /\ conn = 0 /\ joined = 0
  /\ seen = 0 /\ status = 0 /\ away = 0 /\ calls = 0 /\ journal = 0

(* Two messages and one hook at a time, or one message between two hooks   *)
(* over two registrations. The alerts of a session in a room with rows of  *)
(* every kind or in two rooms, or its reads of a room.                     *)
Init ==
  \/ part = "mail" /\ mail({"hook"}, 2, 1)!Init /\ NoChat /\ NoConcierge
  \/ part = "mailAnew" /\ mail(Two, 1, 2)!Init /\ NoChat /\ NoConcierge
  \/ part = "alert" /\ chat({"r1"}, Kinds, Two, {})!Init /\ NoMail /\ NoConcierge
  \/ part = "alertRooms" /\ chat(Room, {"named"}, Two, {})!Init /\ NoMail /\ NoConcierge
  \/ part = "read" /\ chat({"r1"}, {"presence"}, {}, Two)!Init /\ NoMail /\ NoConcierge
  \/ part = "concierge" /\ concierge!Init /\ shown = 0 /\ NoMail /\ NoChat

MailNext == part = "mail" /\ mail({"hook"}, 2, 1)!Next /\ UNCHANGED <<part, onlyChat, onlyConcierge>>
MailAnewNext == part = "mailAnew" /\ mail(Two, 1, 2)!Next /\ UNCHANGED <<part, onlyChat, onlyConcierge>>
AlertNext == part = "alert" /\ chat({"r1"}, Kinds, Two, {})!Next /\ UNCHANGED <<part, onlyMail, onlyConcierge>>
AlertRoomsNext == part = "alertRooms" /\ chat(Room, {"named"}, Two, {})!Next /\ UNCHANGED <<part, onlyMail, onlyConcierge>>
ReadNext == part = "read" /\ chat({"r1"}, {"presence"}, {}, Two)!Next /\ UNCHANGED <<part, onlyMail, onlyConcierge>>
ConciergeNext == part = "concierge" /\ concierge!Next /\ UNCHANGED <<part, shown, onlyMail, onlyChat>>

Next == MailNext \/ MailAnewNext \/ AlertNext \/ AlertRoomsNext \/ ReadNext \/ ConciergeNext

Spec == Init /\ [][Next]_vars

-----------------------------------------------------------------------------
(* Mail: what the drains hand over is addressed, shown before it is        *)
(* marked, and not shown twice by two of them.                             *)
DrainsAreExact ==
  /\ part = "mail" => mail({"hook"}, 2, 1)!DrainsAreExact
  /\ part = "mailAnew" => mail(Two, 1, 2)!DrainsAreExact

(* Mail: mail to a session at rest, once its sender is done, has a wake    *)
(* named for it, but for what the code says it cannot help.                *)
MailFindsTheResting ==
  /\ part = "mail" => mail({"hook"}, 2, 1)!MailFindsTheResting
  /\ part = "mailAnew" => mail(Two, 1, 2)!MailFindsTheResting

(* ChatJournal: a message that names the session is not behind its alert   *)
(* cursor before a notice had it.                                          *)
NamedWasAlerted ==
  /\ part = "alert" => chat({"r1"}, Kinds, Two, {})!NamedWasAlerted
  /\ part = "alertRooms" => chat(Room, {"named"}, Two, {})!NamedWasAlerted

(* ChatJournal: a row behind the read cursor was composed into an answer.  *)
ReadWasRendered == part = "read" => chat({"r1"}, {"presence"}, {}, Two)!ReadWasRendered

(* Concierge: the rooms, members and rows of the daemon are the server's.  *)
RoomsAreTrue == part = "concierge" => concierge!RoomsAreTrue
=============================================================================
