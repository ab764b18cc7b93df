--------------------------- MODULE MCConnections ---------------------------
(* Three things that wait for somebody at the other end: the presence of   *)
(* the chat daemon, the presence query of the IRC client, and the renewals *)
(* of what a harness writes, under either harness. A behaviour is of one   *)
(* of them, the part: none of the steps below calls another's.             *)
EXTENDS Naturals

CONSTANTS
  Session, Cap, MaxEntries, MaxConns, MaxFails,
  Caller, MaxQueries,
  Use, Path, FewPaths, MaxPending, BatchMax, CorrelationMax, MaxTurns

VARIABLES
  part,
  buddies, entries, conns, dials, manager, closing, running, fails,
  call, asking, asked, waiter, box, dead, out, in, reader, open, closed, told,
  harness, turn, sighted, done, fileTools, pending, gap, wake, timer, renewedAt, ctl, events, ended,
  wrote, owed, misnamed

presence == INSTANCE Presence
irc == INSTANCE IrcClient
(* A tool of Claude writes one path, a file change of Codex several. *)
renewals(H, P) == INSTANCE Renewals WITH Harness <- H, Path <- P

ASSUME presence!CapAssumption

presenceVars == <<buddies, entries, conns, dials, manager, closing, running, fails>>
ircVars == <<call, asking, asked, waiter, box, dead, out, in, reader, open, closed, told>>
renewalsVars ==
  <<harness, turn, sighted, done, fileTools, pending, gap, wake, timer, renewedAt, ctl, events, ended,
    wrote, owed, misnamed>>
vars == <<part, presenceVars, ircVars, renewalsVars>>

-----------------------------------------------------------------------------
NoPresence ==
  /\ buddies = 0 /\ entries = 0 /\ conns = 0 /\ dials = 0
  /\ manager = 0 /\ closing = 0 /\ running = 0 /\ fails = 0
NoIrc ==
  /\ call = 0 /\ asking = 0 /\ asked = 0 /\ waiter = 0 /\ box = 0 /\ dead = 0
  /\ out = 0 /\ in = 0 /\ reader = 0 /\ open = 0 /\ closed = 0 /\ told = 0
NoRenewals ==
  /\ harness = 0 /\ turn = 0 /\ sighted = 0 /\ done = 0 /\ fileTools = 0 /\ pending = 0 /\ gap = 0
  /\ wake = 0 /\ timer = 0 /\ renewedAt = 0 /\ ctl = 0 /\ events = 0 /\ ended = 0 /\ wrote = 0 /\ owed = 0
  /\ misnamed = 0

Init ==
  \/ part = "presence" /\ presence!Init /\ NoIrc /\ NoRenewals
  \/ part = "irc" /\ irc!Init /\ NoPresence /\ NoRenewals
  \/ part = "claude" /\ renewals({"claude"}, FewPaths)!Init /\ NoPresence /\ NoIrc
  \/ part = "codex" /\ renewals({"codex"}, Path)!Init /\ NoPresence /\ NoIrc

OfPresence == part = "presence" /\ UNCHANGED <<part, ircVars, renewalsVars>>
OfIrc == part = "irc" /\ UNCHANGED <<part, presenceVars, renewalsVars>>
OfClaude == part = "claude" /\ UNCHANGED <<part, presenceVars, ircVars>>
OfCodex == part = "codex" /\ UNCHANGED <<part, presenceVars, ircVars>>

PresenceNext == OfPresence /\ presence!Next
IrcNext == OfIrc /\ irc!Next
ClaudeNext == OfClaude /\ renewals({"claude"}, FewPaths)!Next
CodexNext == OfCodex /\ renewals({"codex"}, Path)!Next

Next == PresenceNext \/ IrcNext \/ ClaudeNext \/ CodexNext

(* The fairness of each part, of its own steps. *)
PresenceFairness ==
  /\ WF_presenceVars(part = "presence" /\ presence!Manage) /\ WF_presenceVars(part = "presence" /\ presence!Dial)
  /\ WF_presenceVars(part = "presence" /\ presence!Due) /\ WF_presenceVars(part = "presence" /\ presence!Drains)
IrcFairness ==
  /\ WF_ircVars(part = "irc" /\ irc!ReadLoop)
  /\ \A c \in Caller : WF_ircVars(part = "irc" /\ irc!Goes(c))
LoopTakes == (part = "claude" /\ renewals({"claude"}, FewPaths)!LoopTakes) \/ (part = "codex" /\ renewals({"codex"}, Path)!LoopTakes)
Confirm == (part = "claude" /\ renewals({"claude"}, FewPaths)!Confirm) \/ (part = "codex" /\ renewals({"codex"}, Path)!Confirm)
FallsDue(p) ==
  \/ part = "claude" /\ p \in FewPaths /\ renewals({"claude"}, FewPaths)!FallsDue(p)
  \/ part = "codex" /\ renewals({"codex"}, Path)!FallsDue(p)
BoundaryTakes(e) ==
  \/ part = "claude" /\ renewals({"claude"}, FewPaths)!BoundaryTakes(e)
  \/ part = "codex" /\ renewals({"codex"}, Path)!BoundaryTakes(e)
RenewalsFairness ==
  /\ WF_renewalsVars(LoopTakes) /\ WF_renewalsVars(Confirm) /\ \A p \in Path : WF_renewalsVars(FallsDue(p))
  /\ SF_renewalsVars(\E e \in {"idle", "ended"} : BoundaryTakes(e))

Spec == Init /\ [][Next]_vars /\ PresenceFairness /\ IrcFairness /\ RenewalsFairness

-----------------------------------------------------------------------------
(* Presence: every connection the server holds is known to the manager,    *)
(* and what it believes of one is so.                                      *)
ConnectionsAreKnown == part = "presence" => presence!ConnectionsAreKnown

(* Presence: a session that stays noted comes (back) online, as long as    *)
(* connections can be had.                                                 *)
ComesOnline ==
  \A s \in Session :
    <>[](part = "presence" /\ presence!Wanted(s)) => []<>(part = "presence" /\ presence!Online(s))

(* The IRC client: a call is told the reply to its own query or none.      *)
AnswerIsOwn == part = "irc" => irc!AnswerIsOwn

(* The IRC client: a late reply puts the mechanism to use again.           *)
LateReplyResumes == (part = "irc" /\ irc!LateReply) ~> (part = "irc" /\ irc!Resumed)

(* Renewals: a write is behind every renewal and a renewal behind every    *)
(* write, or coverage is on record as lost.                                *)
RenewalsAreTrue ==
  /\ part = "claude" => renewals({"claude"}, FewPaths)!RenewalsAreTrue
  /\ part = "codex" => renewals({"codex"}, Path)!RenewalsAreTrue

OfRenewals == part \in {"claude", "codex"}

(* Renewals: what is pending is applied and what was lost is journalled,   *)
(* with no further write to wake the loop.                                 *)
PendingIsApplied ==
  (OfRenewals /\ renewals({"codex"}, Path)!SomethingLeft) ~> (OfRenewals /\ ~renewals({"codex"}, Path)!SomethingLeft)
=============================================================================
