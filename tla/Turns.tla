------------------------------- MODULE Turns -------------------------------
(***************************************************************************)
(* What the hooks of one session record about its turns: the idle mark,    *)
(* the footprint, the base and the handoff step (internal/store/store.go,  *)
(* handoff.go; internal/cli/idlewait.go, handoff.go, transcript.go).       *)
(*                                                                         *)
(* A hook is a process: it reads the transcript and the ledger in steps of *)
(* its own, and may be delayed past the end of the session it speaks for   *)
(* and past its registration again.  The payload names no incarnation.     *)
(*                                                                         *)
(* The clock counts half seconds, one to an event of the harness, so a     *)
(* later event has a later time.  The ledger keeps the registration in     *)
(* whole seconds, the transcript its records in finer ones.                *)
(***************************************************************************)
EXTENDS Integers, Sequences, SequencesExt

CONSTANTS
  Hook,         \* the hook processes that may run at once
  Size,         \* prompt sizes of a request
  HandoffAt,    \* the declared size at which the session hands off
  HandoffStep,  \* the growth after which it is told again
  MaxTime       \* bounds the events of the harness

SizeAssumption == Size \subseteq Nat \ {0}
HandoffAssumption == HandoffAt \in Nat \ {0} /\ HandoffStep \in Nat \ {0}

VARIABLES
  clock,
  session,     \* the row: live, incarnation, when it registered
  turn,        \* the turn the harness is in, and its reply if not on disk yet
  transcript,  \* the file: prompts and tool results, and requests' usage
  hooks,       \* each hook process: where it is, and what it has read
  idle,        \* the idle mark
  context,     \* the footprint, with the highest handoff step told
  base         \* the commit the tree was on at a turn's end

vars == <<clock, session, turn, transcript, hooks, idle, context, base>>
disk == <<turn, transcript>>
ledger == <<session, idle, context, base>>

None == [kind |-> "none"]

(* Only whole seconds of a time are kept of a registration. *)
Second(t) == t - (t % 2)

-----------------------------------------------------------------------------
(* The transcript.  A record knows the incarnation whose turn it is of,    *)
(* which no reader of it does.                                             *)
UserRecord(p, t) == [kind |-> "user", prompt |-> p, at |-> t, size |-> 0, inc |-> session.inc]
UsageRecord(p, t, n) == [kind |-> "usage", prompt |-> p, at |-> t, size |-> n, inc |-> session.inc]

Requests == {r \in ToSet(transcript) : r.kind = "usage"}
Prompts == {r \in ToSet(transcript) : r.kind = "user"}

Newest(S) == CHOOSE r \in S : \A q \in S : q.at <= r.at

(* The newest request on disk, if there is one. *)
LastUsage == IF Requests = {} THEN None ELSE Newest(Requests)

(* A prompt or tool result as new as the newest request waits for its      *)
(* reply.                                                                  *)
Pending ==
  IF Prompts = {} THEN None
  ELSE LET last == Newest(Prompts)
       IN IF LastUsage # None /\ last.at < LastUsage.at THEN None ELSE last

(* The named turn is on disk behind a newer prompt. *)
Superseded(p) ==
  /\ \E r \in Prompts : r.prompt = p
  /\ Newest(Prompts).prompt # p

-----------------------------------------------------------------------------
(* The transactions of the ledger.                                         *)

(* Mutant: a late turn is admitted. *)
AdmitsAny(fence) == session.live

(* Whether the turn a Stop is of can be this incarnation's.  Without a     *)
(* time there is nothing to check.                                         *)
IdleFence(fence) ==
  /\ session.live
  /\ fence # None => fence.at >= session.started

(* Mutant: the reset of the told step is forgotten. *)
ToldKept(inc, r) ==
  IF context = None \/ context.inc # inc THEN -1 ELSE context.step

(* A request under the declared size forgets the steps told; so does       *)
(* another incarnation's.                                                  *)
ToldAfter(inc, r) ==
  IF context = None \/ context.inc # inc \/ r.size < HandoffAt THEN -1 ELSE context.step

(* A row: the footprint of a request, and who observed it.                 *)
ContextSample(inc, r, by) == [kind |-> "context", inc |-> inc, of |-> r, by |-> by, step |-> ToldAfter(inc, r)]

(* RecordContext: for the incarnation that observed it, and never an older *)
(* request over a newer one.                                               *)
RecordContext(inc, r, by) ==
  IF /\ session.live /\ session.inc = inc
     /\ context = None \/ context.inc # inc \/ r.at >= context.of.at
  THEN context' = ContextSample(inc, r, by)
  ELSE UNCHANGED context

RecordBase(inc, at, of) ==
  IF /\ session.live /\ session.inc = inc
     /\ base = None \/ base.inc # inc \/ at >= base.at
  THEN base' = [kind |-> "base", inc |-> inc, at |-> at, of |-> of]
  ELSE UNCHANGED base

StepOf(n) == IF n < HandoffAt THEN -1 ELSE (n - HandoffAt) \div HandoffStep

(* Mutant: the row may have moved on since the step was computed. *)
ClaimsFromAny(inc, n) ==
  /\ StepOf(n) >= 0
  /\ context # None /\ context.inc = inc /\ context.step < StepOf(n)

(* HandoffTell: one conditional update, against the size the step was      *)
(* computed from.                                                          *)
ClaimsStep(inc, n) ==
  /\ StepOf(n) >= 0
  /\ context # None /\ context.inc = inc /\ context.of.size = n
  /\ context.step < StepOf(n)

-----------------------------------------------------------------------------
(* The harness: an external actor.  Its records carry the time they were   *)
(* made at, and the reply of a turn reaches the disk after its Stop fired. *)
Init ==
  /\ clock = 0
  /\ session = [live |-> TRUE, inc |-> 1, started |-> 0]
  /\ turn = [prompt |-> 0, at |-> "rest", reply |-> None]
  /\ transcript = <<>>
  /\ hooks = [h \in Hook |-> [at |-> "none"]]
  /\ idle = None /\ context = None /\ base = None

Tick == clock < MaxTime /\ clock' = clock + 1

Launch(h, hook) == hooks[h].at = "none" /\ hooks' = [hooks EXCEPT ![h] = hook]

Start(at, p) == [at |-> at, prompt |-> p, inc |-> 0, usage |-> None, fence |-> None,
                 landed |-> FALSE, started |-> 0]

Flushed == IF turn.reply = None THEN transcript ELSE Append(transcript, turn.reply)

(* A prompt opens a turn; the reply before it is on disk by then, or still *)
(* on its way (idlewait.go measures 3 of 4 for a queued prompt).           *)
OpenTurn(h) ==
  /\ session.live /\ turn.at = "rest" /\ turn.reply = None
  /\ Tick
  /\ turn' = [prompt |-> turn.prompt + 1, at |-> "working", reply |-> None]
  /\ transcript' = Append(transcript, UserRecord(turn.prompt + 1, clock'))
  /\ Launch(h, Start("busy", turn.prompt + 1))
  /\ UNCHANGED ledger

(* A request that ends in a tool call, and the tool's result. *)
CallTool(h) ==
  /\ session.live /\ turn.at = "working"
  /\ Tick
  /\ \E n \in Size :
       transcript' = transcript \o <<UsageRecord(turn.prompt, clock, n), UserRecord(turn.prompt, clock')>>
  /\ Launch(h, Start("beat", turn.prompt))
  /\ UNCHANGED <<turn, session, idle, context, base>>

EndTurn(h) ==
  /\ session.live /\ turn.at = "working"
  /\ Tick
  /\ \E n \in Size : turn' = [turn EXCEPT !.at = "rest", !.reply = UsageRecord(turn.prompt, clock', n)]
  /\ Launch(h, Start("stop", turn.prompt))
  /\ UNCHANGED <<transcript, ledger>>

WriteReply ==
  /\ turn.reply # None
  /\ transcript' = Flushed
  /\ turn' = [turn EXCEPT !.reply = None]
  /\ UNCHANGED <<clock, hooks, ledger>>

(* The process ends, and another one goes on with the same id: bye, and    *)
(* the hello that revives the row.                                         *)
Bye ==
  /\ session.live /\ turn.at = "rest"
  /\ session' = [session EXCEPT !.live = FALSE]
  /\ UNCHANGED <<clock, disk, hooks, idle, context, base>>

Hello ==
  /\ ~session.live /\ turn.reply = None
  /\ Tick
  /\ session' = [live |-> TRUE, inc |-> session.inc + 1, started |-> Second(clock')]
  /\ UNCHANGED <<disk, hooks, idle, context, base>>

-----------------------------------------------------------------------------
Goto(h, at) == hooks' = [hooks EXCEPT ![h].at = at]
Done(h) == hooks' = [hooks EXCEPT ![h] = [at |-> "none"]]

(* What one read of the transcript says of the turn it ends with: the      *)
(* newest request, and whether something newer still waits for its reply.  *)
TurnRead(hook) ==
  [hook EXCEPT !.usage = LastUsage, !.landed = Pending = None /\ LastUsage # None,
               !.fence = IF Pending # None THEN Pending ELSE LastUsage]

(* Stop: recordTurnEnd reads the transcript, then who the session is.  A   *)
(* turn that is over and done with records nothing; so may a file that     *)
(* cannot be read, whose mark is then neither dated nor fenced.            *)
StopRead(h) ==
  /\ hooks[h].at = "stop"
  /\ IF Superseded(hooks[h].prompt) THEN Done(h)
     ELSE \/ hooks' = [hooks EXCEPT ![h] = [TurnRead(@) EXCEPT !.at = "stop identity"]]
          \/ Goto(h, "stop mark")
  /\ UNCHANGED <<clock, disk, ledger>>

StopIdentity(h) ==
  /\ hooks[h].at = "stop identity"
  /\ IF session.live /\ hooks[h].fence # None /\ hooks[h].fence.at >= session.started
     THEN hooks' = [hooks EXCEPT ![h].inc = session.inc,
                     ![h].at = IF hooks[h].landed THEN "stop context" ELSE "stop base"]
     ELSE Goto(h, "stop mark")
  /\ UNCHANGED <<clock, disk, ledger>>

StopContext(h) ==
  /\ hooks[h].at = "stop context"
  /\ RecordContext(hooks[h].inc, hooks[h].usage, "stop")
  /\ Goto(h, "stop base")
  /\ UNCHANGED <<clock, disk, session, idle, base>>

StopBase(h) ==
  /\ hooks[h].at = "stop base"
  /\ RecordBase(hooks[h].inc, IF hooks[h].landed THEN hooks[h].usage.at ELSE clock, hooks[h].fence)
  /\ Goto(h, "stop mark")
  /\ UNCHANGED <<clock, disk, session, idle, context>>

(* StopTurn: one transaction that marks the session idle, or hands over    *)
(* its mail and keeps it from resting.                                     *)
StopMark(h) ==
  /\ hooks[h].at = "stop mark"
  /\ IF IdleFence(hooks[h].fence)
     THEN \/ idle' = [kind |-> "idle", inc |-> session.inc, of |-> hooks[h].fence]
          \/ idle' = None
     ELSE UNCHANGED idle
  /\ Done(h)
  /\ UNCHANGED <<clock, disk, session, context, base>>

(* Busy: retracts the mark, whoever's it is, then asks who the session is. *)
BusyClear(h) ==
  /\ hooks[h].at = "busy"
  /\ idle' = None
  /\ Goto(h, "busy identity")
  /\ UNCHANGED <<clock, disk, session, context, base>>

BusyIdentity(h) ==
  /\ hooks[h].at = "busy identity"
  /\ hooks' = [hooks EXCEPT ![h].at = IF session.live THEN "busy read" ELSE "busy observe",
                            ![h].inc = session.inc, ![h].started = session.started]
  /\ UNCHANGED <<clock, disk, ledger>>

(* A reply from before the registration is a predecessor's. *)
BusyRead(h) ==
  /\ hooks[h].at = "busy read"
  /\ IF LastUsage # None /\ LastUsage.at >= hooks[h].started
     THEN hooks' = [hooks EXCEPT ![h].at = "busy context", ![h].usage = LastUsage]
     ELSE Goto(h, "busy observe")
  /\ UNCHANGED <<clock, disk, ledger>>

BusyContext(h) ==
  /\ hooks[h].at = "busy context"
  /\ RecordContext(hooks[h].inc, hooks[h].usage, "busy")
  /\ Goto(h, "busy observe")
  /\ UNCHANGED <<clock, disk, session, idle, base>>

(* The observation, and the step it is worth. *)
BusyObserve(h) ==
  /\ hooks[h].at = "busy observe"
  /\ IF context # None /\ context.inc = hooks[h].inc /\ session.inc = hooks[h].inc
     THEN hooks' = [hooks EXCEPT ![h].at = "busy tell", ![h].usage = context.of]
     ELSE Done(h)
  /\ UNCHANGED <<clock, disk, ledger>>

BusyTell(h) ==
  /\ hooks[h].at = "busy tell"
  /\ context' = IF ClaimsStep(hooks[h].inc, hooks[h].usage.size)
                THEN [context EXCEPT !.step = StepOf(hooks[h].usage.size)] ELSE context
  /\ Done(h)
  /\ UNCHANGED <<clock, disk, session, idle, base>>

(* Beat: a tool call is a turn in progress.  The identity is read before   *)
(* the transcript.                                                         *)
BeatFrom(h) ==
  /\ hooks[h].at = "beat"
  /\ idle' = IF session.live THEN None ELSE idle
  /\ Goto(h, "beat identity")
  /\ UNCHANGED <<clock, disk, session, context, base>>

BeatIdentity(h) ==
  /\ hooks[h].at = "beat identity"
  /\ IF session.live
     THEN hooks' = [hooks EXCEPT ![h].at = "beat read", ![h].inc = session.inc]
     ELSE Done(h)
  /\ UNCHANGED <<clock, disk, ledger>>

BeatRead(h) ==
  /\ hooks[h].at = "beat read"
  /\ IF LastUsage = None THEN Done(h)
     ELSE hooks' = [hooks EXCEPT ![h].at = "beat context", ![h].usage = LastUsage]
  /\ UNCHANGED <<clock, disk, ledger>>

BeatContext(h) ==
  /\ hooks[h].at = "beat context"
  /\ RecordContext(hooks[h].inc, hooks[h].usage, "beat")
  /\ Done(h)
  /\ UNCHANGED <<clock, disk, session, idle, base>>

(* Any hook may be killed between two of its writes. *)
Killed(h) == hooks[h].at # "none" /\ Done(h) /\ UNCHANGED <<clock, disk, ledger>>

-----------------------------------------------------------------------------
Harness(h) == OpenTurn(h) \/ CallTool(h) \/ EndTurn(h)
Stop(h) == StopRead(h) \/ StopIdentity(h) \/ StopContext(h) \/ StopBase(h) \/ StopMark(h)
Busy(h) == BusyClear(h) \/ BusyIdentity(h) \/ BusyRead(h) \/ BusyContext(h) \/ BusyObserve(h) \/ BusyTell(h)
Beat(h) == BeatFrom(h) \/ BeatIdentity(h) \/ BeatRead(h) \/ BeatContext(h)

Next ==
  \/ WriteReply \/ Bye \/ Hello
  \/ \E h \in Hook : Harness(h) \/ Stop(h) \/ Busy(h) \/ Beat(h) \/ Killed(h)

Spec == Init /\ [][Next]_vars

-----------------------------------------------------------------------------
(* Whose turn a row is about, if it is about one. *)
IsOf(row, inc) == row.of = None \/ row.of.inc = inc

(* The idle mark, the base and the footprint that Stop and busy record are *)
(* about a turn of the incarnation they name, or about one that ended in   *)
(* the very second it registered in: recordTurnEnd, resampleFootprint and  *)
(* idleFence hold a hook that arrives after a bye and a hello to the time  *)
(* of its own turn.                                                        *)
InItsSecond(row) == row.inc = session.inc => Second(row.of.at) = session.started

ObservationsAreOwn ==
  \A row \in {idle, base, context} \ {None} :
    ("by" \in DOMAIN row => row.by # "beat") => (IsOf(row, row.inc) \/ InItsSecond(row))

(* No step stands as told beside a request under the declared size, though *)
(* it was computed from an older sample: the next crossing will be told    *)
(* (HandoffTell, and the reset in RecordContext).                          *)
StepIsEarned ==
  context # None => (context.of.size < HandoffAt => context.step = -1)

-----------------------------------------------------------------------------
(* What the code says of itself and does not keep: no run checks them,     *)
(* and the README tells what breaks each.                                  *)

(* store.go, MarkIdle: "A turn that ended before this incarnation          *)
(* registered cannot be this incarnation's turn, so fenceAt < started is   *)
(* refused."  The mark of a Stop that was fenced by a turn is that turn's. *)
StopIsFenced == idle # None => IsOf(idle, idle.inc)

(* cli.go, cmdBeat: "a beat racing a bye cannot revive anything and cannot *)
(* stamp its successor."                                                   *)
BeatStampsItsOwn ==
  context # None /\ context.by = "beat" => context.of.inc = context.inc
=============================================================================
