------------------------------ MODULE Backend ------------------------------
(***************************************************************************)
(* One harness worker and the adapter's end of its pipe: the backends of   *)
(* internal/harness/claude.go and codex.go.                                *)
(*                                                                         *)
(* The worker is external: it takes input, runs turns, asks for approvals  *)
(* and dies when it likes.  What it writes is read by one goroutine, which *)
(* keeps the backend's own state and queues events for the controller; the *)
(* pipe between the two is not modelled, so a frame is read as it is       *)
(* written.  A full event channel blocks that goroutine, and the worker    *)
(* with it.                                                                *)
(*                                                                         *)
(* A turn bears the name of the wake that started it (Claude's input UUID, *)
(* Codex's turn id).  Compaction, interrupts, sub-agents and the renewals  *)
(* of claims observed in the stream are left out.                          *)
(***************************************************************************)
EXTENDS Naturals, Sequences

CONSTANTS
  Wake,        \* the Buddy messages the worker may be woken for
  PromptId,    \* the ids a worker gives its approval requests
  NoTurn,
  MaxEvents    \* bound: the capacity of the event channel (64, 128 in the code)

ASSUME NoTurnAssumption == NoTurn \notin Wake
ASSUME MaxEventsAssumption == MaxEvents \in Nat

VARIABLES
  harness,   \* "claude" or "codex", for good
  worker,    \* the worker process: "none", "alive" or "gone"
  work,      \* what has become of the turn of each wake, in the worker
  prompts,   \* the approvals the worker is waiting for
  open,      \* the backend admits requests
  active,    \* the turn it believes outstanding
  idle,      \* Codex: its reported state is idle
  acked,     \* Claude: the outstanding input has been replayed
  finished,  \* Codex: the turns it has seen complete
  asked,     \* the approvals it would still answer
  seen,      \* the approval requests it has been sent
  events     \* the channel to the controller

native == <<worker, work, prompts>>
backend == <<open, active, idle, acked, finished, asked, seen, events>>
backendVars == <<harness, native, backend>>

Turn == Wake \cup {NoTurn}

(* An approval is known by its id and its turn (approvalKey). *)
Prompt == [id: PromptId, turn: Wake]

Event ==
  [kind: {"acknowledged", "busy", "idle", "ended", "disconnected"}, turn: Turn]
    \cup [kind: {"approval", "approval_resolved"}, prompt: Prompt]
    \cup [kind: {"result"}, turn: Turn, terminal: BOOLEAN]

About(kind, t) == [kind |-> kind, turn |-> t]
OfPrompt(kind, p) == [kind |-> kind, prompt |-> p]
ResultOf(t, terminal) == [kind |-> "result", turn |-> t, terminal |-> terminal]

BackendTypeOK ==
  /\ harness \in {"claude", "codex"}
  /\ worker \in {"none", "alive", "gone"}
  /\ work \in [Wake -> {"none", "queued", "running", "done", "killed"}]
  /\ prompts \subseteq Prompt
  /\ open \in BOOLEAN
  /\ active \in Turn
  /\ idle \in BOOLEAN
  /\ acked \in BOOLEAN
  /\ finished \subseteq Wake
  /\ asked \subseteq Prompt
  /\ seen \subseteq Prompt
  /\ events \in Seq(Event)
  /\ Len(events) <= MaxEvents

BackendInit ==
  /\ harness \in {"claude", "codex"}
  /\ worker = "none"
  /\ work = [m \in Wake |-> "none"]
  /\ prompts = {}
  /\ open = FALSE
  /\ active = NoTurn
  /\ idle = FALSE
  /\ acked = FALSE
  /\ finished = {}
  /\ asked = {}
  /\ seen = {}
  /\ events = <<>>

Claude == harness = "claude"
Codex == harness = "codex"
PromptsOf(t) == {p \in prompts : p.turn = t}

(* Mutant: it queues without limit. *)
EmitAlways(es) == events' = events \o es

(* The goroutine publishes what it read, or blocks until there is room. *)
Emit(es) ==
  /\ Len(events) + Len(es) <= MaxEvents
  /\ events' = events \o es

-----------------------------------------------------------------------------
(* The adapter launches a worker: a backend that knows of no turn. *)
Launch ==
  /\ worker' = "alive"
  /\ open' = TRUE
  /\ active' = NoTurn
  /\ idle' \in BOOLEAN
  /\ acked' = FALSE
  /\ finished' = {}
  /\ asked' = {}
  /\ seen' = {}
  /\ events' = <<>>
  /\ UNCHANGED <<work, prompts>>

(* The adapter dies, and what it held in memory with it. *)
Detach ==
  /\ open' = FALSE
  /\ active' = NoTurn
  /\ idle' = FALSE
  /\ acked' = FALSE
  /\ finished' = {}
  /\ asked' = {}
  /\ seen' = {}
  /\ events' = <<>>
  /\ UNCHANGED native

(* finish: admission closes before the loss is published. *)
CloseTransport ==
  /\ open' = FALSE
  /\ active' = NoTurn
  /\ asked' = {}
  /\ Emit(<<About("disconnected", NoTurn)>>)
  /\ UNCHANGED <<idle, acked, finished, seen>>

-----------------------------------------------------------------------------
(* The turn a wake would join; NoTurn when Send would refuse it. *)
Joins(m) ==
  IF Claude THEN IF active = NoTurn THEN m ELSE NoTurn
  ELSE IF idle THEN m ELSE active

SendRefuses(m) == ~open \/ Joins(m) = NoTurn

(* Claude reserves the one outstanding turn before it writes. *)
SendReserves(m) ==
  IF Claude
  THEN /\ active' = m
       /\ acked' = FALSE
       /\ UNCHANGED <<open, idle, finished, asked, seen, events>>
  ELSE UNCHANGED backend

(* The input reaches the worker: a turn of its own, or more of one it runs. *)
Arrives(m) ==
  /\ worker = "alive"
  /\ work' = [work EXCEPT ![Joins(m)] = IF @ = "none" THEN "queued" ELSE @]
  /\ UNCHANGED <<worker, prompts>>

(* Codex's reply names the turn, and may come after its completion. *)
SendLearns(t) ==
  IF Codex /\ t \notin finished
  THEN /\ active' = t
       /\ idle' = FALSE
       /\ UNCHANGED <<open, acked, finished, asked, seen, events>>
  ELSE UNCHANGED backend

ApproveRefuses(p) == ~open \/ p \notin asked

(* Approve reserves its one answer before it touches the pipe. *)
ApproveReserves(p) ==
  /\ asked' = asked \ {p}
  /\ UNCHANGED <<open, active, idle, acked, finished, seen, events>>

Answered(p) ==
  /\ prompts' = prompts \ {p}
  /\ UNCHANGED <<worker, work>>

-----------------------------------------------------------------------------
(* The worker takes an input up, one turn at a time.  A resumed Codex      *)
(* thread may go on with the turn its worker died in.                      *)
TakesUp(t) ==
  /\ worker = "alive"
  /\ \A u \in Wake : work[u] # "running"
  /\ work[t] \in IF Codex THEN {"queued", "killed"} ELSE {"queued"}
  /\ work' = [work EXCEPT ![t] = "running"]
  /\ UNCHANGED <<harness, worker, prompts>>
  /\ IF ~open THEN UNCHANGED backend
     ELSE IF Claude
     THEN IF active = t /\ ~acked
          THEN /\ acked' = TRUE
               /\ Emit(<<About("acknowledged", t), About("busy", t)>>)
               /\ UNCHANGED <<open, active, idle, finished, asked, seen>>
          ELSE UNCHANGED backend
     ELSE /\ active' = t
          /\ idle' = FALSE
          /\ Emit(<<About("busy", t)>>)
          /\ UNCHANGED <<open, acked, finished, asked, seen>>

(* It asks.  An id that named another request closes the transport.        *)
Asks(p) ==
  /\ worker = "alive"
  /\ work[p.turn] = "running"
  /\ p \notin seen
  /\ p \notin prompts
  /\ open /\ Claude => active = p.turn
  /\ prompts' = prompts \cup {p}
  /\ UNCHANGED <<harness, worker, work>>
  /\ IF ~open THEN UNCHANGED backend
     ELSE IF \E q \in seen : q.id = p.id THEN CloseTransport
     ELSE /\ asked' = asked \cup {p}
          /\ seen' = seen \cup {p}
          /\ Emit(<<OfPrompt("approval", p)>>)
          /\ UNCHANGED <<open, active, idle, acked, finished>>

(* It withdraws the question. *)
Withdraws(p) ==
  /\ worker = "alive"
  /\ p \in prompts
  /\ prompts' = prompts \ {p}
  /\ UNCHANGED <<harness, worker, work>>
  /\ IF open /\ p \in asked
     THEN /\ asked' = asked \ {p}
          /\ Emit(<<OfPrompt("approval_resolved", p)>>)
          /\ UNCHANGED <<open, active, idle, acked, finished, seen>>
     ELSE UNCHANGED backend

(* The turn ends, with or without the evidence of a terminal result.  A    *)
(* Claude result that does not name the outstanding input, and it alone,   *)
(* is published without a turn and frees nothing.                          *)
Finishes(t, terminal, named) ==
  /\ worker = "alive"
  /\ work[t] = "running"
  /\ work' = [work EXCEPT ![t] = "done"]
  /\ prompts' = prompts \ PromptsOf(t)
  /\ UNCHANGED <<harness, worker>>
  /\ IF ~open THEN UNCHANGED backend
     ELSE IF Claude
     THEN IF active = t /\ named
          THEN /\ active' = NoTurn
               /\ asked' = {}
               /\ Emit(<<ResultOf(t, terminal), About("idle", t)>>)
               /\ UNCHANGED <<open, idle, acked, finished, seen>>
          ELSE /\ Emit(<<ResultOf(NoTurn, terminal)>>)
               /\ UNCHANGED <<open, active, idle, acked, finished, asked, seen>>
     ELSE /\ finished' = finished \cup {t}
          /\ asked' = {p \in asked : p.turn # t}
          /\ IF active \in {NoTurn, t}
             THEN /\ active' = NoTurn
                  /\ idle' = TRUE
                  /\ Emit(<<ResultOf(t, terminal), About("idle", t)>>)
             ELSE /\ Emit(<<ResultOf(t, terminal)>>)
                  /\ UNCHANGED <<active, idle>>
          /\ UNCHANGED <<open, acked, seen>>

(* A Codex thread is archived between turns. *)
Archived ==
  /\ Codex
  /\ worker = "alive"
  /\ open
  /\ \A t \in Wake : work[t] \notin {"queued", "running"}
  /\ active' = NoTurn
  /\ idle' = FALSE
  /\ asked' = {}
  /\ Emit(<<About("ended", NoTurn)>>)
  /\ UNCHANGED <<harness, native, open, acked, finished, seen>>

(* The worker process ends, and the turn it was in with it. *)
WorkerDies ==
  /\ worker = "alive"
  /\ worker' = "gone"
  /\ work' = [t \in Wake |->
                IF work[t] \in {"queued", "running"} THEN "killed" ELSE work[t]]
  /\ prompts' = {}
  /\ UNCHANGED harness
  /\ IF open THEN CloseTransport ELSE UNCHANGED backend

WorkerStep ==
  \/ \E t \in Wake : TakesUp(t)
  \/ \E p \in Prompt : Asks(p) \/ Withdraws(p)
  \/ \E t \in Wake, terminal, named \in BOOLEAN : Finishes(t, terminal, named)
  \/ Archived
  \/ WorkerDies
=============================================================================
