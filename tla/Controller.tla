----------------------------- MODULE Controller -----------------------------
(***************************************************************************)
(* The controller of internal/harness/controller.go over one backend: it   *)
(* wakes the worker for a Buddy message, answers its approvals and reports *)
(* what it observed, and journals each of these before and after it acts,  *)
(* so that an adapter that dies anywhere is succeeded by one that knows    *)
(* what must not be done twice.                                            *)
(*                                                                         *)
(* The journal is kept as what NewController reads out of it: Replayed is  *)
(* one turn of its loop, applied as the row is written.  A row that fails  *)
(* to reach the disk may be there, be absent, or be torn, and a torn       *)
(* journal is never opened again.  A call holds the controller's lock from *)
(* its first effect to its last; `call` says how far it has come.          *)
(*                                                                         *)
(* Which processes may launch a worker is not decided here: a resume is    *)
(* taken to wait for the death of the previous worker.                     *)
(***************************************************************************)
EXTENDS Backend

CONSTANT MaxLives   \* bound: the adapters that own the journal in turn

ASSUME MaxLivesAssumption == MaxLives \in Nat

VARIABLES
  bound,         \* an adapter runs, and its worker is bound to the identity
  sent,          \* what it knows of the delivery of each wake
  approvals,     \* the pending approvals it lists
  approvalSent,  \* the approvals it answered, or may have
  state,         \* the activity of the worker: "observed" or "unknown"
  gap,           \* an event was lost since the worker was last at rest
  broken,        \* the journal failed under this adapter
  call,          \* the call that holds the lock
  journal,       \* the rows on disk, replayed
  lives,
  inputs,        \* how often each wake was written to the worker
  answers        \* how often each approval was answered

memory == <<sent, approvals, approvalSent, state, gap>>
history == <<inputs, answers>>
vars == <<backendVars, bound, memory, broken, call, journal, lives, history>>

Delivery == [state: {"none", "unknown", "delivered"}, turn: Turn]
NoDelivery == [state |-> "none", turn |-> NoTurn]
Intent == [state |-> "unknown", turn |-> NoTurn]

Recovery == {"none", "active", "uncertain", "result", "complete"}

Journal ==
  [started: BOOLEAN, torn: BOOLEAN, sent: [Wake -> Delivery],
   approvalSent: SUBSET Prompt, turns: [Turn -> Recovery], uncertain: BOOLEAN]

Call ==
  [op: {"none"}]
    \cup [op: {"send"}, wake: Wake, at: {"intent", "written", "refused"},
          delivery: Delivery]
    \cup [op: {"approve"}, prompt: Prompt, at: {"intent", "written", "refused"}]

NoCall == [op |-> "none"]

ControllerTypeOK ==
  /\ BackendTypeOK
  /\ bound \in BOOLEAN
  /\ sent \in [Wake -> Delivery]
  /\ approvals \subseteq Prompt
  /\ approvalSent \subseteq Prompt
  /\ state \in {"observed", "unknown"}
  /\ gap \in BOOLEAN
  /\ broken \in BOOLEAN
  /\ call \in Call
  /\ journal \in Journal
  /\ lives \in Nat
  /\ inputs \in [Wake -> Nat]
  /\ answers \in [Prompt -> Nat]

ControllerInit ==
  /\ BackendInit
  /\ bound = FALSE
  /\ sent = [m \in Wake |-> NoDelivery]
  /\ approvals = {}
  /\ approvalSent = {}
  /\ state = "unknown"
  /\ gap = FALSE
  /\ broken = FALSE
  /\ call = NoCall
  /\ journal = [started |-> FALSE, torn |-> FALSE,
                sent |-> [m \in Wake |-> NoDelivery], approvalSent |-> {},
                turns |-> [t \in Turn |-> "none"], uncertain |-> FALSE]
  /\ lives = 0
  /\ inputs = [m \in Wake |-> 0]
  /\ answers = [p \in Prompt |-> 0]

-----------------------------------------------------------------------------
(* claudeRecovery.observe, for one journalled event. *)
Recovered(turns, e) ==
  CASE e.kind \in {"acknowledged", "busy"} -> [turns EXCEPT ![e.turn] = "active"]
    [] e.kind \in {"approval", "approval_resolved"} ->
         [turns EXCEPT ![e.prompt.turn] = "active"]
    [] e.kind = "result" ->
         [turns EXCEPT ![e.turn] = IF e.terminal THEN "result" ELSE "uncertain"]
    [] e.kind = "idle" ->
         [turns EXCEPT ![e.turn] = IF @ = "result" THEN "complete" ELSE "uncertain"]
    [] OTHER -> turns

WakeRow(m, d) == [row |-> "wake", wake |-> m, delivery |-> d]
RefusedRow(m) == [row |-> "refused", wake |-> m]
AnswerRow(p, submitted) == [row |-> "answer", prompt |-> p, submitted |-> submitted]
EventRow(e) == [row |-> "event", event |-> e]
BoundRow == [row |-> "bound"]

(* What a successor makes of one more row.  A refusal that answers no open *)
(* intent makes the whole journal unreadable.                              *)
Replayed(j, r) ==
  CASE r.row = "bound" -> [j EXCEPT !.started = TRUE]
    [] r.row = "wake" -> [j EXCEPT !.sent[r.wake] = r.delivery]
    [] r.row = "refused" ->
         IF j.sent[r.wake] = Intent
         THEN [j EXCEPT !.sent[r.wake] = NoDelivery] ELSE [j EXCEPT !.torn = TRUE]
    [] r.row = "answer" ->
         [j EXCEPT !.approvalSent = IF r.submitted THEN @ \cup {r.prompt}
                                    ELSE @ \ {r.prompt},
                   !.turns[r.prompt.turn] = IF Claude THEN "active" ELSE @]
    [] r.row = "event" ->
         [j EXCEPT !.turns = IF Claude THEN Recovered(@, r.event) ELSE @,
                   !.uncertain = @ \/ r.event.kind = "ended"]

(* Mutant: the turns the journal speaks of are all there were. *)
ResumableTurns(j) ==
  /\ ~j.uncertain
  /\ \E t \in Wake : j.turns[t] = "complete"
  /\ j.turns[NoTurn] = "none"
  /\ \A t \in Wake : j.turns[t] \in {"none", "complete"}

(* claudeRecovery.resumable: each wake accepted, and each turn followed by *)
(* its terminal result and an idle worker.                                 *)
Resumable(j) ==
  /\ ~j.uncertain
  /\ \E m \in Wake : j.sent[m] # NoDelivery
  /\ j.turns[NoTurn] = "none"
  /\ \A t \in Wake : j.turns[t] \in {"none", "complete"}
  /\ \A m \in Wake : j.sent[m] # NoDelivery =>
       /\ j.sent[m].state = "delivered"
       /\ j.turns[j.sent[m].turn] = "complete"

(* persist writes one row and syncs it; the first failure is the last row. *)
Persists(r) ==
  /\ journal' = Replayed(journal, r)
  /\ UNCHANGED broken

PersistFails(r) ==
  /\ journal' \in {journal, Replayed(journal, r), [journal EXCEPT !.torn = TRUE]}
  /\ broken' = TRUE

Persist(r) == Persists(r) \/ PersistFails(r)

(* receipt's pending_approval. *)
PendingApproval ==
  IF gap \/ (state = "unknown" /\ approvals = {}) THEN "unknown"
  ELSE IF approvals # {} THEN "observed"
  ELSE "observed_absent"

-----------------------------------------------------------------------------
(* Mutant: the answers given before are not read back. *)
BindForgets ==
  /\ lives < MaxLives
  /\ lives' = lives + 1
  /\ bound' = TRUE
  /\ sent' = journal.sent
  /\ approvalSent' = {}
  /\ approvals' = {}
  /\ state' = "unknown"
  /\ gap' = FALSE
  /\ call' = NoCall
  /\ Launch
  /\ UNCHANGED <<harness, history>>

(* A controller begins with what its journal says and no observation. *)
Bind ==
  /\ lives < MaxLives
  /\ lives' = lives + 1
  /\ bound' = TRUE
  /\ sent' = journal.sent
  /\ approvalSent' = journal.approvalSent
  /\ approvals' = {}
  /\ state' = "unknown"
  /\ gap' = FALSE
  /\ call' = NoCall
  /\ Launch
  /\ UNCHANGED <<harness, history>>

Start ==
  /\ ~bound /\ ~broken
  /\ worker = "none"
  /\ ~journal.started /\ ~journal.torn
  /\ Persist(BoundRow)
  /\ Bind

Resume ==
  /\ ~bound /\ ~broken
  /\ worker = "gone"
  /\ journal.started /\ ~journal.torn
  /\ Claude => Resumable(journal)
  /\ Persist(BoundRow)
  /\ Bind

(* The adapter dies between any two steps, or closes; the worker may live. *)
Dies ==
  /\ bound
  /\ bound' = FALSE
  /\ broken' = FALSE
  /\ sent' = [m \in Wake |-> NoDelivery]
  /\ approvalSent' = {}
  /\ approvals' = {}
  /\ state' = "unknown"
  /\ gap' = FALSE
  /\ call' = NoCall
  /\ Detach
  /\ UNCHANGED <<harness, journal, lives, history>>

-----------------------------------------------------------------------------
(* Handle "send": nothing is written before the intent is on disk. *)
SendIntends(m) ==
  /\ bound /\ ~broken
  /\ call = NoCall
  /\ sent[m] = NoDelivery
  /\ \/ /\ Persists(WakeRow(m, Intent))
        /\ sent' = [sent EXCEPT ![m] = Intent]
        /\ call' = [op |-> "send", wake |-> m, at |-> "intent", delivery |-> Intent]
     \/ /\ PersistFails(WakeRow(m, Intent))
        /\ UNCHANGED <<sent, call>>
  /\ UNCHANGED <<backendVars, bound, approvals, approvalSent, state, gap, lives,
                 history>>

Sending(at) == bound /\ call.op = "send" /\ call.at = at

(* Mutant: a write that timed out counts as a refusal. *)
SendRefusedLate ==
  /\ bound
  /\ call.op = "send"
  /\ call.at \in {"intent", "written"}
  /\ call' = [call EXCEPT !.at = "refused"]
  /\ UNCHANGED <<backendVars, bound, memory, broken, journal, lives, history>>

(* Before the pipe is touched: the backend refuses, or the call has ended. *)
SendRefused ==
  /\ Sending("intent")
  /\ call' = [call EXCEPT !.at = "refused"]
  /\ UNCHANGED <<backendVars, bound, memory, broken, journal, lives, history>>

(* The write: whole, or cut short with the input perhaps delivered. *)
SendWrites ==
  /\ Sending("intent")
  /\ ~SendRefuses(call.wake)
  /\ SendReserves(call.wake)
  /\ \/ /\ Arrives(call.wake)
        /\ inputs' = [inputs EXCEPT ![call.wake] = @ + 1]
     \/ UNCHANGED <<native, inputs>>
  /\ call' = [call EXCEPT
                !.at = "written",
                !.delivery.turn = IF Claude THEN call.wake ELSE NoTurn]
  /\ UNCHANGED <<harness, bound, memory, broken, journal, lives, answers>>

(* Mutant: a whole write is taken for a delivery. *)
SendPresumed(t) == t = call.wake

(* The worker's word that it has the input, if it ever comes: for Claude   *)
(* the replay of the input, for Codex a reply that names the turn.         *)
SendAccepted(t) ==
  /\ inputs[call.wake] > 0
  /\ IF Claude THEN t = call.wake /\ work[t] \notin {"none", "queued"}
     ELSE work[t] # "none"

(* sent takes the delivery whether or not its row can be written. *)
SendEnds(d) ==
  /\ sent' = [sent EXCEPT ![call.wake] = d]
  /\ Persist(WakeRow(call.wake, d))
  /\ call' = NoCall
  /\ UNCHANGED <<harness, native, bound, approvals, approvalSent, state, gap,
                 lives, history>>

SendReplied(t) ==
  /\ Sending("written")
  /\ open
  /\ SendAccepted(t)
  /\ SendLearns(t)
  /\ SendEnds([state |-> "delivered", turn |-> t])

(* Mutant: a wake that timed out is given back. *)
SendGivesUp ==
  /\ Sending("written")
  /\ SendEnds(NoDelivery)
  /\ UNCHANGED backend

(* A timeout, a lost connection or a rejection: the outcome stays unknown. *)
SendUncertain ==
  /\ Sending("written")
  /\ SendEnds(call.delivery)
  /\ UNCHANGED backend

(* A refusal releases the reservation once it is on disk. *)
SendReleases ==
  /\ Sending("refused")
  /\ \/ /\ Persists(RefusedRow(call.wake))
        /\ sent' = [sent EXCEPT ![call.wake] = NoDelivery]
     \/ /\ PersistFails(RefusedRow(call.wake))
        /\ UNCHANGED sent
  /\ call' = NoCall
  /\ UNCHANGED <<backendVars, bound, approvals, approvalSent, state, gap, lives,
                 history>>

-----------------------------------------------------------------------------
(* OperatorApprove: one answer, and its intent on disk first. *)
ApproveIntends(p) ==
  /\ bound /\ ~broken
  /\ call = NoCall
  /\ p \in approvals \ approvalSent
  /\ \/ /\ Persists(AnswerRow(p, TRUE))
        /\ approvalSent' = approvalSent \cup {p}
        /\ call' = [op |-> "approve", prompt |-> p, at |-> "intent"]
     \/ /\ PersistFails(AnswerRow(p, TRUE))
        /\ UNCHANGED <<approvalSent, call>>
  /\ UNCHANGED <<backendVars, bound, sent, approvals, state, gap, lives, history>>

Approving(at) == bound /\ call.op = "approve" /\ call.at = at

ApproveRefused ==
  /\ Approving("intent")
  /\ approvalSent' = approvalSent \ {call.prompt}
  /\ call' = [call EXCEPT !.at = "refused"]
  /\ UNCHANGED <<backendVars, bound, sent, approvals, state, gap, broken, journal,
                 lives, history>>

ApproveWrites ==
  /\ Approving("intent")
  /\ ~ApproveRefuses(call.prompt)
  /\ ApproveReserves(call.prompt)
  /\ \/ /\ Answered(call.prompt)
        /\ answers' = [answers EXCEPT ![call.prompt] = @ + 1]
     \/ UNCHANGED <<native, answers>>
  /\ call' = [call EXCEPT !.at = "written"]
  /\ UNCHANGED <<harness, bound, memory, broken, journal, lives, inputs>>

ApproveEnds ==
  /\ \/ /\ Approving("written")
        /\ Persist(AnswerRow(call.prompt, TRUE))
        /\ approvals' = approvals \ {call.prompt}
        /\ state' = "unknown"
     \/ /\ Approving("refused")
        /\ Persist(AnswerRow(call.prompt, FALSE))
        /\ UNCHANGED <<approvals, state>>
  /\ call' = NoCall
  /\ UNCHANGED <<backendVars, bound, sent, approvalSent, gap, lives, history>>

-----------------------------------------------------------------------------
(* observe, past its two ledger calls. *)
ApprovalsAfter(e) ==
  CASE e.kind \in {"idle", "ended", "disconnected"} -> {}
    [] e.kind = "approval" ->
         IF e.prompt \in approvalSent THEN approvals
         ELSE {a \in approvals : a.id # e.prompt.id} \cup {e.prompt}
    [] e.kind = "approval_resolved" -> {a \in approvals : a.id # e.prompt.id}
    [] OTHER -> approvals

StateAfter(e) ==
  CASE e.kind \in {"busy", "idle", "ended"} -> "observed"
    [] e.kind = "approval" ->
         IF e.prompt \in approvalSent THEN "unknown" ELSE "observed"
    [] e.kind = "approval_resolved" ->
         IF ApprovalsAfter(e) = {} THEN "unknown" ELSE state
    [] e.kind = "disconnected" -> "unknown"
    [] OTHER -> state

(* Only a worker at rest says that nothing is pending. *)
GapAfter(e) == gap /\ e.kind \notin {"idle", "ended"}

NextEvent ==
  /\ bound
  /\ call = NoCall
  /\ events # <<>>
  /\ events' = Tail(events)
  /\ UNCHANGED <<harness, native, open, active, idle, acked, finished, asked, seen,
                 bound, sent, approvalSent, call, lives, history>>

Observe ==
  /\ NextEvent
  /\ ~broken
  /\ Persists(EventRow(Head(events)))
  /\ approvals' = ApprovalsAfter(Head(events))
  /\ state' = StateAfter(Head(events))
  /\ gap' = GapAfter(Head(events))

(* Mutant: a lost event is reported, and the receipts go on as before. *)
ObserveFailsQuietly ==
  /\ NextEvent
  /\ UNCHANGED <<approvals, state, gap, broken, journal>>

(* The event is not recorded: the journal is broken or breaks on it, or    *)
(* the ledger does not answer in time.                                     *)
ObserveFails ==
  /\ NextEvent
  /\ gap' = TRUE
  /\ state' = "unknown"
  /\ \/ UNCHANGED <<approvals, broken, journal>>
     \/ /\ ~broken
        /\ PersistFails(EventRow(Head(events)))
        /\ approvals' = ApprovalsAfter(Head(events))

(* The worker goes its own way. *)
WorkerMoves ==
  /\ WorkerStep
  /\ UNCHANGED <<bound, memory, broken, call, journal, lives, history>>

Next ==
  \/ Start \/ Resume \/ Dies
  \/ \E m \in Wake : SendIntends(m)
  \/ SendRefused \/ SendWrites \/ SendUncertain \/ SendReleases
  \/ \E t \in Wake : SendReplied(t)
  \/ \E p \in Prompt : ApproveIntends(p)
  \/ ApproveRefused \/ ApproveWrites \/ ApproveEnds
  \/ Observe \/ ObserveFails
  \/ WorkerMoves

Spec == ControllerInit /\ [][Next]_vars

-----------------------------------------------------------------------------
(* A wake reaches the worker once, whatever adapter sends it, and however  *)
(* often it is asked to (controller.go: "An uncertain wake is never        *)
(* silently retried after reconnect and cannot duplicate assigned work").  *)
WakeOnce == \A m \in Wake : inputs[m] <= 1

(* An approval is answered once, also when the worker asks again after a   *)
(* recovery (approvalSent).                                                *)
AnswerOnce == \A p \in Prompt : answers[p] <= 1

(* What the worker may have received is on disk, or nobody will ever read  *)
(* the journal again.                                                      *)
JournalKnows ==
  ~journal.torn =>
    /\ \A m \in Wake : inputs[m] > 0 => journal.sent[m] # NoDelivery
    /\ \A p \in Prompt : answers[p] > 0 => p \in journal.approvalSent

(* A receipt that says no approval is pending is right about every one the *)
(* worker waits for, but for those whose event, or the loss of the         *)
(* transport that cut them off, is still in the channel (F-11).            *)
AbsenceIsTrue ==
  bound /\ PendingApproval = "observed_absent" =>
    \A p \in prompts :
      \E i \in DOMAIN events : events[i] \in
        {OfPrompt("approval", p), About("disconnected", NoTurn)}

(* A wake reported delivered was written, and its turn is one the worker   *)
(* has taken up or will.                                                   *)
DeliveredIsTrue ==
  \A m \in Wake : sent[m].state = "delivered" =>
    inputs[m] > 0 /\ work[sent[m].turn] # "none"

(* Nothing reaches the worker twice or behind the journal's back, through  *)
(* a channel that keeps its bound.                                         *)
NothingTwice == ControllerTypeOK /\ WakeOnce /\ AnswerOnce /\ JournalKnows

(* What a receipt says of approvals and deliveries is so.                  *)
ReceiptsAreTrue == AbsenceIsTrue /\ DeliveredIsTrue

(* No turn of a Claude worker is left unfinished when its journal admits a *)
(* successor (claude_recovery.go: "Starting a new stream must not forget   *)
(* unfinished work").                                                      *)
ResumeOnlyFinished ==
  Claude /\ ~journal.torn /\ Resumable(journal) =>
    \A t \in Wake : work[t] \in {"none", "done"}
=============================================================================
