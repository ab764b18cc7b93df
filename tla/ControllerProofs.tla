-------------------------- MODULE ControllerProofs --------------------------
(***************************************************************************)
(* Proofs about the module Controller, for every value of its constants:   *)
(* any number of wakes, approvals, adapters and crashes.                   *)
(***************************************************************************)
EXTENDS Controller, Integers, SequenceTheorems, TLAPS

(* What each kind of row leaves in the journal that a successor reads.     *)
LEMMA RowsRead ==
  ASSUME NEW j \in Journal, NEW m \in Wake, NEW d, NEW p \in Prompt, NEW e
  PROVE  /\ Replayed(j, BoundRow) = [j EXCEPT !.started = TRUE]
         /\ Replayed(j, WakeRow(m, d)) = [j EXCEPT !.sent[m] = d]
         /\ j.sent[m] = Intent =>
              Replayed(j, RefusedRow(m)) = [j EXCEPT !.sent[m] = NoDelivery]
         /\ j.sent[m] # Intent =>
              Replayed(j, RefusedRow(m)) = [j EXCEPT !.torn = TRUE]
         /\ Replayed(j, EventRow(e)).sent = j.sent
         /\ Replayed(j, EventRow(e)).approvalSent = j.approvalSent
         /\ Replayed(j, EventRow(e)).torn = j.torn
BY DEF Replayed, BoundRow, WakeRow, RefusedRow, EventRow, Journal

(* An answer row adds its approval to the answered ones, or takes it out.  *)
LEMMA AnswersRead ==
  ASSUME NEW j \in Journal, NEW p \in Prompt, NEW submitted \in BOOLEAN
  PROVE  /\ Replayed(j, AnswerRow(p, submitted)).approvalSent =
              IF submitted THEN j.approvalSent \cup {p} ELSE j.approvalSent \ {p}
         /\ Replayed(j, AnswerRow(p, submitted)).sent = j.sent
         /\ Replayed(j, AnswerRow(p, submitted)).torn = j.torn
BY DEF Replayed, AnswerRow, Journal

(* The recovery state keeps its type over any event. *)
LEMMA RecoveredType ==
  ASSUME NEW turns \in [Turn -> Recovery], NEW e \in Event
  PROVE  Recovered(turns, e) \in [Turn -> Recovery]
BY DEF Recovered, Recovery, Event

(* The rows the controller writes keep the journal a journal. *)
LEMMA ReplayedType ==
  ASSUME NEW j \in Journal, NEW m \in Wake, NEW d \in Delivery,
         NEW p \in Prompt, NEW b \in BOOLEAN, NEW e \in Event
  PROVE  /\ Replayed(j, BoundRow) \in Journal
         /\ Replayed(j, WakeRow(m, d)) \in Journal
         /\ Replayed(j, RefusedRow(m)) \in Journal
         /\ Replayed(j, AnswerRow(p, b)) \in Journal
         /\ Replayed(j, EventRow(e)) \in Journal
<1>1. Replayed(j, BoundRow) \in Journal
  BY DEF Replayed, BoundRow, Journal
<1>2. Replayed(j, WakeRow(m, d)) \in Journal
  BY RowsRead DEF Journal
<1>3. Replayed(j, RefusedRow(m)) \in Journal
  <2>1. NoDelivery \in Delivery
    BY DEF NoDelivery, Delivery, Turn
  <2>2. QED  BY <2>1 DEF Replayed, RefusedRow, Journal
<1>4. Replayed(j, AnswerRow(p, b)) \in Journal
  BY DEF Replayed, AnswerRow, Journal, Prompt, Recovery, Turn
<1>5. Replayed(j, EventRow(e)) \in Journal
  BY RecoveredType DEF Replayed, EventRow, Journal
<1>6. QED  BY <1>1, <1>2, <1>3, <1>4, <1>5

(* What persist does to a journal is one row, none, or a torn one. *)
LEMMA PersistType ==
  ASSUME journal \in Journal, broken \in BOOLEAN,
         NEW r, Replayed(journal, r) \in Journal, Persist(r)
  PROVE  journal' \in Journal /\ broken' \in BOOLEAN
<1>1. [journal EXCEPT !.torn = TRUE] \in Journal
  BY DEF Journal
<1>2. QED  BY <1>1 DEF Persist, Persists, PersistFails

(* The events the backend publishes are events. *)
LEMMA EventTypes ==
  /\ \A t \in Turn, k \in {"acknowledged", "busy", "idle", "ended", "disconnected"} :
       About(k, t) \in Event
  /\ \A p \in Prompt, k \in {"approval", "approval_resolved"} : OfPrompt(k, p) \in Event
  /\ \A t \in Turn, b \in BOOLEAN : ResultOf(t, b) \in Event
BY DEF About, OfPrompt, ResultOf, Event

(* The channel keeps its type and its bound. *)
LEMMA EmitType ==
  ASSUME events \in Seq(Event), NEW es \in Seq(Event), Emit(es)
  PROVE  events' \in Seq(Event) /\ Len(events') <= MaxEvents
BY DEF Emit

(* The empty channel is a channel. *)
LEMMA EmptyChannel == <<>> \in Seq(Event) /\ Len(<<>>) <= MaxEvents
<1>1. <<>> \in Seq(Event) /\ Len(<<>>) = 0
  OBVIOUS
<1>2. 0 <= MaxEvents
  BY MaxEventsAssumption
<1>3. QED  BY <1>1, <1>2

(* Closing the transport keeps the type of the backend. *)
LEMMA CloseType ==
  ASSUME BackendTypeOK, CloseTransport, worker' \in {"none", "alive", "gone"},
         work' \in [Wake -> {"none", "queued", "running", "done", "killed"}],
         prompts' \subseteq Prompt, UNCHANGED harness
  PROVE  BackendTypeOK'
<1>1. <<About("disconnected", NoTurn)>> \in Seq(Event)
  BY EventTypes DEF Turn
<1>2. events' \in Seq(Event) /\ Len(events') <= MaxEvents
  BY <1>1, EmitType DEF CloseTransport, BackendTypeOK
<1>3. QED  BY <1>2 DEF CloseTransport, BackendTypeOK, Turn

(* Whatever the worker does, the backend keeps its type. *)
LEMMA WorkerType ==
  ASSUME BackendTypeOK, WorkerStep
  PROVE  BackendTypeOK'
<1> USE DEF BackendTypeOK, Turn
<1>1. ASSUME NEW t \in Wake, TakesUp(t) PROVE BackendTypeOK'
  <2>1. /\ <<About("acknowledged", t), About("busy", t)>> \in Seq(Event)
        /\ <<About("busy", t)>> \in Seq(Event)
    BY EventTypes
  <2>2. \/ UNCHANGED events
        \/ Emit(<<About("acknowledged", t), About("busy", t)>>)
        \/ Emit(<<About("busy", t)>>)
    BY <1>1 DEF TakesUp, backend
  <2>3. events' \in Seq(Event) /\ Len(events') <= MaxEvents
    BY <2>1, <2>2, EmitType
  <2>4. QED  BY <1>1, <2>3 DEF TakesUp, backend
<1>2. ASSUME NEW p \in Prompt, Asks(p) PROVE BackendTypeOK'
  <2>1. <<OfPrompt("approval", p)>> \in Seq(Event)
    BY EventTypes
  <2>2. CASE open /\ \E q \in seen : q.id = p.id
    BY <1>2, <2>2, CloseType DEF Asks
  <2>3. CASE ~open
    BY <1>2, <2>3 DEF Asks, backend
  <2>4. CASE open /\ ~\E q \in seen : q.id = p.id
    <3>1. events' \in Seq(Event) /\ Len(events') <= MaxEvents
      BY <1>2, <2>1, <2>4, EmitType DEF Asks
    <3>2. QED  BY <1>2, <2>4, <3>1 DEF Asks
  <2>5. QED  BY <2>2, <2>3, <2>4
<1>3. ASSUME NEW p \in Prompt, Withdraws(p) PROVE BackendTypeOK'
  <2>1. <<OfPrompt("approval_resolved", p)>> \in Seq(Event)
    BY EventTypes
  <2>2. UNCHANGED events \/ Emit(<<OfPrompt("approval_resolved", p)>>)
    BY <1>3 DEF Withdraws, backend
  <2>3. events' \in Seq(Event) /\ Len(events') <= MaxEvents
    BY <2>1, <2>2, EmitType
  <2>4. QED  BY <1>3, <2>3 DEF Withdraws, backend
<1>4. ASSUME NEW t \in Wake, NEW b \in BOOLEAN, NEW named \in BOOLEAN,
             Finishes(t, b, named)
      PROVE  BackendTypeOK'
  <2>1. /\ <<ResultOf(t, b), About("idle", t)>> \in Seq(Event)
        /\ <<ResultOf(NoTurn, b)>> \in Seq(Event)
        /\ <<ResultOf(t, b)>> \in Seq(Event)
    <3>1. ResultOf(t, b) \in Event /\ ResultOf(NoTurn, b) \in Event
      BY EventTypes
    <3>2. About("idle", t) \in Event
      BY EventTypes
    <3>3. QED  BY <3>1, <3>2
  <2>2. \/ UNCHANGED events
        \/ Emit(<<ResultOf(t, b), About("idle", t)>>)
        \/ Emit(<<ResultOf(NoTurn, b)>>)
        \/ Emit(<<ResultOf(t, b)>>)
    BY <1>4 DEF Finishes, backend
  <2>3. events' \in Seq(Event) /\ Len(events') <= MaxEvents
    BY <2>1, <2>2, EmitType
  <2>4. QED  BY <1>4, <2>3 DEF Finishes, backend, PromptsOf
<1>5. CASE Archived
  <2>1. <<About("ended", NoTurn)>> \in Seq(Event)
    BY EventTypes
  <2>2. events' \in Seq(Event) /\ Len(events') <= MaxEvents
    BY <1>5, <2>1, EmitType DEF Archived
  <2>3. QED  BY <1>5, <2>2 DEF Archived, native
<1>6. CASE WorkerDies
  <2>1. CASE open
    <3>1. /\ worker' \in {"none", "alive", "gone"}
          /\ work' \in [Wake -> {"none", "queued", "running", "done", "killed"}]
          /\ prompts' \subseteq Prompt
      BY <1>6 DEF WorkerDies
    <3>2. QED  BY <1>6, <2>1, <3>1, CloseType DEF WorkerDies
  <2>2. CASE ~open
    BY <1>6, <2>2 DEF WorkerDies, backend
  <2>3. QED  BY <2>1, <2>2
<1>7. QED  BY <1>1, <1>2, <1>3, <1>4, <1>5, <1>6 DEF WorkerStep

-----------------------------------------------------------------------------
(* The deliveries and the calls the controller makes are of their type. *)
LEMMA DeliveryTypes ==
  /\ NoDelivery \in Delivery
  /\ Intent \in Delivery
  /\ \A t \in Wake : [state |-> "delivered", turn |-> t] \in Delivery
BY DEF NoDelivery, Intent, Delivery, Turn

(* A new adapter's memory has the type of what it read in the journal. *)
LEMMA BindType ==
  ASSUME ControllerTypeOK, Bind, Persist(BoundRow)
  PROVE  ControllerTypeOK'
<1>1. Replayed(journal, BoundRow) \in Journal
  BY DEF Replayed, BoundRow, Journal, ControllerTypeOK
<1>2. journal' \in Journal /\ broken' \in BOOLEAN
  BY <1>1, PersistType DEF ControllerTypeOK
<1>3. BackendTypeOK'
  BY EmptyChannel
     DEF Bind, Launch, BackendTypeOK, ControllerTypeOK, Turn
<1>4. journal.sent \in [Wake -> Delivery] /\ journal.approvalSent \subseteq Prompt
  BY DEF ControllerTypeOK, Journal
<1>5. lives' \in Nat
  BY DEF ControllerTypeOK, Bind
<1>6. NoCall \in Call
  BY DEF NoCall, Call
<1>7. QED
  BY <1>2, <1>3, <1>4, <1>5, <1>6 DEF ControllerTypeOK, Bind, history

(* The initial state has the type. *)
LEMMA InitType == ControllerInit => ControllerTypeOK
<1> SUFFICES ASSUME ControllerInit PROVE ControllerTypeOK
  OBVIOUS
<1>1. BackendTypeOK
  BY EmptyChannel DEF ControllerInit, BackendInit, BackendTypeOK, Turn
<1>2. journal \in Journal
  <2>1. [m \in Wake |-> NoDelivery] \in [Wake -> Delivery]
    BY DeliveryTypes
  <2>2. [t \in Turn |-> "none"] \in [Turn -> Recovery]
    BY DEF Recovery
  <2>3. QED  BY <2>1, <2>2 DEF ControllerInit, Journal
<1>3. NoCall \in Call
  BY DEF NoCall, Call
<1>4. QED
  BY <1>1, <1>2, <1>3, DeliveryTypes DEF ControllerInit, ControllerTypeOK

(* Every step keeps the type. *)
LEMMA StepType ==
  ASSUME ControllerTypeOK, [Next]_vars
  PROVE  ControllerTypeOK'
<1> USE DEF ControllerTypeOK
<1>0. NoCall \in Call /\ journal \in Journal /\ broken \in BOOLEAN
  <2>1. NoCall \in Call
    BY DEF NoCall, Call
  <2>2. QED  BY <2>1
<1>1. CASE Start
  BY <1>1, BindType DEF Start
<1>2. CASE Resume
  BY <1>2, BindType DEF Resume
<1>3. CASE Dies
  <2>1. BackendTypeOK'
    BY <1>3, EmptyChannel DEF Dies, Detach, native, BackendTypeOK, Turn
  <2>2. QED  BY <1>0, <1>3, <2>1, DeliveryTypes DEF Dies, history
<1>4. ASSUME NEW m \in Wake, SendIntends(m) PROVE ControllerTypeOK'
  <2>1. Replayed(journal, WakeRow(m, Intent)) \in Journal
    <3>1. Intent \in Delivery
      BY DeliveryTypes
    <3>2. QED  BY <1>0, <3>1 DEF Replayed, WakeRow, Journal
  <2>2. journal' \in Journal /\ broken' \in BOOLEAN
    BY <1>0, <1>4, <2>1, PersistType DEF SendIntends, Persist
  <2>3. [op |-> "send", wake |-> m, at |-> "intent", delivery |-> Intent] \in Call
    BY DeliveryTypes DEF Call
  <2>4. sent' \in [Wake -> Delivery] /\ call' \in Call
    BY <1>4, <2>3, DeliveryTypes DEF SendIntends
  <2>5. BackendTypeOK'
    BY <1>4 DEF SendIntends, backendVars, backend, native, BackendTypeOK
  <2>6. QED  BY <1>4, <2>2, <2>4, <2>5 DEF SendIntends, history
<1>5. CASE SendRefused
  <2>1. call' \in Call
    BY <1>5 DEF SendRefused, Sending, Call
  <2>2. QED
    BY <1>5, <2>1
       DEF SendRefused, backendVars, backend, native, BackendTypeOK, memory, history
<1>6. CASE SendWrites
  <2>1. call.wake \in Wake /\ call.delivery \in Delivery
    BY <1>6 DEF SendWrites, Sending, Call
  <2>2. call' \in Call
    BY <1>6, <2>1 DEF SendWrites, Sending, Call, Delivery, Turn
  <2>3. inputs' \in [Wake -> Nat]
    BY <1>6, <2>1 DEF SendWrites
  <2>4. BackendTypeOK'
    BY <1>6, <2>1 DEF SendWrites, SendReserves, Arrives, backend, native,
                      BackendTypeOK, Turn
  <2>5. QED  BY <1>6, <2>2, <2>3, <2>4 DEF SendWrites, memory
<1>7. ASSUME NEW t \in Wake, SendReplied(t) PROVE ControllerTypeOK'
  <2>1. call.wake \in Wake
    BY <1>7 DEF SendReplied, Sending, Call
  <2>2. [state |-> "delivered", turn |-> t] \in Delivery
    BY DeliveryTypes
  <2>3. BackendTypeOK'
    BY <1>7 DEF SendReplied, SendLearns, SendEnds, backend, native, BackendTypeOK, Turn
  <2> DEFINE d == [state |-> "delivered", turn |-> t]
  <2>4. Replayed(journal, WakeRow(call.wake, d)) \in Journal
    BY <1>0, <2>1, <2>2 DEF Replayed, WakeRow, Journal
  <2>5. journal' \in Journal /\ broken' \in BOOLEAN
    BY <1>0, <1>7, <2>4, PersistType DEF SendReplied, SendEnds
  <2>6. QED
    BY <1>0, <1>7, <2>1, <2>2, <2>3, <2>5 DEF SendReplied, SendEnds, history
<1>8. CASE SendUncertain
  <2>1. call.wake \in Wake /\ call.delivery \in Delivery
    BY <1>8 DEF SendUncertain, Sending, Call
  <2>2. Replayed(journal, WakeRow(call.wake, call.delivery)) \in Journal
    BY <1>0, <2>1 DEF Replayed, WakeRow, Journal
  <2>3. journal' \in Journal /\ broken' \in BOOLEAN
    BY <1>0, <1>8, <2>2, PersistType DEF SendUncertain, SendEnds
  <2>4. BackendTypeOK'
    BY <1>8 DEF SendUncertain, SendEnds, backend, native, BackendTypeOK
  <2>5. QED
    BY <1>0, <1>8, <2>1, <2>3, <2>4 DEF SendUncertain, SendEnds, history
<1>9. CASE SendReleases
  <2>1. call.wake \in Wake
    BY <1>9 DEF SendReleases, Sending, Call
  <2>2. Replayed(journal, RefusedRow(call.wake)) \in Journal
    BY <1>0, <2>1, DeliveryTypes DEF Replayed, RefusedRow, Journal
  <2>3. journal' \in Journal /\ broken' \in BOOLEAN
    BY <1>0, <1>9, <2>2, PersistType DEF SendReleases, Persist
  <2>4. BackendTypeOK'
    BY <1>9 DEF SendReleases, backendVars, backend, native, BackendTypeOK
  <2>5. QED
    BY <1>0, <1>9, <2>1, <2>3, <2>4, DeliveryTypes DEF SendReleases, history
<1>10. ASSUME NEW p \in Prompt, ApproveIntends(p) PROVE ControllerTypeOK'
  <2>1. Replayed(journal, AnswerRow(p, TRUE)) \in Journal
    BY <1>0 DEF Replayed, AnswerRow, Journal, Prompt, Recovery, Turn
  <2>2. journal' \in Journal /\ broken' \in BOOLEAN
    BY <1>0, <1>10, <2>1, PersistType DEF ApproveIntends, Persist
  <2>3. [op |-> "approve", prompt |-> p, at |-> "intent"] \in Call
    BY DEF Call
  <2>4. BackendTypeOK'
    BY <1>10 DEF ApproveIntends, backendVars, backend, native, BackendTypeOK
  <2>5. QED  BY <1>10, <2>2, <2>3, <2>4 DEF ApproveIntends, history
<1>11. CASE ApproveRefused
  <2>1. call' \in Call
    BY <1>11 DEF ApproveRefused, Approving, Call
  <2>2. QED
    BY <1>11, <2>1
       DEF ApproveRefused, backendVars, backend, native, BackendTypeOK, history
<1>12. CASE ApproveWrites
  <2>1. call.prompt \in Prompt /\ call' \in Call
    BY <1>12 DEF ApproveWrites, Approving, Call
  <2>2. answers' \in [Prompt -> Nat]
    BY <1>12, <2>1 DEF ApproveWrites
  <2>3. BackendTypeOK'
    BY <1>12 DEF ApproveWrites, ApproveReserves, Answered, native, BackendTypeOK
  <2>4. QED  BY <1>12, <2>1, <2>2, <2>3 DEF ApproveWrites, memory
<1>13. CASE ApproveEnds
  <2>1. call.prompt \in Prompt
    BY <1>13 DEF ApproveEnds, Approving, Call
  <2>2. /\ Replayed(journal, AnswerRow(call.prompt, TRUE)) \in Journal
        /\ Replayed(journal, AnswerRow(call.prompt, FALSE)) \in Journal
    BY <1>0, <2>1 DEF Replayed, AnswerRow, Journal, Prompt, Recovery, Turn
  <2>3. journal' \in Journal /\ broken' \in BOOLEAN
    BY <1>0, <1>13, <2>2, PersistType DEF ApproveEnds
  <2>4. BackendTypeOK'
    BY <1>13 DEF ApproveEnds, backendVars, backend, native, BackendTypeOK
  <2>5. QED  BY <1>0, <1>13, <2>3, <2>4 DEF ApproveEnds, history
<1>14. ASSUME NextEvent PROVE BackendTypeOK' /\ Head(events) \in Event
  <2>1. events \in Seq(Event) /\ events # <<>> /\ Len(events) <= MaxEvents
    BY <1>14 DEF NextEvent, BackendTypeOK
  <2>2. /\ Head(events) \in Event
        /\ Tail(events) \in Seq(Event)
        /\ Len(Tail(events)) = Len(events) - 1
    BY <2>1
  <2>3. Len(Tail(events)) <= MaxEvents
    <3>1. Len(events) \in Nat
      BY <2>1
    <3>2. QED  BY <2>1, <2>2, <3>1, MaxEventsAssumption
  <2>4. QED  BY <1>14, <2>2, <2>3 DEF NextEvent, native, BackendTypeOK
<1>15. ASSUME Head(events) \in Event
       PROVE  /\ ApprovalsAfter(Head(events)) \subseteq Prompt
              /\ Replayed(journal, EventRow(Head(events))) \in Journal
  BY <1>0, <1>15, RecoveredType
     DEF ApprovalsAfter, Event, Replayed, EventRow, Journal
<1>16. CASE Observe
  <2>1. journal' \in Journal /\ broken' \in BOOLEAN
    BY <1>0, <1>14, <1>15, <1>16, PersistType DEF Observe, Persist
  <2>2. state' \in {"observed", "unknown"} /\ gap' \in BOOLEAN
    BY <1>16 DEF Observe, StateAfter, GapAfter
  <2>3. QED  BY <1>14, <1>15, <1>16, <2>1, <2>2 DEF Observe, NextEvent, history
<1>17. CASE ObserveFails
  <2>1. journal' \in Journal /\ broken' \in BOOLEAN
    BY <1>0, <1>14, <1>15, <1>17, PersistType DEF ObserveFails, Persist
  <2>2. QED  BY <1>14, <1>15, <1>17, <2>1 DEF ObserveFails, NextEvent, history
<1>18. CASE WorkerMoves
  BY <1>18, WorkerType DEF WorkerMoves, memory, history
<1>19. CASE UNCHANGED vars
  BY <1>19 DEF vars, backendVars, backend, native, BackendTypeOK, memory, history
<1>20. QED
  BY <1>1, <1>2, <1>3, <1>4, <1>5, <1>6, <1>7, <1>8, <1>9, <1>10, <1>11, <1>12,
     <1>13, <1>16, <1>17, <1>18, <1>19 DEF Next

(* The type invariant, for every value of the constants. *)
THEOREM ControllerTypeCorrect == Spec => []ControllerTypeOK
<1>1. ControllerTypeOK /\ [Next]_vars => ControllerTypeOK'
  BY StepType
<1>2. QED  BY InitType, <1>1, PTL DEF Spec

-----------------------------------------------------------------------------
(* The inductive invariant.  Whatever reached the worker is known on disk  *)
(* and in the memory of the adapter that runs; a call that has not touched *)
(* the pipe has its message or its approval still to itself.               *)
WakesAreKnown ==
  \A m \in Wake :
    /\ inputs[m] <= 1
    /\ inputs[m] > 0 /\ ~journal.torn => journal.sent[m] # NoDelivery
    /\ inputs[m] > 0 /\ bound => sent[m] # NoDelivery

AnswersAreKnown ==
  \A p \in Prompt :
    /\ answers[p] <= 1
    /\ answers[p] > 0 /\ ~journal.torn => p \in journal.approvalSent
    /\ answers[p] > 0 /\ bound => p \in approvalSent

SendIsFirst ==
  call.op = "send" =>
    /\ call.delivery.state = "unknown"
    /\ call.at \in {"intent", "refused"} =>
         /\ inputs[call.wake] = 0
         /\ sent[call.wake] # NoDelivery
         /\ ~journal.torn => journal.sent[call.wake] # NoDelivery

ApproveIsFirst ==
  call.op = "approve" /\ call.at \in {"intent", "refused"} =>
    /\ answers[call.prompt] = 0
    /\ call.at = "intent" =>
         /\ call.prompt \in approvalSent
         /\ ~journal.torn => call.prompt \in journal.approvalSent

True(m, d) ==
  d.state = "delivered" =>
    inputs[m] > 0 /\ d.turn \in Wake /\ work[d.turn] # "none"

DeliveriesAreTrue ==
  \A m \in Wake :
    /\ True(m, sent[m])
    /\ ~journal.torn => True(m, journal.sent[m])

ControllerInv ==
  /\ ControllerTypeOK
  /\ WakesAreKnown
  /\ AnswersAreKnown
  /\ SendIsFirst
  /\ ApproveIsFirst
  /\ DeliveriesAreTrue

(* The parts of the invariant that a step leaves alone. *)
LEMMA Untouched ==
  ASSUME WakesAreKnown, AnswersAreKnown, SendIsFirst, ApproveIsFirst,
         UNCHANGED <<bound, sent, approvalSent, call, journal, inputs, answers>>
  PROVE  WakesAreKnown' /\ AnswersAreKnown' /\ SendIsFirst' /\ ApproveIsFirst'
BY DEF WakesAreKnown, AnswersAreKnown, SendIsFirst, ApproveIsFirst

(* A turn the worker has taken in is never as if it had not been. *)
LEMMA WorkStays ==
  ASSUME BackendTypeOK, WorkerStep, NEW t \in Wake, work[t] # "none"
  PROVE  work'[t] # "none"
BY DEF WorkerStep, TakesUp, Asks, Withdraws, Finishes, Archived, WorkerDies, native,
       BackendTypeOK

(* A persisted row is read, or is missing, or the journal is torn. *)
LEMMA PersistCases ==
  ASSUME journal \in Journal, NEW r, Persist(r)
  PROVE  journal' = journal \/ journal' = Replayed(journal, r) \/ journal'.torn
BY DEF Persist, Persists, PersistFails, Journal

(* Each step preserves the invariant. *)
LEMMA StepInv ==
  ASSUME ControllerInv, [Next]_vars
  PROVE  ControllerInv'
<1> USE DEF ControllerInv
<1>0. /\ ControllerTypeOK'
      /\ BackendTypeOK
      /\ journal \in Journal /\ call \in Call
      /\ sent \in [Wake -> Delivery] /\ journal.sent \in [Wake -> Delivery]
      /\ inputs \in [Wake -> Nat] /\ answers \in [Prompt -> Nat]
      /\ work \in [Wake -> {"none", "queued", "running", "done", "killed"}]
  BY StepType DEF ControllerTypeOK, BackendTypeOK, Journal
<1>1. ASSUME Bind, Persist(BoundRow), ~journal.torn PROVE ControllerInv'
  <2>1. /\ \/ journal' = journal
           \/ journal' = [journal EXCEPT !.started = TRUE]
           \/ journal'.torn
    BY <1>0, <1>1, PersistCases DEF Replayed, BoundRow
  <2>2. /\ ~journal'.torn => /\ journal'.sent = journal.sent
                             /\ journal'.approvalSent = journal.approvalSent
        /\ sent' = journal.sent /\ approvalSent' = journal.approvalSent
        /\ call' = NoCall
        /\ UNCHANGED <<inputs, answers, work>>
    BY <1>0, <1>1, <2>1 DEF Bind, Launch, history, Journal
  <2>3. WakesAreKnown' /\ AnswersAreKnown'
    BY <1>1, <2>2 DEF WakesAreKnown, AnswersAreKnown
  <2>4. SendIsFirst' /\ ApproveIsFirst'
    BY <2>2 DEF SendIsFirst, ApproveIsFirst, NoCall
  <2>5. DeliveriesAreTrue'
    BY <1>1, <2>2 DEF DeliveriesAreTrue, True
  <2>6. QED  BY <1>0, <2>3, <2>4, <2>5
<1>2. CASE Start \/ Resume
  BY <1>1, <1>2 DEF Start, Resume
<1>3. CASE Dies
  <2>1. /\ ~bound' /\ call' = NoCall
        /\ sent' = [m \in Wake |-> NoDelivery]
        /\ UNCHANGED <<journal, inputs, answers, work>>
    BY <1>3 DEF Dies, Detach, native, history
  <2>2. WakesAreKnown' /\ AnswersAreKnown' /\ SendIsFirst' /\ ApproveIsFirst'
    BY <2>1 DEF WakesAreKnown, AnswersAreKnown, SendIsFirst, ApproveIsFirst, NoCall
  <2>3. DeliveriesAreTrue'
    BY <2>1 DEF DeliveriesAreTrue, True, NoDelivery
  <2>4. QED  BY <1>0, <2>2, <2>3
<1>4. ASSUME NEW m \in Wake, SendIntends(m) PROVE ControllerInv'
  <2>1. inputs[m] = 0
    BY <1>0, <1>4 DEF SendIntends, WakesAreKnown
  <2>2. /\ journal' = journal \/ journal' = [journal EXCEPT !.sent[m] = Intent]
           \/ journal'.torn
        /\ UNCHANGED <<bound, approvalSent, inputs, answers, work>>
    BY <1>0, <1>4, PersistCases
       DEF SendIntends, Persist, Replayed, WakeRow, backendVars, native, history
  <2>3. \/ UNCHANGED <<sent, call>>
        \/ /\ sent' = [sent EXCEPT ![m] = Intent]
           /\ call' = [op |-> "send", wake |-> m, at |-> "intent",
                       delivery |-> Intent]
    BY <1>4 DEF SendIntends
  <2>4. ~journal'.torn => /\ journal'.approvalSent = journal.approvalSent
                          /\ ~journal.torn
                          /\ \A n \in Wake : \/ journal'.sent[n] = journal.sent[n]
                                             \/ journal'.sent[n] = Intent
    BY <1>0, <2>2 DEF Journal
  <2>5. WakesAreKnown' /\ AnswersAreKnown'
    BY <1>0, <2>2, <2>3, <2>4
       DEF WakesAreKnown, AnswersAreKnown, Intent, NoDelivery
  <2>6. SendIsFirst' /\ ApproveIsFirst'
    <3>1. CASE UNCHANGED <<sent, call>>
      BY <1>4, <3>1 DEF SendIntends, NoCall, SendIsFirst, ApproveIsFirst
    <3>2. CASE call'.op = "send" /\ call'.wake = m /\ call'.delivery = Intent
      <4>1. sent'[m] # NoDelivery
        BY <1>0, <1>4, <2>3, <3>2 DEF SendIntends, NoCall, Intent, NoDelivery
      <4>2. ~journal'.torn => journal'.sent[m] # NoDelivery
        BY <1>0, <1>4, <3>2
           DEF SendIntends, NoCall, Persists, Replayed, WakeRow, Journal, Intent,
               NoDelivery
      <4>3. QED
        BY <2>1, <2>2, <3>2, <4>1, <4>2 DEF SendIsFirst, ApproveIsFirst, Intent
    <3>3. QED  BY <2>3, <3>1, <3>2
  <2>7. DeliveriesAreTrue'
    BY <1>0, <2>2, <2>3, <2>4 DEF DeliveriesAreTrue, True, Intent
  <2>8. QED  BY <1>0, <2>5, <2>6, <2>7
<1>5. CASE SendRefused
  <2>1. /\ UNCHANGED <<bound, sent, approvalSent, journal, inputs, answers, work>>
        /\ call.op = "send" /\ call.at = "intent"
        /\ call' = [call EXCEPT !.at = "refused"]
    BY <1>5 DEF SendRefused, Sending, memory, history, backendVars, native
  <2>2. call'.op = "send" /\ call'.wake = call.wake /\ call'.delivery = call.delivery
    BY <1>0, <2>1 DEF Call
  <2>3. WakesAreKnown' /\ AnswersAreKnown' /\ DeliveriesAreTrue'
    BY <2>1 DEF WakesAreKnown, AnswersAreKnown, DeliveriesAreTrue, True
  <2>4. SendIsFirst' /\ ApproveIsFirst'
    BY <2>1, <2>2 DEF SendIsFirst, ApproveIsFirst
  <2>5. QED  BY <1>0, <2>3, <2>4
<1>6. CASE SendWrites
  <2>1. /\ UNCHANGED <<bound, sent, approvalSent, journal, answers>>
        /\ call.op = "send" /\ call.at = "intent"
        /\ call.wake \in Wake
        /\ \/ UNCHANGED inputs
           \/ inputs' = [inputs EXCEPT ![call.wake] = @ + 1]
    BY <1>0, <1>6 DEF SendWrites, Sending, Call, memory
  <2>2. /\ call'.op = "send" /\ call'.at = "written"
        /\ call'.delivery.state = call.delivery.state
    BY <1>0, <1>6, <2>1 DEF SendWrites, Call, Delivery
  <2>3. inputs[call.wake] = 0 /\ sent[call.wake] # NoDelivery
    BY <2>1 DEF SendIsFirst
  <2>4. \A m \in Wake : /\ inputs'[m] \in {inputs[m], inputs[m] + 1}
                        /\ inputs'[m] # inputs[m] => m = call.wake
    BY <1>0, <2>1
  <2>5. \A t \in Wake : work[t] # "none" => work'[t] # "none"
    BY <1>0, <1>6 DEF SendWrites, Arrives, native
  <2>6. AnswersAreKnown' /\ SendIsFirst' /\ ApproveIsFirst'
    BY <2>1, <2>2 DEF AnswersAreKnown, SendIsFirst, ApproveIsFirst
  <2>7. DeliveriesAreTrue'
    <3>1. \A m \in Wake : inputs[m] > 0 => inputs'[m] > 0
      BY <1>0, <2>4
    <3>2. QED  BY <2>1, <2>5, <3>1 DEF DeliveriesAreTrue, True
  <2>8. ~journal.torn => journal.sent[call.wake] # NoDelivery
    BY <2>1 DEF SendIsFirst
  <2>9. WakesAreKnown'
    BY <1>0, <2>1, <2>3, <2>4, <2>8 DEF WakesAreKnown
  <2>10. QED  BY <1>0, <2>6, <2>7, <2>9
<1>7. ASSUME NEW d, call.op = "send", SendEnds(d), d \in Delivery,
             d # NoDelivery, True(call.wake, d), bound
      PROVE  ControllerInv'
  <2>1. /\ call.wake \in Wake
        /\ call' = NoCall
        /\ sent' = [sent EXCEPT ![call.wake] = d]
        /\ UNCHANGED <<bound, approvalSent, inputs, answers, work>>
    BY <1>0, <1>7 DEF SendEnds, Call, native, history
  <2>2. \/ journal' = journal
        \/ journal' = [journal EXCEPT !.sent[call.wake] = d]
        \/ journal'.torn
    BY <1>0, <1>7, PersistCases DEF SendEnds, Replayed, WakeRow
  <2>3. ~journal'.torn => /\ journal'.approvalSent = journal.approvalSent
                          /\ ~journal.torn
                          /\ \A n \in Wake :
                               \/ journal'.sent[n] = journal.sent[n]
                               \/ n = call.wake /\ journal'.sent[n] = d
    BY <1>0, <2>2 DEF Journal
  <2>4. WakesAreKnown' /\ AnswersAreKnown'
    BY <1>0, <1>7, <2>1, <2>3 DEF WakesAreKnown, AnswersAreKnown
  <2>5. SendIsFirst' /\ ApproveIsFirst'
    BY <2>1 DEF SendIsFirst, ApproveIsFirst, NoCall
  <2>6. DeliveriesAreTrue'
    BY <1>0, <1>7, <2>1, <2>3 DEF DeliveriesAreTrue, True
  <2>7. QED  BY <1>0, <2>4, <2>5, <2>6
<1>8. ASSUME NEW t \in Wake, SendReplied(t) PROVE ControllerInv'
  <2> DEFINE d == [state |-> "delivered", turn |-> t]
  <2>1. d \in Delivery /\ d # NoDelivery
    BY DEF Delivery, Turn, NoDelivery
  <2>2. inputs[call.wake] > 0 /\ work[t] # "none"
    BY <1>8 DEF SendReplied, SendAccepted
  <2>3. True(call.wake, d)
    BY <2>2 DEF True
  <2>4. call.op = "send" /\ bound /\ SendEnds(d)
    BY <1>8 DEF SendReplied, Sending
  <2>5. QED
    <3> HIDE DEF d
    <3>1. QED  BY <1>7, <2>1, <2>3, <2>4
<1>9. CASE SendUncertain
  <2>1. call.op = "send" /\ bound /\ SendEnds(call.delivery)
    BY <1>9 DEF SendUncertain, Sending
  <2>2. call.delivery \in Delivery /\ call.delivery.state = "unknown"
    BY <1>0, <2>1 DEF Call, SendIsFirst
  <2>3. call.delivery # NoDelivery /\ True(call.wake, call.delivery)
    BY <2>2 DEF NoDelivery, True
  <2>4. QED  BY <1>7, <2>1, <2>2, <2>3
<1>10. CASE SendReleases
  <2>1. /\ call.op = "send" /\ call.at = "refused" /\ call.wake \in Wake
        /\ bound
        /\ call' = NoCall
        /\ \/ UNCHANGED sent
           \/ sent' = [sent EXCEPT ![call.wake] = NoDelivery]
        /\ UNCHANGED <<bound, approvalSent, inputs, answers, work>>
    BY <1>0, <1>10 DEF SendReleases, Sending, Call, backendVars, native, history
  <2>2. inputs[call.wake] = 0
    BY <2>1 DEF SendIsFirst
  <2>3. \/ journal' = journal
        \/ journal' = [journal EXCEPT !.sent[call.wake] = NoDelivery]
        \/ journal'.torn
    <3>1. Persist(RefusedRow(call.wake))
      BY <1>10 DEF SendReleases, Persist
    <3>2. \/ Replayed(journal, RefusedRow(call.wake)) =
                [journal EXCEPT !.sent[call.wake] = NoDelivery]
          \/ Replayed(journal, RefusedRow(call.wake)).torn
      BY <1>0 DEF Replayed, RefusedRow, Journal
    <3>3. QED  BY <1>0, <3>1, <3>2, PersistCases
  <2>4. ~journal'.torn => /\ journal'.approvalSent = journal.approvalSent
                          /\ ~journal.torn
                          /\ \A n \in Wake :
                               \/ journal'.sent[n] = journal.sent[n]
                               \/ n = call.wake /\ journal'.sent[n] = NoDelivery
    BY <1>0, <2>3 DEF Journal
  <2>5. WakesAreKnown' /\ AnswersAreKnown'
    BY <1>0, <2>1, <2>2, <2>4 DEF WakesAreKnown, AnswersAreKnown
  <2>6. SendIsFirst' /\ ApproveIsFirst'
    BY <2>1 DEF SendIsFirst, ApproveIsFirst, NoCall
  <2>7. DeliveriesAreTrue'
    BY <1>0, <2>1, <2>4 DEF DeliveriesAreTrue, True, NoDelivery
  <2>8. QED  BY <1>0, <2>5, <2>6, <2>7
<1>11. ASSUME NEW p \in Prompt, ApproveIntends(p) PROVE ControllerInv'
  <2>1. answers[p] = 0
    BY <1>0, <1>11 DEF ApproveIntends, AnswersAreKnown
  <2>2. /\ journal' = journal \/ journal' = Replayed(journal, AnswerRow(p, TRUE))
           \/ journal'.torn
        /\ UNCHANGED <<bound, sent, inputs, answers, work>>
        /\ approvalSent' \in {approvalSent, approvalSent \cup {p}}
    BY <1>0, <1>11, PersistCases
       DEF ApproveIntends, Persist, backendVars, native, history
  <2>3. ~journal'.torn =>
          /\ ~journal.torn
          /\ journal'.sent = journal.sent
          /\ journal'.approvalSent \in {journal.approvalSent,
                                        journal.approvalSent \cup {p}}
    <3>1. /\ Replayed(journal, AnswerRow(p, TRUE)).approvalSent =
               journal.approvalSent \cup {p}
          /\ Replayed(journal, AnswerRow(p, TRUE)).sent = journal.sent
          /\ Replayed(journal, AnswerRow(p, TRUE)).torn = journal.torn
      BY <1>0, AnswersRead
    <3>2. QED  BY <2>2, <3>1
  <2>4. WakesAreKnown' /\ AnswersAreKnown' /\ DeliveriesAreTrue'
    BY <1>0, <2>2, <2>3 DEF WakesAreKnown, AnswersAreKnown, DeliveriesAreTrue, True
  <2>5. SendIsFirst' /\ ApproveIsFirst'
    <3>1. CASE UNCHANGED <<approvalSent, call>>
      BY <1>11, <3>1 DEF ApproveIntends, NoCall, SendIsFirst, ApproveIsFirst
    <3>2. CASE /\ Persists(AnswerRow(p, TRUE))
               /\ approvalSent' = approvalSent \cup {p}
               /\ call' = [op |-> "approve", prompt |-> p, at |-> "intent"]
      <4>1. journal'.approvalSent = journal.approvalSent \cup {p}
        BY <1>0, <3>2, AnswersRead DEF Persists
      <4>2. QED
        BY <2>1, <2>2, <3>2, <4>1 DEF SendIsFirst, ApproveIsFirst
    <3>3. QED  BY <1>11, <3>1, <3>2 DEF ApproveIntends
  <2>6. QED  BY <1>0, <2>4, <2>5
<1>12. CASE ApproveRefused
  <2>1. /\ UNCHANGED <<bound, sent, journal, inputs, answers, work>>
        /\ call.op = "approve" /\ call.at = "intent" /\ call.prompt \in Prompt
        /\ approvalSent' = approvalSent \ {call.prompt}
        /\ call' = [call EXCEPT !.at = "refused"]
    BY <1>0, <1>12 DEF ApproveRefused, Approving, Call, history, backendVars, native
  <2>2. call'.op = "approve" /\ call'.at = "refused" /\ call'.prompt = call.prompt
    BY <1>0, <2>1 DEF Call
  <2>3. answers[call.prompt] = 0
    BY <2>1 DEF ApproveIsFirst
  <2>4. WakesAreKnown' /\ AnswersAreKnown' /\ DeliveriesAreTrue'
    BY <1>0, <2>1, <2>3 DEF WakesAreKnown, AnswersAreKnown, DeliveriesAreTrue, True
  <2>5. SendIsFirst' /\ ApproveIsFirst'
    BY <2>1, <2>2, <2>3 DEF SendIsFirst, ApproveIsFirst
  <2>6. QED  BY <1>0, <2>4, <2>5
<1>13. CASE ApproveWrites
  <2>1. /\ UNCHANGED <<bound, sent, approvalSent, journal, inputs>>
        /\ call.op = "approve" /\ call.at = "intent" /\ call.prompt \in Prompt
        /\ call' = [call EXCEPT !.at = "written"]
        /\ work' = work
        /\ \/ UNCHANGED answers
           \/ answers' = [answers EXCEPT ![call.prompt] = @ + 1]
    BY <1>0, <1>13 DEF ApproveWrites, Approving, Call, memory, Answered, native
  <2>2. call'.op = "approve" /\ call'.at = "written"
    BY <1>0, <2>1 DEF Call
  <2>3. /\ answers[call.prompt] = 0
        /\ call.prompt \in approvalSent
        /\ ~journal.torn => call.prompt \in journal.approvalSent
    BY <2>1 DEF ApproveIsFirst
  <2>4. \A p \in Prompt : \/ answers'[p] = answers[p]
                          \/ p = call.prompt /\ answers'[p] = 1
    BY <1>0, <2>1, <2>3
  <2>5. AnswersAreKnown'
    BY <1>0, <2>1, <2>3, <2>4 DEF AnswersAreKnown
  <2>6. WakesAreKnown' /\ DeliveriesAreTrue' /\ SendIsFirst' /\ ApproveIsFirst'
    BY <2>1, <2>2
       DEF WakesAreKnown, DeliveriesAreTrue, True, SendIsFirst, ApproveIsFirst
  <2>7. QED  BY <1>0, <2>5, <2>6
<1>14. CASE ApproveEnds
  <2>1. /\ UNCHANGED <<bound, sent, approvalSent, inputs, answers, work>>
        /\ call.op = "approve" /\ call.prompt \in Prompt
        /\ call' = NoCall
        /\ \/ call.at = "written" /\ Persist(AnswerRow(call.prompt, TRUE))
           \/ call.at = "refused" /\ Persist(AnswerRow(call.prompt, FALSE))
    BY <1>0, <1>14 DEF ApproveEnds, Approving, Call, backendVars, native, history
  <2>2. call.at = "refused" => answers[call.prompt] = 0
    BY <2>1 DEF ApproveIsFirst
  <2>3. ~journal'.torn =>
          /\ ~journal.torn
          /\ journal'.sent = journal.sent
          /\ \/ journal.approvalSent \subseteq journal'.approvalSent
             \/ /\ answers[call.prompt] = 0
                /\ journal'.approvalSent = journal.approvalSent \ {call.prompt}
    <3> DEFINE after(b) == Replayed(journal, AnswerRow(call.prompt, b))
    <3>1. /\ after(TRUE).approvalSent = journal.approvalSent \cup {call.prompt}
          /\ after(FALSE).approvalSent = journal.approvalSent \ {call.prompt}
          /\ \A b \in BOOLEAN :
               after(b).sent = journal.sent /\ after(b).torn = journal.torn
      <4>1. journal \in Journal /\ call.prompt \in Prompt
        BY <1>0, <2>1
      <4>2. \A b \in BOOLEAN : /\ after(b).approvalSent = IF b THEN journal.approvalSent \cup {call.prompt}
                                        ELSE journal.approvalSent \ {call.prompt}
                               /\ after(b).sent = journal.sent /\ after(b).torn = journal.torn
        BY <4>1, AnswersRead
      <4> QED  BY <4>2
    <3>2. \/ journal' = journal
          \/ journal' = after(TRUE)
          \/ call.at = "refused" /\ journal' = after(FALSE)
          \/ journal'.torn
      BY <1>0, <2>1, PersistCases
    <3> HIDE DEF after
    <3>3. QED  BY <2>2, <3>1, <3>2
  <2>4. WakesAreKnown' /\ AnswersAreKnown' /\ DeliveriesAreTrue'
    BY <1>0, <2>1, <2>3 DEF WakesAreKnown, AnswersAreKnown, DeliveriesAreTrue, True
  <2>5. SendIsFirst' /\ ApproveIsFirst'
    BY <2>1 DEF SendIsFirst, ApproveIsFirst, NoCall
  <2>6. QED  BY <1>0, <2>4, <2>5
<1>15. CASE Observe \/ ObserveFails
  <2>1. /\ UNCHANGED <<bound, sent, approvalSent, call, inputs, answers, work>>
        /\ call = NoCall
        /\ \/ UNCHANGED journal
           \/ Persist(EventRow(Head(events)))
    BY <1>15 DEF Observe, ObserveFails, NextEvent, Persist, native, history
  <2>2. ~journal'.torn => /\ ~journal.torn
                          /\ journal'.sent = journal.sent
                          /\ journal'.approvalSent = journal.approvalSent
    <3>1. /\ Replayed(journal, EventRow(Head(events))).sent = journal.sent
          /\ Replayed(journal, EventRow(Head(events))).approvalSent =
               journal.approvalSent
          /\ Replayed(journal, EventRow(Head(events))).torn = journal.torn
      BY <1>0 DEF Replayed, EventRow, Journal
    <3>2. QED  BY <1>0, <2>1, <3>1, PersistCases
  <2>3. WakesAreKnown' /\ AnswersAreKnown' /\ DeliveriesAreTrue'
    BY <2>1, <2>2 DEF WakesAreKnown, AnswersAreKnown, DeliveriesAreTrue, True
  <2>4. SendIsFirst' /\ ApproveIsFirst'
    BY <2>1 DEF SendIsFirst, ApproveIsFirst, NoCall
  <2>5. QED  BY <1>0, <2>3, <2>4
<1>16. CASE WorkerMoves
  <2>1. UNCHANGED <<bound, sent, approvalSent, call, journal, inputs, answers>>
    BY <1>16 DEF WorkerMoves, memory, history
  <2>2. \A t \in Wake : work[t] # "none" => work'[t] # "none"
    BY <1>0, <1>16, WorkStays DEF WorkerMoves
  <2>3. DeliveriesAreTrue'
    BY <2>1, <2>2 DEF DeliveriesAreTrue, True
  <2>4. QED  BY <1>0, <2>1, <2>3, Untouched
<1>17. CASE UNCHANGED vars
  <2>1. UNCHANGED <<bound, sent, approvalSent, call, journal, inputs, answers, work>>
    BY <1>17 DEF vars, memory, history, backendVars, native
  <2>2. DeliveriesAreTrue'
    BY <2>1 DEF DeliveriesAreTrue, True
  <2>3. QED  BY <1>0, <2>1, <2>2, Untouched
<1>18. QED
  BY <1>2, <1>3, <1>4, <1>5, <1>6, <1>8, <1>9, <1>10, <1>11, <1>12, <1>13, <1>14,
     <1>15, <1>16, <1>17 DEF Next

(* The invariant, for every value of the constants. *)
THEOREM ControllerInvariant == Spec => []ControllerInv
<1>1. ControllerInit => ControllerInv
  <2> SUFFICES ASSUME ControllerInit PROVE ControllerInv
    OBVIOUS
  <2>1. ControllerTypeOK
    BY InitType
  <2>2. /\ WakesAreKnown /\ AnswersAreKnown /\ SendIsFirst /\ ApproveIsFirst
        /\ DeliveriesAreTrue
    BY DEF ControllerInit, WakesAreKnown, AnswersAreKnown, SendIsFirst,
           ApproveIsFirst, DeliveriesAreTrue, True, NoCall, NoDelivery
  <2>3. QED  BY <2>1, <2>2 DEF ControllerInv
<1>2. ControllerInv /\ [Next]_vars => ControllerInv'
  BY StepInv
<1>3. QED  BY <1>1, <1>2, PTL DEF Spec

(* However many adapters succeed one another, and wherever each of them    *)
(* dies, no wake is written to the worker twice (Handle "send").           *)
THEOREM WakesAreSentOnce == Spec => []WakeOnce
<1>1. ControllerInv => WakeOnce
  BY DEF ControllerInv, WakesAreKnown, WakeOnce
<1>2. QED  BY <1>1, ControllerInvariant, PTL

(* Nor is an approval answered twice (OperatorApprove).                    *)
THEOREM ApprovalsAreAnsweredOnce == Spec => []AnswerOnce
<1>1. ControllerInv => AnswerOnce
  BY DEF ControllerInv, AnswersAreKnown, AnswerOnce
<1>2. QED  BY <1>1, ControllerInvariant, PTL

(* The journal is ahead of the pipe: what may have reached the worker is   *)
(* on disk, or the journal is torn and nobody reads it again.              *)
THEOREM JournalIsAhead == Spec => []JournalKnows
<1>1. ControllerInv => JournalKnows
  BY DEF ControllerInv, WakesAreKnown, AnswersAreKnown, JournalKnows
<1>2. QED  BY <1>1, ControllerInvariant, PTL

(* A wake that is reported delivered was written, in a turn the worker has *)
(* taken in.                                                               *)
THEOREM DeliveriesAreReal == Spec => []DeliveredIsTrue
<1>1. ControllerInv => DeliveredIsTrue
  BY DEF ControllerInv, DeliveriesAreTrue, True, DeliveredIsTrue
<1>2. QED  BY <1>1, ControllerInvariant, PTL

(* Together: what reaches the worker does so once, and the journal knows.  *)
THEOREM NothingIsSentTwice == Spec => []NothingTwice
<1>1. ControllerTypeOK /\ WakeOnce /\ AnswerOnce /\ JournalKnows => NothingTwice
  BY DEF NothingTwice
<1>2. QED
  BY <1>1, ControllerTypeCorrect, WakesAreSentOnce, ApprovalsAreAnsweredOnce, JournalIsAhead, PTL


-----------------------------------------------------------------------------
(* What a receipt that says nothing is pending rests on.  A worker that    *)
(* asks runs the turn it asks about, and runs no other; so when it takes a *)
(* turn up, and when it comes to rest, it waits for nothing, and what it   *)
(* asks later is behind that in the channel.  A transport that is lost     *)
(* says so last.                                                           *)
OneRuns == \A t \in Wake : \A u \in Wake : work[t] = "running" /\ work[u] = "running" => t = u
PromptsRun == \A p \in prompts : worker = "alive" /\ work[p.turn] = "running"

Tells(e, p) == e = OfPrompt("approval", p) \/ e = About("disconnected", NoTurn)
ToldAfter(k) == \A p \in prompts : \E i \in DOMAIN events : i > k /\ Tells(events[i], p)

RestsAreClear == \A k \in DOMAIN events : events[k].kind \in {"busy", "idle", "ended"} => ToldAfter(k)
AbsenceInv == bound /\ ~gap /\ approvals = {} /\ state = "observed" => ToldAfter(0)
ClosedLast ==
  ~open =>
    IF events = <<>> THEN state = "unknown"
    ELSE events[Len(events)] = About("disconnected", NoTurn)

AskInv == OneRuns /\ PromptsRun /\ RestsAreClear /\ AbsenceInv /\ ClosedLast

(* A turn the journal of a Claude worker has a result for is done, and it  *)
(* bears the name of a wake the journal knows.                             *)
ResultsAreDone ==
  \A i \in DOMAIN events : events[i].kind = "result" /\ events[i].turn \in Wake => work[events[i].turn] = "done"
DoneIn(j) ==
  ~j.torn =>
    \A t \in Wake :
      /\ j.turns[t] \in {"result", "complete"} => work[t] = "done"
      /\ j.sent[t].state = "delivered" => j.sent[t].turn = t
JournalIsDone == DoneIn(journal)
TurnsAreWakes == \A t \in Wake : work[t] # "none" => inputs[t] > 0

RestInv == Claude => ResultsAreDone /\ JournalIsDone /\ TurnsAreWakes


(* A channel that is added to, and one that is read from. *)
LEMMA Queued ==
  ASSUME NEW S, NEW q \in Seq(S), NEW es \in Seq(S), NEW r, r = q \o es
  PROVE  /\ Len(r) = Len(q) + Len(es) /\ DOMAIN q = 1..Len(q) /\ DOMAIN r = 1..Len(r)
         /\ \A i \in DOMAIN q : i \in DOMAIN r /\ r[i] = q[i]
         /\ \A i \in DOMAIN r : i \in DOMAIN q \/ (i > Len(q) /\ \E j \in DOMAIN es : r[i] = es[j])
<1>1. /\ Len(r) = Len(q) + Len(es) /\ DOMAIN q = 1..Len(q) /\ DOMAIN r = 1..Len(r) /\ DOMAIN es = 1..Len(es)
      /\ Len(q) \in Nat /\ Len(es) \in Nat
  OBVIOUS
<1>2. \A i \in DOMAIN q : i \in DOMAIN r /\ r[i] = q[i]
  BY <1>1
<1>3. ASSUME NEW i \in DOMAIN r, i \notin DOMAIN q PROVE i > Len(q) /\ \E j \in DOMAIN es : r[i] = es[j]
  <2>1. i - Len(q) \in DOMAIN es /\ i > Len(q)
    BY <1>1, <1>3
  <2>2. r[i] = es[i - Len(q)]
    BY <1>1, <1>3, <2>1
  <2> QED  BY <2>1, <2>2
<1> QED  BY <1>1, <1>2, <1>3

LEMMA Dequeued ==
  ASSUME NEW S, NEW q \in Seq(S), q # <<>>, NEW r, r = Tail(q)
  PROVE  /\ Head(q) = q[1] /\ DOMAIN q = 1..Len(q) /\ Len(q) \in Nat \ {0}
         /\ r \in Seq(S) /\ Len(r) = Len(q) - 1 /\ DOMAIN r = 1..(Len(q) - 1)
         /\ \A i \in 1..(Len(q) - 1) : r[i] = q[i + 1]
<1>1. Len(q) \in Nat \ {0} /\ DOMAIN q = 1..Len(q)
  BY EmptySeq
<1>2. Head(q) = q[1]
  BY <1>1
<1>3. r \in Seq(S) /\ Len(r) = Len(q) - 1 /\ \A i \in 1..Len(r) : r[i] = q[i + 1]
  BY HeadTailProperties
<1> QED  BY <1>1, <1>2, <1>3

(* A worker that waits for nothing is told of in full. *)
LEMMA NothingAsked == ASSUME prompts' = {} PROVE PromptsRun' /\ RestsAreClear' /\ AbsenceInv'
BY DEF PromptsRun, RestsAreClear, AbsenceInv, ToldAfter

LEMMA OnlyOne ==
  ASSUME OneRuns, PromptsRun, prompts \subseteq Prompt, NEW t \in Wake, work[t] = "running"
  PROVE  \A p \in prompts : p.turn = t
BY DEF OneRuns, PromptsRun, Prompt

LEMMA OnePrompt ==
  ASSUME BackendTypeOK, OneRuns, UNCHANGED work PROVE OneRuns'
BY DEF OneRuns

LEMMA Closing ==
  ASSUME BackendTypeOK, CloseTransport
  PROVE  /\ \A i \in DOMAIN events : i \in DOMAIN events' /\ events'[i] = events[i]
         /\ \A i \in DOMAIN events' : i \in DOMAIN events \/ events'[i] = About("disconnected", NoTurn)
         /\ events' # <<>> /\ events'[Len(events')] = About("disconnected", NoTurn)
         /\ Len(events') \in DOMAIN events' /\ \A i \in DOMAIN events : i < Len(events')
<1>1. PICK e \in Event : e = About("disconnected", NoTurn)
  BY DEF About, Event, Turn
<1>2. PICK es, r : es = <<e>> /\ r = events \o es
  OBVIOUS
<1>3. es \in Seq(Event) /\ Len(es) = 1 /\ DOMAIN es = {1} /\ es[1] = e
  BY <1>2
<1>4. events \in Seq(Event) /\ events' = r
  BY <1>1, <1>2 DEF CloseTransport, Emit, BackendTypeOK
<1>5. /\ Len(r) = Len(events) + Len(es) /\ DOMAIN events = 1..Len(events) /\ DOMAIN r = 1..Len(r)
      /\ \A i \in DOMAIN events : i \in DOMAIN r /\ r[i] = events[i]
      /\ \A i \in DOMAIN r : i \in DOMAIN events \/ (i > Len(events) /\ \E j \in DOMAIN es : r[i] = es[j])
  BY <1>2, <1>3, <1>4, Queued
<1>6. Len(events) \in Nat
  BY <1>4
<1>7. Len(r) = Len(events) + 1 /\ Len(r) \in DOMAIN r /\ Len(r) \notin DOMAIN events
  BY <1>3, <1>5, <1>6
<1>8. \A i \in DOMAIN r : i \in DOMAIN events \/ r[i] = e
  BY <1>3, <1>5
<1>9. r[Len(r)] = e /\ \A i \in DOMAIN events : i < Len(r)
  BY <1>5, <1>6, <1>7, <1>8
<1>10. r # <<>>
  BY <1>7
<1> QED  BY <1>1, <1>4, <1>5, <1>7, <1>8, <1>9, <1>10


LEMMA Emitted ==
  ASSUME BackendTypeOK, NEW es \in Seq(Event), Emit(es)
  PROVE  /\ \A i \in DOMAIN events : i \in DOMAIN events' /\ events'[i] = events[i]
         /\ \A i \in DOMAIN events' : i \in DOMAIN events \/ (i > Len(events) /\ \E j \in DOMAIN es : events'[i] = es[j])
         /\ DOMAIN events = 1..Len(events) /\ Len(events) \in Nat
         /\ Len(events') = Len(events) + Len(es) /\ DOMAIN events' = 1..Len(events')
<1>1. events \in Seq(Event) /\ events' = events \o es /\ Len(events) \in Nat
  BY DEF Emit, BackendTypeOK
<1>2. PICK r : r = events \o es
  OBVIOUS
<1>3. /\ Len(r) = Len(events) + Len(es) /\ DOMAIN events = 1..Len(events) /\ DOMAIN r = 1..Len(r)
      /\ \A i \in DOMAIN events : i \in DOMAIN r /\ r[i] = events[i]
      /\ \A i \in DOMAIN r : i \in DOMAIN events \/ (i > Len(events) /\ \E j \in DOMAIN es : r[i] = es[j])
  BY <1>1, <1>2, Queued
<1> QED  BY <1>1, <1>2, <1>3

Kept == \A i \in DOMAIN events : i \in DOMAIN events' /\ events'[i] = events[i]

LEMMA ToldStays ==
  ASSUME Kept, NEW k, ToldAfter(k), prompts' \subseteq prompts
  PROVE  ToldAfter(k)'
BY DEF Kept, ToldAfter, Tells, OfPrompt, About

(* The channel as the goroutine that reads the worker leaves it. *)
LEMMA StaysClosed ==
  ASSUME BackendTypeOK, ClosedLast, UNCHANGED <<bound, state>>,
         open' \/ CloseTransport \/ UNCHANGED <<open, events>>
  PROVE  ClosedLast'
<1>1. CASE open'
  BY <1>1 DEF ClosedLast
<1>2. CASE CloseTransport
  BY <1>2, Closing DEF ClosedLast
<1>3. CASE UNCHANGED <<open, events>>
  BY <1>3 DEF ClosedLast
<1> QED  BY <1>1, <1>2, <1>3

LEMMA AskOpens ==
  ASSUME BackendTypeOK, AskInv, NEW p \in Prompt, Asks(p), UNCHANGED <<bound, approvals, state, gap>>
  PROVE  RestsAreClear' /\ AbsenceInv'
<1>1. prompts' = prompts \cup {p}
  BY DEF Asks
<1>2. CASE open /\ CloseTransport
  <2>1. /\ \A i \in DOMAIN events : i \in DOMAIN events' /\ events'[i] = events[i]
        /\ \A i \in DOMAIN events' : i \in DOMAIN events \/ events'[i] = About("disconnected", NoTurn)
        /\ events'[Len(events')] = About("disconnected", NoTurn)
        /\ Len(events') \in DOMAIN events' /\ \A i \in DOMAIN events : i < Len(events')
    BY <1>2, Closing
  <2>2. \A k : k < Len(events') => ToldAfter(k)'
    BY <2>1 DEF ToldAfter, Tells, About
  <2>3. RestsAreClear'
    BY <2>1, <2>2 DEF RestsAreClear, About
  <2>4. 0 < Len(events')
    <3>1. events' \in Seq(Event)
      <4>1. About("disconnected", NoTurn) \in Event
        BY DEF About, Event, Turn
      <4> QED  BY <1>2, <4>1 DEF CloseTransport, Emit, BackendTypeOK
    <3> QED  BY <2>1, <3>1
  <2> QED  BY <2>2, <2>3, <2>4 DEF AbsenceInv
<1>3. CASE open /\ ~CloseTransport
  <2>1. PICK e \in Event : e = OfPrompt("approval", p)
    BY DEF OfPrompt, Event
  <2>2. PICK es : es = <<e>>
    OBVIOUS
  <2>3. es \in Seq(Event) /\ Len(es) = 1 /\ DOMAIN es = {1} /\ es[1] = e
    BY <2>2
  <2>4. Emit(es)
    BY <1>3, <2>1, <2>2 DEF Asks
  <2>5. /\ Kept /\ \A i \in DOMAIN events' : i \in DOMAIN events \/ (i > Len(events) /\ \E j \in DOMAIN es : events'[i] = es[j])
        /\ DOMAIN events = 1..Len(events) /\ Len(events) \in Nat
        /\ Len(events') = Len(events) + 1 /\ DOMAIN events' = 1..Len(events')
    BY <2>3, <2>4, Emitted DEF Kept
  <2>6. \A i \in DOMAIN events' : i \in DOMAIN events \/ events'[i] = e
    BY <2>3, <2>5
  <2>7. Len(events') \in DOMAIN events' /\ events'[Len(events')] = e /\ \A i \in DOMAIN events : i < Len(events')
    <3>1. Len(events') \in DOMAIN events' /\ Len(events') \notin DOMAIN events /\ \A i \in DOMAIN events : i < Len(events')
      BY <2>5
    <3> QED  BY <2>6, <3>1
  <2>8. ASSUME NEW k, k < Len(events'), ToldAfter(k) PROVE ToldAfter(k)'
    <3>1. \A q \in prompts : \E i \in DOMAIN events' : i > k /\ Tells(events'[i], q)
      BY <2>5, <2>8 DEF ToldAfter, Kept
    <3>2. Tells(events'[Len(events')], p)
      BY <2>1, <2>7 DEF Tells
    <3> QED  BY <1>1, <2>7, <2>8, <3>1, <3>2 DEF ToldAfter, Tells, OfPrompt, About
  <2>9. RestsAreClear'
    <3> SUFFICES ASSUME NEW k \in DOMAIN events', events'[k].kind \in {"busy", "idle", "ended"} PROVE ToldAfter(k)'
      BY DEF RestsAreClear
    <3>1. e.kind = "approval"
      BY <2>1 DEF OfPrompt
    <3>2. k \in DOMAIN events /\ events'[k] = events[k]
      BY <2>5, <2>6, <3>1 DEF Kept
    <3>3. ToldAfter(k) /\ k < Len(events')
      BY <2>7, <3>2 DEF AskInv, RestsAreClear
    <3> QED  BY <2>8, <3>3
  <2>10. AbsenceInv'
    BY <2>5, <2>8 DEF AskInv, AbsenceInv
  <2> QED  BY <2>9, <2>10
<1>4. CASE ~open
  <2>1. UNCHANGED events
    BY <1>4 DEF Asks, backend
  <2>2. CASE events # <<>>
    <3>1. events[Len(events)] = About("disconnected", NoTurn)
      BY <1>4, <2>2 DEF AskInv, ClosedLast
    <3>2. Len(events) \in DOMAIN events /\ 0 < Len(events) /\ \A i \in DOMAIN events : i <= Len(events)
      BY <2>2, EmptySeq DEF BackendTypeOK
    <3>3. \A k : k < Len(events) => ToldAfter(k)'
      BY <2>1, <3>1, <3>2 DEF ToldAfter, Tells, About
    <3>4. \A k \in DOMAIN events : events[k].kind \in {"busy", "idle", "ended"} => k < Len(events)
      <4>1. About("disconnected", NoTurn).kind = "disconnected"
        BY DEF About
      <4> QED  BY <3>1, <3>2, <4>1 DEF BackendTypeOK
    <3> QED  BY <2>1, <3>2, <3>3, <3>4 DEF RestsAreClear, AbsenceInv
  <2>3. CASE events = <<>>
    BY <1>4, <2>1, <2>3 DEF AskInv, ClosedLast, RestsAreClear, AbsenceInv
  <2> QED  BY <2>2, <2>3
<1> QED  BY <1>2, <1>3, <1>4


LEMMA WorkerAsks ==
  ASSUME BackendTypeOK, AskInv, WorkerStep, UNCHANGED <<bound, approvals, state, gap>>
  PROVE  AskInv'
<1>1. /\ OneRuns /\ PromptsRun /\ ClosedLast /\ prompts \subseteq Prompt /\ \A p \in Prompt : p.turn \in Wake
      /\ work \in [Wake -> {"none", "queued", "running", "done", "killed"}]
  BY DEF AskInv, BackendTypeOK, Prompt
<1>2. ASSUME NEW t \in Wake, TakesUp(t) PROVE AskInv'
  <2>1. prompts' = {}
    BY <1>1, <1>2 DEF TakesUp, PromptsRun
  <2>2. OneRuns'
    BY <1>1, <1>2 DEF TakesUp, OneRuns
  <2>3. open' \/ UNCHANGED <<open, events>>
    BY <1>2 DEF TakesUp, backend, BackendTypeOK
  <2> QED  BY <1>1, <2>1, <2>2, <2>3, NothingAsked, StaysClosed DEF AskInv
<1>3. ASSUME NEW p \in Prompt, Asks(p) PROVE AskInv'
  <2>1. UNCHANGED <<work, worker>> /\ prompts' = prompts \cup {p} /\ worker = "alive" /\ work[p.turn] = "running"
    BY <1>3 DEF Asks
  <2>2. OneRuns' /\ PromptsRun'
    BY <1>1, <2>1 DEF OneRuns, PromptsRun
  <2>3. open' \/ CloseTransport \/ UNCHANGED <<open, events>>
    BY <1>3 DEF Asks, backend, BackendTypeOK
  <2>4. RestsAreClear' /\ AbsenceInv'
    BY <1>3, AskOpens
  <2> QED  BY <1>1, <2>2, <2>3, <2>4, StaysClosed DEF AskInv
<1>4. ASSUME NEW p \in Prompt, Withdraws(p) PROVE AskInv'
  <2>1. UNCHANGED <<work, worker>> /\ prompts' \subseteq prompts
    BY <1>4 DEF Withdraws
  <2>2. OneRuns' /\ PromptsRun'
    BY <1>1, <2>1 DEF OneRuns, PromptsRun
  <2>3. open' \/ UNCHANGED <<open, events>>
    BY <1>4 DEF Withdraws, backend, BackendTypeOK
  <2>4. Kept /\ \A i \in DOMAIN events' : i \in DOMAIN events \/ events'[i] = OfPrompt("approval_resolved", p)
    <3>1. CASE UNCHANGED events
      BY <3>1 DEF Kept
    <3>2. CASE Emit(<<OfPrompt("approval_resolved", p)>>)
      <4>1. PICK e \in Event : e = OfPrompt("approval_resolved", p)
        BY DEF OfPrompt, Event
      <4>2. PICK es : es = <<e>>
        OBVIOUS
      <4>3. es \in Seq(Event) /\ DOMAIN es = {1} /\ es[1] = e /\ Emit(es)
        BY <3>2, <4>1, <4>2
      <4>4. Kept /\ \A i \in DOMAIN events' : i \in DOMAIN events \/ \E j \in DOMAIN es : events'[i] = es[j]
        BY <4>3, Emitted DEF Kept
      <4> QED  BY <4>1, <4>3, <4>4
    <3> QED  BY <1>4, <3>1, <3>2 DEF Withdraws, backend
  <2>5. RestsAreClear'
    <3> SUFFICES ASSUME NEW k \in DOMAIN events', events'[k].kind \in {"busy", "idle", "ended"} PROVE ToldAfter(k)'
      BY DEF RestsAreClear
    <3>1. OfPrompt("approval_resolved", p).kind = "approval_resolved"
      BY DEF OfPrompt
    <3>2. k \in DOMAIN events /\ events'[k] = events[k]
      BY <2>4, <3>1 DEF Kept
    <3>3. ToldAfter(k)
      BY <3>2 DEF AskInv, RestsAreClear
    <3> QED  BY <2>1, <2>4, <3>3, ToldStays
  <2>6. AbsenceInv'
    BY <2>1, <2>4, ToldStays DEF AskInv, AbsenceInv
  <2> QED  BY <1>1, <2>2, <2>3, <2>5, <2>6, StaysClosed DEF AskInv
<1>5. ASSUME NEW t \in Wake, NEW terminal \in BOOLEAN, NEW named \in BOOLEAN, Finishes(t, terminal, named) PROVE AskInv'
  <2>1. prompts' = {}
    BY <1>1, <1>5, OnlyOne DEF Finishes, PromptsOf
  <2>2. OneRuns'
    BY <1>1, <1>5 DEF Finishes, OneRuns
  <2>3. open' \/ UNCHANGED <<open, events>>
    BY <1>5 DEF Finishes, backend, BackendTypeOK
  <2> QED  BY <1>1, <2>1, <2>2, <2>3, NothingAsked, StaysClosed DEF AskInv
<1>6. CASE Archived
  <2>1. prompts' = {} /\ work' = work
    BY <1>1, <1>6 DEF Archived, PromptsRun, native
  <2>2. OneRuns'
    BY <1>1, <2>1 DEF OneRuns
  <2>3. open'
    BY <1>6 DEF Archived
  <2> QED  BY <1>1, <2>1, <2>2, <2>3, NothingAsked, StaysClosed DEF AskInv
<1>7. CASE WorkerDies
  <2>1. prompts' = {}
    BY <1>7 DEF WorkerDies
  <2>2. OneRuns'
    BY <1>1, <1>7 DEF WorkerDies, OneRuns
  <2>3. CloseTransport \/ UNCHANGED <<open, events>>
    BY <1>7 DEF WorkerDies, backend
  <2> QED  BY <1>1, <2>1, <2>2, <2>3, NothingAsked, StaysClosed DEF AskInv
<1> QED  BY <1>2, <1>3, <1>4, <1>5, <1>6, <1>7 DEF WorkerStep

(* The controller takes an event: one that says the worker is busy or at   *)
(* rest has behind it what it asks since.                                  *)
LEMMA ObserveAsks ==
  ASSUME ControllerTypeOK, AskInv, Observe \/ ObserveFails
  PROVE  AskInv'
<1>1. /\ UNCHANGED <<worker, work, prompts, open, bound>> /\ events # <<>> /\ events' = Tail(events) /\ events \in Seq(Event)
  BY DEF Observe, ObserveFails, NextEvent, native, ControllerTypeOK, BackendTypeOK
<1>2. OneRuns' /\ PromptsRun'
  BY <1>1 DEF AskInv, OneRuns, PromptsRun
<1>3. PICK e, n : e = Head(events) /\ n = Len(events)
  OBVIOUS
<1>4. /\ e = events[1] /\ DOMAIN events = 1..n /\ DOMAIN events' = 1..(n - 1) /\ Len(events') = n - 1
      /\ \A i \in 1..(n - 1) : events'[i] = events[i + 1]
      /\ events' \in Seq(Event) /\ n \in Nat \ {0}
  BY <1>1, <1>3, Dequeued
<1>5. ASSUME NEW k \in Nat, ToldAfter(k + 1) PROVE ToldAfter(k)'
  <2> SUFFICES ASSUME NEW p \in prompts PROVE \E i \in DOMAIN events' : i > k /\ Tells(events'[i], p)
    BY <1>1 DEF ToldAfter, Tells, OfPrompt, About
  <2>1. PICK i \in DOMAIN events : i > k + 1 /\ Tells(events[i], p)
    BY <1>5 DEF ToldAfter
  <2>2. i - 1 \in 1..(n - 1) /\ i - 1 > k /\ (i - 1) + 1 = i
    BY <1>4, <2>1
  <2> QED  BY <1>4, <2>1, <2>2
<1>6. RestsAreClear'
  <2> SUFFICES ASSUME NEW k \in 1..(n - 1), events'[k].kind \in {"busy", "idle", "ended"} PROVE ToldAfter(k)'
    BY <1>4 DEF RestsAreClear
  <2>1. k + 1 \in DOMAIN events /\ events[k + 1] = events'[k] /\ k \in Nat
    BY <1>4
  <2>2. ToldAfter(k + 1)
    BY <2>1 DEF AskInv, RestsAreClear
  <2> QED  BY <1>5, <2>1, <2>2
<1>7. \/ gap' /\ state' = "unknown"
      \/ approvals' = ApprovalsAfter(e) /\ state' = StateAfter(e) /\ gap' = GapAfter(e)
  BY <1>3 DEF Observe, ObserveFails
<1>8. AbsenceInv'
  <2> SUFFICES ASSUME bound, ~gap', approvals' = {}, state' = "observed" PROVE ToldAfter(0)'
    BY <1>1 DEF AbsenceInv
  <2>1. approvals' = ApprovalsAfter(e) /\ state' = StateAfter(e) /\ gap' = GapAfter(e)
    BY <1>7
  <2>2. CASE e.kind \in {"busy", "idle", "ended"}
    <3>1. ToldAfter(1)
      BY <1>4, <2>2 DEF AskInv, RestsAreClear
    <3> QED  BY <1>5, <3>1
  <2>3. CASE e.kind = "approval"
    BY <2>1, <2>3 DEF ApprovalsAfter, StateAfter
  <2>4. CASE e.kind \in {"approval_resolved", "disconnected"}
    BY <2>1, <2>4 DEF ApprovalsAfter, StateAfter
  <2>5. CASE e.kind \notin {"busy", "idle", "ended", "approval", "approval_resolved", "disconnected"}
    <3>1. approvals = {} /\ state = "observed" /\ ~gap
      BY <2>1, <2>5 DEF ApprovalsAfter, StateAfter, GapAfter
    <3>2. ToldAfter(0)
      BY <3>1 DEF AskInv, AbsenceInv
    <3>3. \A p : ~Tells(e, p)
      BY <2>5 DEF Tells, OfPrompt, About
    <3>4. ToldAfter(1)
      BY <1>4, <3>2, <3>3 DEF ToldAfter
    <3> QED  BY <1>5, <3>4
  <2> QED  BY <2>2, <2>3, <2>4, <2>5
<1>9. ClosedLast'
  <2> SUFFICES ASSUME ~open PROVE IF events' = <<>> THEN state' = "unknown"
                                  ELSE events'[Len(events')] = About("disconnected", NoTurn)
    BY <1>1 DEF ClosedLast
  <2>1. events[n] = About("disconnected", NoTurn)
    BY <1>1, <1>3 DEF AskInv, ClosedLast
  <2>2. CASE events' = <<>>
    <3>1. n = 1
      BY <1>4, <2>2, EmptySeq
    <3>2. e.kind = "disconnected"
      BY <1>4, <2>1, <3>1 DEF About
    <3> QED  BY <1>7, <2>2, <3>2 DEF StateAfter
  <2>3. CASE events' # <<>>
    <3>1. n - 1 \in 1..(n - 1)
      BY <1>4, <2>3, EmptySeq
    <3> QED  BY <1>4, <2>1, <2>3, <3>1
  <2> QED  BY <2>2, <2>3
<1> QED  BY <1>2, <1>6, <1>8, <1>9 DEF AskInv


(* A channel that opens is empty, and a worker that is not there asks nothing. *)
LEMMA AskLaunches ==
  ASSUME BackendTypeOK, AskInv, worker # "alive", Bind
  PROVE  AskInv'
<1>1. /\ prompts' = {} /\ UNCHANGED work /\ open' /\ events' = <<>>
  BY DEF Bind, Launch, AskInv, PromptsRun
<1> QED  BY <1>1, OnePrompt, NothingAsked DEF AskInv, ClosedLast

LEMMA AskDies ==
  ASSUME AskInv, Dies
  PROVE  AskInv'
<1>1. /\ UNCHANGED <<worker, work, prompts>> /\ ~bound' /\ events' = <<>> /\ state' = "unknown"
  BY DEF Dies, Detach, native
<1>2. OneRuns' /\ PromptsRun'
  BY <1>1 DEF AskInv, OneRuns, PromptsRun
<1>3. RestsAreClear' /\ AbsenceInv' /\ ClosedLast'
  BY <1>1 DEF RestsAreClear, AbsenceInv, ClosedLast
<1> QED  BY <1>2, <1>3 DEF AskInv

(* The calls: none asks, and what they change of a receipt makes it unknown. *)
LEMMA AskCalls ==
  ASSUME AskInv, prompts' \subseteq prompts,
         UNCHANGED <<worker, open, events, bound, gap>>,
         OneRuns', \A t \in Wake : work[t] = "running" => work'[t] = "running",
         \A p \in prompts : p.turn \in Wake,
         UNCHANGED <<approvals, state>> \/ state' = "unknown"
  PROVE  AskInv'
<1>1. PromptsRun'
  BY DEF AskInv, PromptsRun
<1>2. \A k : ToldAfter(k) => ToldAfter(k)'
  BY DEF ToldAfter, Tells, OfPrompt, About
<1>3. RestsAreClear' /\ AbsenceInv' /\ ClosedLast'
  BY <1>2 DEF AskInv, RestsAreClear, AbsenceInv, ClosedLast
<1> QED  BY <1>1, <1>3 DEF AskInv

LEMMA AskStep ==
  ASSUME ControllerTypeOK, AskInv, [Next]_vars
  PROVE  AskInv'
<1>1. /\ BackendTypeOK /\ OneRuns /\ work \in [Wake -> {"none", "queued", "running", "done", "killed"}]
      /\ \A p \in prompts : p.turn \in Wake
  BY DEF ControllerTypeOK, BackendTypeOK, AskInv, Prompt
<1>2. CASE Start \/ Resume
  BY <1>1, <1>2, AskLaunches DEF Start, Resume
<1>3. CASE Dies
  BY <1>3, AskDies
<1>4. CASE Observe \/ ObserveFails
  BY <1>4, ObserveAsks
<1>5. CASE WorkerMoves
  BY <1>1, <1>5, WorkerAsks DEF WorkerMoves, memory
<1>6. CASE SendWrites
  <2>1. \/ UNCHANGED <<work, prompts>>
        \/ prompts' = prompts /\ work' = [work EXCEPT ![Joins(call.wake)] = IF @ = "none" THEN "queued" ELSE @]
    BY <1>6 DEF SendWrites, Arrives, native
  <2>2. \A t \in Wake : work'[t] = work[t] \/ (work[t] = "none" /\ work'[t] = "queued")
    BY <1>1, <2>1
  <2>3. /\ prompts' \subseteq prompts /\ OneRuns'
        /\ \A t \in Wake : work[t] = "running" => work'[t] = "running"
    BY <1>1, <2>1, <2>2 DEF OneRuns
  <2>4. UNCHANGED <<worker, open, events, bound, gap, approvals, state>>
    BY <1>6 DEF SendWrites, SendReserves, Arrives, native, backend, memory
  <2> QED  BY <1>1, <2>3, <2>4, AskCalls
<1>7. CASE ApproveWrites
  <2>1. prompts' \subseteq prompts /\ UNCHANGED <<work, worker, open, events, bound, gap, approvals, state>>
    BY <1>7 DEF ApproveWrites, ApproveReserves, Answered, native, memory
  <2>2. OneRuns'
    BY <1>1, <2>1, OnePrompt
  <2> QED  BY <1>1, <2>1, <2>2, AskCalls
<1>8. CASE /\ UNCHANGED <<worker, work, prompts, open, events, bound, gap>>
           /\ UNCHANGED <<approvals, state>> \/ state' = "unknown"
  <2>1. OneRuns'
    BY <1>1, <1>8, OnePrompt
  <2> QED  BY <1>1, <1>8, <2>1, AskCalls
<1>9. ASSUME NEW m \in Wake, SendIntends(m) PROVE AskInv'
  BY <1>8, <1>9 DEF SendIntends, backendVars, native, backend
<1>10. CASE SendRefused
  BY <1>8, <1>10 DEF SendRefused, backendVars, native, backend, memory
<1>11. ASSUME NEW t \in Wake, SendReplied(t) PROVE AskInv'
  BY <1>8, <1>11 DEF SendReplied, SendLearns, SendEnds, native, backend
<1>12. CASE SendUncertain
  BY <1>8, <1>12 DEF SendUncertain, SendEnds, native, backend
<1>13. CASE SendReleases
  BY <1>8, <1>13 DEF SendReleases, backendVars, native, backend
<1>14. ASSUME NEW p \in Prompt, ApproveIntends(p) PROVE AskInv'
  BY <1>8, <1>14 DEF ApproveIntends, backendVars, native, backend
<1>15. CASE ApproveRefused
  BY <1>8, <1>15 DEF ApproveRefused, backendVars, native, backend
<1>16. CASE ApproveEnds
  BY <1>8, <1>16 DEF ApproveEnds, backendVars, native, backend
<1>17. CASE UNCHANGED vars
  BY <1>8, <1>17 DEF vars, backendVars, native, backend, memory
<1> QED
  BY <1>2, <1>3, <1>4, <1>5, <1>6, <1>7, <1>9, <1>10, <1>11, <1>12, <1>13, <1>14, <1>15, <1>16, <1>17 DEF Next

(* A receipt that says no approval is pending is right about each one the  *)
(* worker waits for, but for those on their way to the controller, and one *)
(* that says a wake was delivered is right about it: for any wakes,        *)
(* prompts, adapters and room in the channel (receipt, observe).           *)
THEOREM ReceiptsStayTrue == Spec => []ReceiptsAreTrue
<1>1. ControllerInit => AskInv
  <2> SUFFICES ASSUME ControllerInit PROVE AskInv
    OBVIOUS
  <2>1. prompts = {} /\ events = <<>> /\ state = "unknown" /\ \A t \in Wake : work[t] = "none"
    BY DEF ControllerInit, BackendInit
  <2> QED  BY <2>1 DEF AskInv, OneRuns, PromptsRun, RestsAreClear, AbsenceInv, ClosedLast
<1>2. ControllerTypeOK /\ AskInv => AbsenceIsTrue
  <2> SUFFICES ASSUME ControllerTypeOK, AskInv, bound, PendingApproval = "observed_absent", NEW p \in prompts
               PROVE  \E i \in DOMAIN events : events[i] \in {OfPrompt("approval", p), About("disconnected", NoTurn)}
    BY DEF AbsenceIsTrue
  <2>1. ~gap /\ approvals = {} /\ state = "observed"
    BY DEF PendingApproval, ControllerTypeOK
  <2>2. ToldAfter(0)
    BY <2>1 DEF AskInv, AbsenceInv
  <2> QED  BY <2>2 DEF ToldAfter, Tells
<1>3. AbsenceIsTrue /\ DeliveredIsTrue => ReceiptsAreTrue
  BY DEF ReceiptsAreTrue
<1> QED  BY <1>1, <1>2, <1>3, AskStep, ControllerTypeCorrect, DeliveriesAreReal, PTL DEF Spec


-----------------------------------------------------------------------------
(* A Claude worker keeps a turn that is done, and makes none of its own.   *)
LEMMA DoneStays ==
  ASSUME BackendTypeOK, Claude, WorkerStep, NEW t \in Wake
  PROVE  /\ work[t] = "done" => work'[t] = "done"
         /\ work[t] = "none" => work'[t] = "none"
<1>1. ASSUME NEW u \in Wake, TakesUp(u) PROVE work' = [work EXCEPT ![u] = "running"] /\ work[u] = "queued"
  BY <1>1 DEF TakesUp, Claude, Codex
<1>2. ASSUME NEW u \in Wake, NEW b, NEW n, Finishes(u, b, n)
      PROVE  work' = [work EXCEPT ![u] = "done"] /\ work[u] = "running"
  BY <1>2 DEF Finishes
<1>3. ASSUME NEW p \in Prompt, Asks(p) \/ Withdraws(p) PROVE work' = work
  BY <1>3 DEF Asks, Withdraws
<1>4. ~Archived
  BY DEF Archived, Claude, Codex
<1>5. CASE WorkerDies
  BY <1>5 DEF WorkerDies
<1> QED  BY <1>1, <1>2, <1>3, <1>4, <1>5 DEF WorkerStep, BackendTypeOK

(* What is published of a turn that is done. *)
LEMMA ResultsEmitted ==
  ASSUME BackendTypeOK, ResultsAreDone, NEW es \in Seq(Event), Emit(es),
         \A t \in Wake : work[t] = "done" => work'[t] = "done",
         \A j \in DOMAIN es : es[j].kind = "result" /\ es[j].turn \in Wake => work'[es[j].turn] = "done"
  PROVE  ResultsAreDone'
<1>1. /\ \A i \in DOMAIN events : i \in DOMAIN events' /\ events'[i] = events[i]
      /\ \A i \in DOMAIN events' : i \in DOMAIN events \/ \E j \in DOMAIN es : events'[i] = es[j]
  BY Emitted
<1> SUFFICES ASSUME NEW i \in DOMAIN events', events'[i].kind = "result", events'[i].turn \in Wake
             PROVE  work'[events'[i].turn] = "done"
  BY DEF ResultsAreDone
<1>2. CASE i \in DOMAIN events
  BY <1>1, <1>2 DEF ResultsAreDone
<1>3. CASE \E j \in DOMAIN es : events'[i] = es[j]
  BY <1>3
<1> QED  BY <1>1, <1>2, <1>3

LEMMA ResultsKept ==
  ASSUME ResultsAreDone, UNCHANGED events, \A t \in Wake : work[t] = "done" => work'[t] = "done"
  PROVE  ResultsAreDone'
BY DEF ResultsAreDone

LEMMA OneEmitted ==
  ASSUME BackendTypeOK, ResultsAreDone, NEW e \in Event, Emit(<<e>>),
         \A t \in Wake : work[t] = "done" => work'[t] = "done",
         e.kind = "result" /\ e.turn \in Wake => work'[e.turn] = "done"
  PROVE  ResultsAreDone'
<1>1. PICK es : es = <<e>>
  OBVIOUS
<1>2. es \in Seq(Event) /\ DOMAIN es = {1} /\ es[1] = e /\ Emit(es)
  BY <1>1
<1> QED  BY <1>2, ResultsEmitted

LEMMA TwoEmitted ==
  ASSUME BackendTypeOK, ResultsAreDone, NEW e \in Event, NEW f \in Event, Emit(<<e, f>>),
         \A t \in Wake : work[t] = "done" => work'[t] = "done",
         e.kind = "result" /\ e.turn \in Wake => work'[e.turn] = "done", f.kind # "result"
  PROVE  ResultsAreDone'
<1>1. PICK es : es = <<e, f>>
  OBVIOUS
<1>2. es \in Seq(Event) /\ DOMAIN es = {1, 2} /\ es[1] = e /\ es[2] = f /\ Emit(es)
  BY <1>1
<1> QED  BY <1>2, ResultsEmitted

(* The worker ends a turn before it says so. *)
LEMMA WorkerRests ==
  ASSUME BackendTypeOK, Claude, ResultsAreDone, WorkerStep
  PROVE  ResultsAreDone'
<1>0. \A t \in Wake : work[t] = "done" => work'[t] = "done"
  BY DoneStays
<1>1. ASSUME NEW t \in Wake, TakesUp(t) PROVE ResultsAreDone'
  <2>1. PICK e, f : e = About("acknowledged", t) /\ f = About("busy", t)
    OBVIOUS
  <2>2. e \in Event /\ f \in Event /\ e.kind # "result" /\ f.kind # "result"
    BY <2>1 DEF About, Event, Turn
  <2>3. UNCHANGED events \/ Emit(<<e, f>>)
    BY <1>1, <2>1 DEF TakesUp, Claude, backend
  <2> QED  BY <1>0, <2>2, <2>3, ResultsKept, TwoEmitted
<1>2. CASE CloseTransport
  <2>1. PICK e \in Event : e = About("disconnected", NoTurn)
    BY DEF About, Event, Turn
  <2>2. e.kind # "result" /\ Emit(<<e>>)
    BY <1>2, <2>1 DEF CloseTransport, About
  <2> QED  BY <1>0, <2>2, OneEmitted
<1>3. ASSUME NEW p \in Prompt, Asks(p) PROVE ResultsAreDone'
  <2>1. PICK e \in Event : e = OfPrompt("approval", p)
    BY DEF OfPrompt, Event
  <2>2. e.kind # "result"
    BY <2>1 DEF OfPrompt
  <2>3. UNCHANGED events \/ CloseTransport \/ Emit(<<e>>)
    BY <1>3, <2>1 DEF Asks, backend
  <2> QED  BY <1>0, <1>2, <2>2, <2>3, ResultsKept, OneEmitted
<1>4. ASSUME NEW p \in Prompt, Withdraws(p) PROVE ResultsAreDone'
  <2>1. PICK e \in Event : e = OfPrompt("approval_resolved", p)
    BY DEF OfPrompt, Event
  <2>2. e.kind # "result"
    BY <2>1 DEF OfPrompt
  <2>3. UNCHANGED events \/ Emit(<<e>>)
    BY <1>4, <2>1 DEF Withdraws, backend
  <2> QED  BY <1>0, <2>2, <2>3, ResultsKept, OneEmitted
<1>5. ASSUME NEW t \in Wake, NEW b \in BOOLEAN, NEW n \in BOOLEAN, Finishes(t, b, n) PROVE ResultsAreDone'
  <2>1. PICK e, f, g : e = ResultOf(t, b) /\ f = About("idle", t) /\ g = ResultOf(NoTurn, b)
    OBVIOUS
  <2>2. /\ e \in Event /\ f \in Event /\ g \in Event
        /\ e.turn = t /\ f.kind # "result" /\ g.turn \notin Wake
    BY <2>1, NoTurnAssumption DEF ResultOf, About, Event, Turn
  <2>3. UNCHANGED events \/ Emit(<<e, f>>) \/ Emit(<<g>>)
    BY <1>5, <2>1 DEF Finishes, Claude, backend
  <2>4. work'[t] = "done"
    BY <1>5 DEF Finishes, BackendTypeOK
  <2> QED  BY <1>0, <2>2, <2>3, <2>4, ResultsKept, OneEmitted, TwoEmitted
<1>6. ~Archived
  BY DEF Archived, Claude, Codex
<1>7. CASE WorkerDies
  <2>1. CloseTransport \/ UNCHANGED events
    BY <1>7 DEF WorkerDies, backend
  <2> QED  BY <1>0, <1>2, <2>1, ResultsKept
<1> QED  BY <1>1, <1>3, <1>4, <1>5, <1>6, <1>7 DEF WorkerStep

(* No event but its result ends a turn in the journal.                     *)
LEMMA RecoveredDone ==
  ASSUME NEW turns \in [Turn -> Recovery], NEW e \in Event, NEW t \in Wake,
         Recovered(turns, e)[t] \in {"result", "complete"}
  PROVE  turns[t] \in {"result", "complete"} \/ (e.kind = "result" /\ e.turn = t)
<1>1. t \in Turn
  BY DEF Turn
<1>2. CASE e.kind \in {"acknowledged", "busy"}
  BY <1>1, <1>2 DEF Recovered, Event
<1>3. CASE e.kind \in {"approval", "approval_resolved"}
  BY <1>1, <1>3 DEF Recovered, Event, Prompt
<1>4. CASE e.kind = "result"
  BY <1>1, <1>4 DEF Recovered, Event
<1>5. CASE e.kind = "idle"
  BY <1>1, <1>5 DEF Recovered, Event
<1>6. CASE e.kind \in {"ended", "disconnected"}
  BY <1>1, <1>6 DEF Recovered, Event
<1> QED  BY <1>2, <1>3, <1>4, <1>5, <1>6 DEF Event

LEMMA Agreeing ==
  ASSUME JournalIsDone, NEW j, j.torn = journal.torn,
         \A t \in Wake : j.turns[t] \in {"result", "complete"} =>
           journal.turns[t] \in {"result", "complete"} \/ work[t] = "done",
         \A t \in Wake : j.sent[t].state = "delivered" =>
           j.sent[t] = journal.sent[t] \/ j.sent[t].turn = t
  PROVE  DoneIn(j)
<1> SUFFICES ASSUME ~j.torn, NEW t \in Wake
             PROVE  /\ j.turns[t] \in {"result", "complete"} => work[t] = "done"
                    /\ j.sent[t].state = "delivered" => j.sent[t].turn = t
  BY Zenon DEF DoneIn
<1>1. /\ journal.turns[t] \in {"result", "complete"} => work[t] = "done"
      /\ journal.sent[t].state = "delivered" => journal.sent[t].turn = t
  BY DEF JournalIsDone, DoneIn
<1>2. j.turns[t] \in {"result", "complete"} => work[t] = "done"
  BY <1>1
<1>3. j.sent[t].state = "delivered" => j.sent[t].turn = t
  BY <1>1
<1> QED  BY <1>2, <1>3

(* Nor does any other row the controller writes.                           *)
LEMMA BoundAgrees ==
  ASSUME journal \in Journal, JournalIsDone
  PROVE  DoneIn(Replayed(journal, BoundRow))
<1>1. PICK j : j = Replayed(journal, BoundRow)
  OBVIOUS
<1>2. j.torn = journal.torn /\ j.turns = journal.turns /\ j.sent = journal.sent
  BY <1>1 DEF Replayed, BoundRow, Journal
<1>3. DoneIn(j)
  BY <1>2, Agreeing
<1> QED  BY <1>1, <1>3

LEMMA RefusalAgrees ==
  ASSUME journal \in Journal, JournalIsDone, NEW m \in Wake
  PROVE  DoneIn(Replayed(journal, RefusedRow(m)))
<1>1. PICK j : j = Replayed(journal, RefusedRow(m))
  OBVIOUS
<1>2. CASE journal.sent[m] = Intent
  <2>1. j = [journal EXCEPT !.sent[m] = NoDelivery]
    BY <1>1, <1>2 DEF Replayed, RefusedRow
  <2>2. j.torn = journal.torn /\ j.turns = journal.turns /\ j.sent = [journal.sent EXCEPT ![m] = NoDelivery]
    BY <2>1 DEF Journal
  <2>3. \A t \in Wake : j.sent[t] = journal.sent[t] \/ j.sent[t].state = "none"
    BY <2>2 DEF Journal, NoDelivery
  <2>4. DoneIn(j)
    BY <2>2, <2>3, Agreeing
  <2> QED  BY <1>1, <2>4
<1>3. CASE journal.sent[m] # Intent
  <2>1. j.torn
    BY <1>1, <1>3 DEF Replayed, RefusedRow, Journal
  <2>2. DoneIn(j)
    BY <2>1 DEF DoneIn
  <2> QED  BY <1>1, <2>2
<1> QED  BY <1>2, <1>3

LEMMA AnswerAgrees ==
  ASSUME journal \in Journal, JournalIsDone, Claude, NEW p \in Prompt, NEW b \in BOOLEAN
  PROVE  DoneIn(Replayed(journal, AnswerRow(p, b)))
<1>1. PICK j : j = Replayed(journal, AnswerRow(p, b))
  OBVIOUS
<1>2. j.sent = journal.sent /\ j.torn = journal.torn
  BY <1>1, AnswersRead
<1>3. j.turns = [journal.turns EXCEPT ![p.turn] = "active"]
  BY <1>1 DEF Replayed, AnswerRow, Journal
<1>4. \A t \in Wake : j.turns[t] \in {journal.turns[t], "active"}
  BY <1>3 DEF Journal, Turn
<1>5. DoneIn(j)
  BY <1>2, <1>4, Agreeing
<1> QED  BY <1>1, <1>5

LEMMA WakeAgrees ==
  ASSUME journal \in Journal, JournalIsDone, NEW m \in Wake,
         NEW d \in Delivery, d.state = "delivered" => d.turn = m
  PROVE  DoneIn(Replayed(journal, WakeRow(m, d)))
<1>1. PICK j : j = Replayed(journal, WakeRow(m, d))
  OBVIOUS
<1>2. j = [journal EXCEPT !.sent[m] = d]
  BY <1>1 DEF Replayed, WakeRow
<1>3. j.torn = journal.torn /\ j.turns = journal.turns /\ j.sent = [journal.sent EXCEPT ![m] = d]
  BY <1>2 DEF Journal
<1>4. \A t \in Wake : j.sent[t].state = "delivered" => j.sent[t] = journal.sent[t] \/ j.sent[t].turn = t
  BY <1>3 DEF Journal
<1>5. DoneIn(j)
  BY <1>3, <1>4, Agreeing
<1> QED  BY <1>1, <1>5

LEMMA EventsAgree ==
  ASSUME journal \in Journal, JournalIsDone, Claude, NEW e \in Event,
         e.kind = "result" /\ e.turn \in Wake => work[e.turn] = "done"
  PROVE  DoneIn(Replayed(journal, EventRow(e)))
<1>1. PICK j : j = Replayed(journal, EventRow(e))
  OBVIOUS
<1>2. j.sent = journal.sent /\ j.torn = journal.torn /\ j.turns = Recovered(journal.turns, e)
  BY <1>1 DEF Replayed, EventRow, Journal
<1>3. journal.turns \in [Turn -> Recovery]
  BY DEF Journal
<1>4. \A t \in Wake : j.turns[t] \in {"result", "complete"} =>
        journal.turns[t] \in {"result", "complete"} \/ work[t] = "done"
  BY <1>2, <1>3, RecoveredDone
<1>5. DoneIn(j)
  BY <1>2, <1>4, Agreeing
<1> QED  BY <1>1, <1>5

LEMMA RowRests ==
  ASSUME journal \in Journal, JournalIsDone, NEW r, Persist(r), DoneIn(Replayed(journal, r)), UNCHANGED work
  PROVE  JournalIsDone'
<1>1. journal' = journal \/ journal' = Replayed(journal, r) \/ journal'.torn
  BY PersistCases
<1>2. PICK j : j = Replayed(journal, r)
  OBVIOUS
<1>3. journal' = journal \/ journal' = j \/ journal'.torn
  BY <1>1, <1>2
<1>4. DoneIn(j)
  BY <1>2
<1> QED  BY <1>3, <1>4 DEF JournalIsDone, DoneIn

LEMMA WorkRests ==
  ASSUME JournalIsDone, UNCHANGED journal, \A t \in Wake : work[t] = "done" => work'[t] = "done"
  PROVE  JournalIsDone'
BY DEF JournalIsDone, DoneIn

LEMMA HarnessStays == ASSUME [Next]_vars PROVE UNCHANGED harness
<1>1. ASSUME WorkerStep PROVE UNCHANGED harness
  BY <1>1 DEF WorkerStep, TakesUp, Asks, Withdraws, Finishes, Archived, WorkerDies
<1> QED
  BY <1>1 DEF Next, Start, Resume, Bind, Dies, SendIntends, SendRefused, SendWrites, SendUncertain, SendReleases,
              SendReplied, SendEnds, ApproveIntends, ApproveRefused, ApproveWrites, ApproveEnds, Observe,
              ObserveFails, NextEvent, WorkerMoves, vars, backendVars

(* Each step keeps it, for Claude.                                         *)
LEMMA RestStep ==
  ASSUME ControllerInv, RestInv, [Next]_vars
  PROVE  RestInv'
<1> SUFFICES ASSUME Claude' PROVE ResultsAreDone' /\ JournalIsDone' /\ TurnsAreWakes'
  BY DEF RestInv
<1>1. Claude
  BY HarnessStays DEF Claude
<1>2. /\ ResultsAreDone /\ JournalIsDone /\ TurnsAreWakes
      /\ BackendTypeOK /\ journal \in Journal /\ call \in Call /\ inputs \in [Wake -> Nat]
      /\ work \in [Wake -> {"none", "queued", "running", "done", "killed"}]
  BY <1>1 DEF RestInv, ControllerInv, ControllerTypeOK, BackendTypeOK
<1>3. ASSUME UNCHANGED <<work, inputs>> PROVE TurnsAreWakes'
  BY <1>2, <1>3 DEF TurnsAreWakes
<1>4. ASSUME UNCHANGED <<work, inputs>>, NEW r, Persist(r), DoneIn(Replayed(journal, r))
      PROVE  JournalIsDone' /\ TurnsAreWakes'
  BY <1>2, <1>3, <1>4, RowRests
<1>5. ASSUME UNCHANGED <<work, inputs, journal>> PROVE JournalIsDone' /\ TurnsAreWakes'
  BY <1>2, <1>3, <1>5, WorkRests
<1>6. ASSUME UNCHANGED <<work, events>> PROVE ResultsAreDone'
  BY <1>2, <1>6, ResultsKept
<1>7. ASSUME events' = <<>> PROVE ResultsAreDone'
  BY <1>7 DEF ResultsAreDone
<1>8. CASE Start \/ Resume
  <2>1. UNCHANGED <<work, inputs>> /\ Persist(BoundRow) /\ events' = <<>>
    BY <1>8 DEF Start, Resume, Bind, Launch, history
  <2> QED  BY <1>2, <1>4, <1>7, <2>1, BoundAgrees
<1>9. CASE Dies
  <2>1. UNCHANGED <<work, inputs, journal>> /\ events' = <<>>
    BY <1>9 DEF Dies, Detach, native, history
  <2> QED  BY <1>5, <1>7, <2>1
<1>10. ASSUME NEW m \in Wake, SendIntends(m) PROVE ResultsAreDone' /\ JournalIsDone' /\ TurnsAreWakes'
  <2>1. UNCHANGED <<work, inputs, events>> /\ Persist(WakeRow(m, Intent))
    BY <1>10 DEF SendIntends, Persist, backendVars, native, backend, history
  <2>2. Intent \in Delivery /\ Intent.state # "delivered"
    BY DEF Intent, Delivery, Turn
  <2>3. DoneIn(Replayed(journal, WakeRow(m, Intent)))
    BY <1>2, <2>2, WakeAgrees
  <2> QED  BY <1>4, <1>6, <2>1, <2>3
<1>11. CASE SendRefused \/ ApproveRefused
  <2>1. UNCHANGED <<work, inputs, events, journal>>
    BY <1>11 DEF SendRefused, ApproveRefused, backendVars, native, backend, history
  <2> QED  BY <1>5, <1>6, <2>1
<1>12. CASE SendWrites
  <2>1. /\ call.wake \in Wake /\ UNCHANGED <<journal, events>>
        /\ Joins(call.wake) = call.wake
    BY <1>1, <1>2, <1>12, NoTurnAssumption
       DEF SendWrites, Sending, Call, SendReserves, SendRefuses, Joins, Claude
  <2>2. \/ UNCHANGED <<work, inputs>>
        \/ /\ work' = [work EXCEPT ![call.wake] = IF @ = "none" THEN "queued" ELSE @]
           /\ inputs' = [inputs EXCEPT ![call.wake] = @ + 1]
    BY <1>12, <2>1 DEF SendWrites, Arrives, native
  <2>3. \A t \in Wake : work[t] = "done" => work'[t] = "done"
    BY <1>2, <2>1, <2>2
  <2>4. TurnsAreWakes'
    BY <1>2, <2>1, <2>2 DEF TurnsAreWakes
  <2> QED  BY <1>2, <2>1, <2>3, <2>4, ResultsKept, WorkRests
<1>13. ASSUME NEW d \in Delivery, call.op = "send", d.state = "delivered" => d.turn = call.wake,
              SendEnds(d), UNCHANGED events
       PROVE  ResultsAreDone' /\ JournalIsDone' /\ TurnsAreWakes'
  <2>1. call.wake \in Wake /\ UNCHANGED <<work, inputs>> /\ Persist(WakeRow(call.wake, d))
    BY <1>2, <1>13 DEF SendEnds, Call, native, history
  <2>2. DoneIn(Replayed(journal, WakeRow(call.wake, d)))
    BY <1>2, <1>13, <2>1, WakeAgrees
  <2> QED  BY <1>4, <1>6, <1>13, <2>1, <2>2
<1>14. ASSUME NEW t \in Wake, SendReplied(t) PROVE ResultsAreDone' /\ JournalIsDone' /\ TurnsAreWakes'
  <2>1. PICK d : d = [state |-> "delivered", turn |-> t]
    OBVIOUS
  <2>2. t = call.wake /\ call.op = "send" /\ SendEnds(d) /\ UNCHANGED events
    BY <1>1, <1>14, <2>1 DEF SendReplied, SendAccepted, Sending, SendLearns, backend
  <2>3. d \in Delivery /\ d.turn = t
    BY <2>1, DeliveryTypes
  <2> QED  BY <1>13, <2>2, <2>3
<1>15. CASE SendUncertain
  <2>1. call.op = "send" /\ SendEnds(call.delivery) /\ UNCHANGED events
    BY <1>15 DEF SendUncertain, Sending, backend
  <2>2. call.delivery \in Delivery /\ call.delivery.state = "unknown"
    BY <1>2, <2>1 DEF Call, ControllerInv, SendIsFirst
  <2> QED  BY <1>13, <2>1, <2>2
<1>16. CASE SendReleases
  <2>1. call.wake \in Wake /\ UNCHANGED <<work, inputs, events>> /\ Persist(RefusedRow(call.wake))
    BY <1>2, <1>16 DEF SendReleases, Sending, Call, Persist, backendVars, native, backend, history
  <2>2. DoneIn(Replayed(journal, RefusedRow(call.wake)))
    BY <1>2, <2>1, RefusalAgrees
  <2> QED  BY <1>4, <1>6, <2>1, <2>2
<1>17. ASSUME NEW p \in Prompt, ApproveIntends(p) PROVE ResultsAreDone' /\ JournalIsDone' /\ TurnsAreWakes'
  <2>1. UNCHANGED <<work, inputs, events>> /\ Persist(AnswerRow(p, TRUE))
    BY <1>17 DEF ApproveIntends, Persist, backendVars, native, backend, history
  <2>2. DoneIn(Replayed(journal, AnswerRow(p, TRUE)))
    BY <1>1, <1>2, AnswerAgrees
  <2> QED  BY <1>4, <1>6, <2>1, <2>2
<1>18. CASE ApproveWrites
  <2>1. UNCHANGED <<work, inputs, journal, events>>
    BY <1>18 DEF ApproveWrites, ApproveReserves, Answered, native
  <2> QED  BY <1>5, <1>6, <2>1
<1>19. CASE ApproveEnds
  <2>1. PICK b \in BOOLEAN : Persist(AnswerRow(call.prompt, b))
    BY <1>19 DEF ApproveEnds
  <2>2. call.prompt \in Prompt /\ UNCHANGED <<work, inputs, events>>
    BY <1>2, <1>19 DEF ApproveEnds, Approving, Call, backendVars, native, backend, history
  <2>3. DoneIn(Replayed(journal, AnswerRow(call.prompt, b)))
    BY <1>1, <1>2, <2>2, AnswerAgrees
  <2> QED  BY <1>4, <1>6, <2>1, <2>2, <2>3
<1>20. CASE Observe \/ ObserveFails
  <2>1. PICK e, n : e = Head(events) /\ n = Len(events)
    OBVIOUS
  <2>2. /\ UNCHANGED <<work, inputs>> /\ events # <<>> /\ events' = Tail(events) /\ events \in Seq(Event)
        /\ UNCHANGED journal \/ Persist(EventRow(e))
    BY <1>2, <1>20, <2>1 DEF Observe, ObserveFails, NextEvent, Persist, native, history, BackendTypeOK
  <2>3. /\ e = events[1] /\ DOMAIN events = 1..n /\ n \in Nat \ {0} /\ DOMAIN events' = 1..(n - 1)
        /\ \A i \in 1..(n - 1) : events'[i] = events[i + 1]
    BY <2>1, <2>2, Dequeued
  <2>4. e \in Event /\ 1 \in DOMAIN events
    BY <2>2, <2>3
  <2>5. e.kind = "result" /\ e.turn \in Wake => work[e.turn] = "done"
    BY <1>2, <2>3, <2>4 DEF ResultsAreDone
  <2>6. DoneIn(Replayed(journal, EventRow(e)))
    BY <1>1, <1>2, <2>4, <2>5, EventsAgree
  <2>7. ResultsAreDone'
    <3> SUFFICES ASSUME NEW i \in 1..(n - 1), events'[i].kind = "result", events'[i].turn \in Wake
                 PROVE  work'[events'[i].turn] = "done"
      BY <2>3 DEF ResultsAreDone
    <3>1. i + 1 \in DOMAIN events /\ events'[i] = events[i + 1]
      BY <2>3
    <3> QED  BY <1>2, <2>2, <3>1 DEF ResultsAreDone
  <2> QED  BY <1>4, <1>5, <2>2, <2>6, <2>7
<1>21. CASE WorkerMoves
  <2>1. WorkerStep /\ UNCHANGED <<journal, inputs>>
    BY <1>21 DEF WorkerMoves, history
  <2>2. TurnsAreWakes'
    BY <1>1, <1>2, <2>1, DoneStays DEF TurnsAreWakes
  <2>3. \A t \in Wake : work[t] = "done" => work'[t] = "done"
    BY <1>1, <1>2, <2>1, DoneStays
  <2> QED  BY <1>1, <1>2, <2>1, <2>2, <2>3, WorkRests, WorkerRests
<1>22. CASE UNCHANGED vars
  <2>1. UNCHANGED <<work, inputs, events, journal>>
    BY <1>22 DEF vars, backendVars, native, backend, history
  <2> QED  BY <1>5, <1>6, <2>1
<1> QED
  BY <1>8, <1>9, <1>10, <1>11, <1>12, <1>14, <1>15, <1>16, <1>17, <1>18, <1>19, <1>20, <1>21, <1>22 DEF Next

(* A journal that admits a successor to a Claude worker leaves no turn     *)
(* unfinished, and forgets none: each wake it knows was delivered in the   *)
(* turn that bears its name, each of those turns is complete there, and a  *)
(* turn is complete there only after the worker ended it (resumable).      *)
THEOREM ResumesForgetNothing == Spec => []ResumeOnlyFinished
<1>1. ControllerInit => RestInv
  <2> SUFFICES ASSUME ControllerInit PROVE ResultsAreDone /\ JournalIsDone /\ TurnsAreWakes
    BY Zenon DEF RestInv
  <2>1. events = <<>> /\ \A t \in Wake : work[t] = "none"
    BY DEF ControllerInit, BackendInit
  <2>2. \A t \in Wake : journal.turns[t] = "none" /\ journal.sent[t] = NoDelivery
    BY DEF ControllerInit, Turn
  <2>3. JournalIsDone
    <3>1. NoDelivery.state = "none"
      BY DEF NoDelivery
    <3>2. \A t \in Wake : journal.turns[t] = "none" /\ journal.sent[t].state = "none"
      BY <2>2, <3>1
    <3> QED  BY <3>2 DEF JournalIsDone, DoneIn
  <2> QED  BY <2>1, <2>3 DEF ResultsAreDone, TurnsAreWakes
<1>2. ControllerInv /\ RestInv => ResumeOnlyFinished
  <2> SUFFICES ASSUME ControllerInv, RestInv, Claude, ~journal.torn, Resumable(journal), NEW t \in Wake, work[t] # "none"
               PROVE  work[t] = "done"
    BY DEF ResumeOnlyFinished
  <2>1. journal.sent[t] # NoDelivery
    BY DEF ControllerInv, WakesAreKnown, RestInv, TurnsAreWakes
  <2>2. journal.sent[t].state = "delivered" /\ journal.turns[journal.sent[t].turn] = "complete"
    BY <2>1 DEF Resumable
  <2>3. journal.sent[t].turn = t
    BY <2>2 DEF RestInv, JournalIsDone, DoneIn
  <2> QED  BY <2>2, <2>3 DEF RestInv, JournalIsDone, DoneIn
<1>3. ControllerInv /\ RestInv /\ [Next]_vars => RestInv'
  BY RestStep
<1> QED  BY <1>1, <1>2, <1>3, ControllerInvariant, PTL DEF Spec
=============================================================================
