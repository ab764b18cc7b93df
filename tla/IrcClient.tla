----------------------------- MODULE IrcClient -----------------------------
(***************************************************************************)
(* Who is online: the ISON query of the IRC client (internal/ircwire,      *)
(* Presence).  A reply carries no tag of the query it answers, so a query  *)
(* goes out only while none is owed a reply, and a query left unanswered   *)
(* pauses the mechanism until the reply it is owed comes in.               *)
(*                                                                         *)
(* A caller holds the lock `asking` for its whole round trip; the mailbox  *)
(* is installed, filled and cleared under the lock qmu.  A query is its    *)
(* number, and a reply names the query it answers, which no code can see.  *)
(***************************************************************************)
EXTENDS Integers, Sequences

CONSTANTS
  Caller,
  MaxQueries   \* bounds the queries ever made

None == 0

VARIABLES
  call,      \* what each caller of Presence is doing, and with which query
  asking,    \* whether a caller holds the lock
  asked,     \* how many queries were made
  waiter,    \* the query whose mailbox is installed
  box,       \* what lies in that query's mailbox
  dead,      \* whether the mechanism is paused
  out,       \* queries on their way to the server
  in,        \* replies on their way back
  reader,    \* the read loop: it reads, has failed, has woken the query, is done
  open,      \* whether the socket is open
  closed,    \* whether its owner has closed the client
  told       \* what the calls were told: of which query they got the reply

vars == <<call, asking, asked, waiter, box, dead, out, in, reader, open, closed, told>>

Idle == [at |-> "idle", q |-> None]
Error == [of |-> None, ok |-> FALSE]

Init ==
  /\ call = [c \in Caller |-> Idle] /\ asking = FALSE /\ asked = 0
  /\ waiter = None /\ box = <<>> /\ dead = FALSE
  /\ out = <<>> /\ in = <<>> /\ reader = "reads" /\ open = TRUE /\ closed = FALSE
  /\ told = {}

-----------------------------------------------------------------------------
(* A caller.                                                               *)

Ask(c) ==
  /\ call[c].at = "idle" /\ ~asking /\ asked < MaxQueries /\ ~dead
  /\ asking' = TRUE /\ asked' = asked + 1
  /\ waiter' = asked' /\ box' = <<>>
  /\ call' = [call EXCEPT ![c] = [at |-> "send", q |-> asked']]
  /\ UNCHANGED <<dead, out, in, reader, open, closed, told>>

(* A write that reports failure may have sent the whole line. *)
SendLine(line, ok) ==
  /\ ok => open /\ ~closed
  /\ \/ open /\ ~closed /\ out' = Append(out, line)
     \/ ~ok /\ out' = out

Send(c) ==
  /\ call[c].at = "send"
  /\ \E ok \in BOOLEAN :
       /\ SendLine(call[c].q, ok)
       /\ call' = [call EXCEPT ![c].at = IF ok THEN "await" ELSE "unsent"]
  /\ UNCHANGED <<asking, asked, waiter, box, dead, in, reader, open, closed, told>>

(* Mutant: the mailbox is cleared, and the reply that is owed forgotten. *)
OnlyClears(q, pause) == waiter' = (IF waiter = q THEN None ELSE waiter) /\ UNCHANGED dead

(* Only the query whose mailbox is still installed may pause: a mailbox    *)
(* that is gone has its reply.                                             *)
ClearWaiter(q, pause) ==
  IF waiter = q THEN waiter' = None /\ dead' = (dead \/ pause)
  ELSE UNCHANGED <<waiter, dead>>

Returns(c, reply) ==
  /\ told' = told \cup {[q |-> call[c].q, reply |-> reply]}
  /\ call' = [call EXCEPT ![c] = Idle]
  /\ asking' = FALSE
  /\ UNCHANGED <<asked, out, in, reader, open, closed>>

GivesUp(c) == call[c].at = "unsent" /\ ClearWaiter(call[c].q, TRUE) /\ Returns(c, Error) /\ UNCHANGED box

Answered(c) ==
  /\ call[c].at = "await" /\ box # <<>>
  /\ ClearWaiter(call[c].q, FALSE) /\ Returns(c, Head(box)) /\ box' = <<>>

SeesClosed(c) ==
  /\ call[c].at = "await" /\ closed
  /\ ClearWaiter(call[c].q, FALSE) /\ Returns(c, Error) /\ UNCHANGED box

TimesOut(c) ==
  /\ call[c].at = "await"
  /\ ClearWaiter(call[c].q, TRUE)
  /\ call' = [call EXCEPT ![c].at = "late"]
  /\ UNCHANGED <<asking, asked, box, out, in, reader, open, closed, told>>

(* The reply may have come in the instant the timer fired. *)
LooksAgain(c) ==
  /\ call[c].at = "late"
  /\ Returns(c, IF box # <<>> THEN Head(box) ELSE Error)
  /\ box' = <<>> /\ UNCHANGED <<waiter, dead>>

-----------------------------------------------------------------------------
(* The read loop.                                                          *)

(* Mutant: a reply nobody waits for is dropped and nothing more. *)
Dropped == UNCHANGED dead

(* A reply with nobody waiting is the one that was owed. *)
Resumes == dead' = FALSE

AnswerPresence(reply) ==
  IF waiter = None THEN Resumes /\ UNCHANGED <<waiter, box>>
  ELSE box' = <<reply>> /\ waiter' = None /\ UNCHANGED dead

Read ==
  /\ reader = "reads" /\ open /\ in # <<>>
  /\ AnswerPresence(Head(in)) /\ in' = Tail(in)
  /\ UNCHANGED <<call, asking, asked, out, reader, open, closed, told>>

(* The socket breaks, a line is too long, or the owner has closed it. *)
ReadFails ==
  /\ reader = "reads" /\ reader' = "failed"
  /\ UNCHANGED <<call, asking, asked, waiter, box, dead, out, in, open, closed, told>>

FailPresence ==
  /\ reader = "failed" /\ reader' = "woke"
  /\ IF waiter = None THEN UNCHANGED <<waiter, box>> ELSE box' = <<Error>> /\ waiter' = None
  /\ UNCHANGED <<call, asking, asked, dead, out, in, open, closed, told>>

CloseConn ==
  /\ reader = "woke" /\ reader' = "done" /\ open' = FALSE
  /\ UNCHANGED <<call, asking, asked, waiter, box, dead, out, in, closed, told>>

Close ==
  /\ ~closed /\ closed' = TRUE /\ open' = FALSE
  /\ UNCHANGED <<call, asking, asked, waiter, box, dead, out, in, reader, told>>

-----------------------------------------------------------------------------
(* The server answers queries in the order they come, says it does not     *)
(* know the command, or answers with something that is no reply.           *)
Answers ==
  /\ out # <<>> /\ out' = Tail(out)
  /\ \E ok \in BOOLEAN : in' = Append(in, [of |-> Head(out), ok |-> ok])
  /\ UNCHANGED <<call, asking, asked, waiter, box, dead, reader, open, closed, told>>

Ignores ==
  /\ out # <<>> /\ out' = Tail(out)
  /\ UNCHANGED <<call, asking, asked, waiter, box, dead, in, reader, open, closed, told>>

Presence(c) ==
  Ask(c) \/ Send(c) \/ GivesUp(c) \/ Answered(c) \/ SeesClosed(c) \/ TimesOut(c) \/ LooksAgain(c)

ReadLoop == Read \/ FailPresence \/ CloseConn

Next ==
  \/ \E c \in Caller : Presence(c)
  \/ ReadLoop \/ ReadFails \/ Close
  \/ Answers \/ Ignores

(* The loop reads what is there, and a call that was made goes on to its   *)
(* end, by its timer if by nothing else.                                   *)
Goes(c) == Send(c) \/ GivesUp(c) \/ Answered(c) \/ SeesClosed(c) \/ TimesOut(c) \/ LooksAgain(c)

Spec == Init /\ [][Next]_vars /\ WF_vars(ReadLoop) /\ \A c \in Caller : WF_vars(Goes(c))

-----------------------------------------------------------------------------
(* Presence: a call is told the reply to its own query or none, whatever   *)
(* timed out, failed to write or was answered late before it.              *)
AnswerIsOwn == \A t \in told : t.reply.of \in {None, t.q}

LateReply == dead /\ in # <<>> /\ reader = "reads"
Resumed == ~dead \/ reader # "reads" \/ ~open

(* answerPresence: a late reply that has come back puts the mechanism to   *)
(* use again, unless the connection ends first.                            *)
LateReplyResumes == LateReply ~> Resumed

-----------------------------------------------------------------------------
(* What the code says of itself and does not keep: no run checks it, and   *)
(* the README tells what breaks it.                                        *)

(* failPresence "wakes an outstanding query when the connection ends, so a *)
(* caller learns the connection died instead of waiting out its own        *)
(* timeout": nobody is left to the timer.                                  *)
NoneWaitsItOut ==
  \A c \in Caller : call[c].at = "await" /\ reader = "done" => box # <<>> \/ closed
=============================================================================
